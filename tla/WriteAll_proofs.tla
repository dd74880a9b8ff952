--------------------------- MODULE WriteAll_proofs ---------------------------
(***************************************************************************)
(* Proofs about WriteAll: its types, the repeated SSL_write, and that it   *)
(* implements OutputStream.                                                *)
(***************************************************************************)
EXTENDS WriteAll, SequenceTheorems, TLAPS

-----------------------------------------------------------------------------
(* Lemmas on sequences: what is left of one, and its parts.                *)

(* Nothing is left of a sequence that was read to its end.                 *)
LEMMA NothingLeft ==
  ASSUME NEW S, NEW s \in Seq(S), NEW w \in Nat, w >= Len(s)
  PROVE  SubSeq(s, w + 1, Len(s)) = <<>>
  OBVIOUS

(* A sequence is what is left of it before the first byte is read.         *)
LEMMA WholeLeft ==
  ASSUME NEW S, NEW s \in Seq(S)
  PROVE  SubSeq(s, 0 + 1, Len(s)) = s
  OBVIOUS

(* The sequence left after w bytes: its type and length.                   *)
LEMMA RestProperties ==
  ASSUME NEW S, NEW s \in Seq(S), NEW w \in 0 .. Len(s),
         NEW n \in w .. Len(s)
  PROVE  /\ SubSeq(s, w + 1, n) \in Seq(S)
         /\ Len(SubSeq(s, w + 1, n)) = n - w
         /\ \A i \in 1 .. n - w : SubSeq(s, w + 1, n)[i] = s[w + i]
<1>1. \A i \in w + 1 .. n : s[i] \in S
  OBVIOUS
<1>2. w + 1 \in Int /\ n \in Int
  OBVIOUS
<1> QED
  BY <1>1, <1>2, SubSeqProperties

(* The first k bytes of the rest are the next k bytes of the sequence.     *)
LEMMA FirstOfRest ==
  ASSUME NEW S, NEW s \in Seq(S), NEW w \in 0 .. Len(s),
         NEW k \in 0 .. Len(s) - w
  PROVE  SubSeq(SubSeq(s, w + 1, Len(s)), 1, k) = SubSeq(s, w + 1, w + k)
<1> DEFINE rest  == SubSeq(s, w + 1, Len(s))
           left  == SubSeq(rest, 0 + 1, k)
           right == SubSeq(s, w + 1, w + k)
<1>1. rest \in Seq(S) /\ Len(rest) = Len(s) - w
      /\ \A i \in 1 .. Len(s) - w : rest[i] = s[w + i]
  BY RestProperties
<1>2. left \in Seq(S) /\ Len(left) = k
      /\ \A i \in 1 .. k : left[i] = rest[0 + i]
  <2>1. 0 \in 0 .. Len(rest) /\ k \in 0 .. Len(rest)
    BY <1>1
  <2> HIDE DEF rest
  <2> QED
    BY <1>1, <2>1, RestProperties
<1>3. right \in Seq(S) /\ Len(right) = k
      /\ \A i \in 1 .. k : right[i] = s[w + i]
  <2>1. w + k \in w .. Len(s) /\ (w + k) - w = k
    OBVIOUS
  <2> QED
    BY <2>1, RestProperties
<1>4. \A i \in 1 .. k : left[i] = right[i]
  <2> HIDE DEF rest, left, right
  <2> QED
    BY <1>1, <1>2, <1>3
<1>5. left = right
  <2> HIDE DEF left, right
  <2> QED
    BY <1>2, <1>3, <1>4, SeqEqual
<1> QED
  BY <1>5

(* What is left of the rest after k bytes is what is left after w + k.     *)
LEMMA RestOfRest ==
  ASSUME NEW S, NEW s \in Seq(S), NEW w \in 0 .. Len(s),
         NEW k \in 0 .. Len(s) - w
  PROVE  SubSeq(SubSeq(s, w + 1, Len(s)), k + 1, Len(s) - w)
           = SubSeq(s, (w + k) + 1, Len(s))
<1> DEFINE rest  == SubSeq(s, w + 1, Len(s))
           left  == SubSeq(rest, k + 1, Len(s) - w)
           right == SubSeq(s, (w + k) + 1, Len(s))
           n     == Len(s) - w - k
<1>1. rest \in Seq(S) /\ Len(rest) = Len(s) - w
      /\ \A i \in 1 .. Len(s) - w : rest[i] = s[w + i]
  BY RestProperties
<1>2. left \in Seq(S) /\ Len(left) = n
      /\ \A i \in 1 .. n : left[i] = rest[k + i]
  <2>1. k \in 0 .. Len(rest) /\ Len(s) - w \in k .. Len(rest)
    BY <1>1
  <2> HIDE DEF rest
  <2> QED
    BY <1>1, <2>1, RestProperties
<1>3. right \in Seq(S) /\ Len(right) = n
      /\ \A i \in 1 .. n : right[i] = s[(w + k) + i]
  <2>1. w + k \in 0 .. Len(s) /\ Len(s) \in w + k .. Len(s)
        /\ Len(s) - (w + k) = n
    OBVIOUS
  <2> HIDE DEF n
  <2> QED
    BY <2>1, RestProperties
<1>4. \A i \in 1 .. n : left[i] = right[i]
  <2>1. \A i \in 1 .. n : k + i \in 1 .. Len(s) - w /\ w + (k + i) = (w + k) + i
    OBVIOUS
  <2> HIDE DEF rest, left, right, n
  <2> QED
    BY <2>1, <1>1, <1>2, <1>3
<1>5. left = right
  <2> HIDE DEF left, right
  <2> QED
    BY <1>2, <1>3, <1>4, SeqEqual
<1> QED
  BY <1>5

-----------------------------------------------------------------------------
(* The invariant: a write to be repeated is the one at hand, from the time *)
(* it was refused until it is repeated or the connection is given up.      *)

WantInv ==
  wanted # <<>> =>
    /\ use_tls
    /\ pc \in {"loop", "failed"}
    /\ written < Len(buf)
    /\ wanted = <<written, chunk>>

IInv == TypeOK /\ WantInv

(* The bytes a write takes.                                                *)
LEMMA ChunkFits ==
  ASSUME TypeOK, InLoop
  PROVE  /\ remaining \in 1 .. Len(buf)
         /\ chunk \in 1 .. remaining
         /\ chunk \in 1 .. INT_MAX
  BY BoundAssumption DEF TypeOK, InLoop, remaining, chunk, Min

(* A write of k bytes keeps written within the buffer and sends bytes.     *)
LEMMA TakesKeepsTypes ==
  ASSUME TypeOK, InLoop, NEW k \in 1 .. remaining, Takes(k)
  PROVE  written' \in 0 .. Len(buf') /\ out' \in Seq(Byte)
<1>1. k \in 1 .. Len(buf) - written /\ written \in 0 .. Len(buf)
  BY DEF TypeOK, remaining
<1>2. written + k \in 0 .. Len(buf) /\ written + k \in written .. Len(buf)
  BY <1>1 DEF TypeOK
<1>3. SubSeq(buf, written + 1, written + k) \in Seq(Byte)
  BY <1>1, <1>2, RestProperties DEF TypeOK
<1> QED
  BY <1>2, <1>3 DEF TypeOK, Takes, Given

(* The initial states satisfy the invariant.                               *)
LEMMA InitIInv == Init => IInv
  BY ChoicesAssumption, BoundAssumption
     DEF Init, IInv, TypeOK, WantInv

(* Every step preserves it.                                                *)
LEMMA NextIInv == IInv /\ [Next]_vars => IInv'
<1> SUFFICES ASSUME IInv, [Next]_vars PROVE IInv'
  OBVIOUS
<1> USE BoundAssumption
<1>1. ASSUME NEW bytes \in Buffers, Call(bytes) PROVE IInv'
  <2>1. bytes \in Seq(Byte) /\ Len(bytes) \in Nat
    BY DEF Buffers
  <2>2. wanted = <<>>
    BY <1>1 DEF IInv, WantInv, Call
  <2> QED
    BY <1>1, <2>1, <2>2 DEF IInv, TypeOK, WantInv, Call
<1>2. CASE Write
  <2>1. PICK k \in 1 .. remaining : Takes(k)
    BY <1>2 DEF Write
  <2>2. written' \in 0 .. Len(buf') /\ out' \in Seq(Byte)
    BY <1>2, <2>1, TakesKeepsTypes DEF IInv, Write
  <2>3. TypeOK'
    BY <1>2, <2>1, <2>2 DEF IInv, TypeOK, Write, Takes
  <2>4. wanted = <<>>
    BY <1>2 DEF IInv, WantInv, Write
  <2> QED
    BY <1>2, <2>3, <2>4 DEF IInv, WantInv, Write
<1>3. CASE Interrupted
  <2>1. wanted = <<>>
    BY <1>3 DEF IInv, WantInv, Interrupted
  <2> QED
    BY <1>3, <2>1 DEF IInv, TypeOK, WantInv, Interrupted, AfterRetry
<1>4. CASE SslWrite
  <2>1. Takes(chunk) /\ wanted' = <<>> /\ InLoop
    BY <1>4 DEF SslWrite
  <2>2. chunk \in 1 .. remaining
    BY <2>1, ChunkFits DEF IInv
  <2>3. written' \in 0 .. Len(buf') /\ out' \in Seq(Byte)
    BY <2>1, <2>2, TakesKeepsTypes DEF IInv
  <2>4. TypeOK'
    BY <2>1, <2>3 DEF IInv, TypeOK, Takes
  <2> QED
    BY <2>1, <2>4 DEF IInv, WantInv
<1>5. CASE SslWants
  <2>1. chunk \in 1 .. INT_MAX
    BY <1>5, ChunkFits DEF IInv, SslWants
  <2>2. TypeOK'
    BY <1>5, <2>1 DEF IInv, TypeOK, SslWants, AfterRetry
  <2>3. WantInv'
    BY <1>5 DEF WantInv, SslWants, AfterRetry, InLoop, chunk, remaining
  <2> QED
    BY <2>2, <2>3 DEF IInv
<1>6. CASE WriteFails
  BY <1>6 DEF IInv, TypeOK, WantInv, WriteFails, InLoop, chunk, remaining
<1>7. CASE Return
  <2>1. wanted = <<>>
    BY <1>7 DEF IInv, TypeOK, WantInv, Return
  <2> QED
    BY <1>7, <2>1 DEF IInv, TypeOK, WantInv, Return
<1>8. CASE UNCHANGED vars
  BY <1>8 DEF vars, IInv, TypeOK, WantInv, chunk, remaining
<1> QED
  BY <1>1, <1>2, <1>3, <1>4, <1>5, <1>6, <1>7, <1>8 DEF Next

-----------------------------------------------------------------------------
(* The invariant of the write loops, from which the rest follows.          *)
THEOREM Invariance == Spec => []IInv
<1>1. Init => IInv
  BY InitIInv
<1>2. IInv /\ [Next]_vars => IInv'
  BY NextIInv
<1> QED
  BY <1>1, <1>2, PTL DEF Spec

(* written never passes the end of the buffer, whatever the buffers, their *)
(* lengths and INT_MAX.                                                    *)
THEOREM TypeCorrect == Spec => []TypeOK
<1>1. IInv => TypeOK
  BY DEF IInv
<1> QED
  BY <1>1, Invariance, PTL

(* An SSL_write that reported WANT_READ or WANT_WRITE is repeated with the *)
(* same bytes.                                                             *)
THEOREM RetriesRepeat == Spec => []RetryRepeats
<1>1. IInv => RetryRepeats
  BY DEF IInv, WantInv, RetryRepeats
<1> QED
  BY <1>1, Invariance, PTL

-----------------------------------------------------------------------------
(* The refinement.                                                         *)

(* A write of k bytes sends the next k bytes of the call.                  *)
LEMMA TakesEmits ==
  ASSUME TypeOK, InLoop, NEW k \in 1 .. remaining, Takes(k)
  PROVE  Stream!Next
<1> DEFINE rest == SubSeq(buf, written + 1, Len(buf))
<1>1. /\ buf \in Seq(Byte)
      /\ written \in 0 .. Len(buf)
      /\ k \in 1 .. Len(buf) - written
      /\ k \in 0 .. Len(buf) - written
  BY DEF TypeOK, remaining
<1>2. Len(rest) = Len(buf) - written
  <2>1. Len(buf) \in written .. Len(buf)
    BY <1>1
  <2> QED
    BY <1>1, <2>1, RestProperties
<1>3. SubSeq(rest, 1, k) = SubSeq(buf, written + 1, written + k)
  BY <1>1, FirstOfRest
<1>4. SubSeq(rest, k + 1, Len(rest)) = SubSeq(buf, (written + k) + 1, Len(buf))
  BY <1>1, <1>2, RestOfRest
<1>5. out' = out \o SubSeq(rest, 1, k)
  BY <1>3 DEF Takes, Given
<1>6. SubSeq(buf', written' + 1, Len(buf')) = SubSeq(rest, k + 1, Len(rest))
  BY <1>4 DEF Takes
<1>7. pc = "loop" /\ pc' = "loop"
  BY DEF InLoop, Takes
<1>8. Stream!Emit(k)
  BY <1>5, <1>6, <1>7 DEF Stream!Emit
<1> QED
  BY <1>1, <1>2, <1>8 DEF Stream!Next

(* In the loop there is something left.                                    *)
LEMMA InLoopPending ==
  ASSUME TypeOK, InLoop
  PROVE  SubSeq(buf, written + 1, Len(buf)) # <<>>
<1>1. written \in 0 .. Len(buf) /\ Len(buf) \in written .. Len(buf)
      /\ buf \in Seq(Byte) /\ Len(buf) - written # 0
  BY DEF TypeOK, InLoop
<1>2. Len(SubSeq(buf, written + 1, Len(buf))) = Len(buf) - written
  BY <1>1, RestProperties
<1> QED
  BY <1>1, <1>2

(* Every initial state is one of the abstract specification.               *)
LEMMA InitImplements == Init => Stream!Init
<1> SUFFICES ASSUME Init PROVE Stream!Init
  OBVIOUS
<1>1. buf = <<>> /\ written = 0 /\ pc = "idle" /\ out = <<>>
  BY DEF Init
<1>2. SubSeq(buf, written + 1, Len(buf)) = <<>>
  BY <1>1
<1> QED
  BY <1>1, <1>2 DEF Stream!Init

(* Every step is one of the abstract specification, or a stutter.          *)
LEMMA NextImplements == IInv /\ [Next]_vars => [Stream!Next]_(Stream!vars)
<1> SUFFICES ASSUME IInv, [Next]_vars PROVE [Stream!Next]_(Stream!vars)
  OBVIOUS
<1>t. TypeOK
  BY DEF IInv
<1>1. ASSUME NEW bytes \in Buffers, Call(bytes) PROVE Stream!Next
  <2>1. bytes \in Seq(Byte)
    BY DEF Buffers
  <2>2. SubSeq(bytes, 0 + 1, Len(bytes)) = bytes
    BY <2>1, WholeLeft
  <2>3. Stream!Call(bytes)
    BY <1>1, <2>2 DEF Call, Stream!Call
  <2> QED
    BY <2>3 DEF Stream!Next
<1>2. CASE Write
  <2>1. PICK k \in 1 .. remaining : Takes(k)
    BY <1>2 DEF Write
  <2> QED
    BY <1>2, <1>t, <2>1, TakesEmits DEF Write
<1>3. CASE Interrupted
  BY <1>3 DEF Interrupted, AfterRetry, Stream!vars
<1>4. CASE SslWrite
  <2>1. Takes(chunk) /\ InLoop /\ chunk \in 1 .. remaining
    BY <1>4, <1>t, ChunkFits DEF SslWrite
  <2> QED
    BY <2>1, <1>t, TakesEmits
<1>5. CASE SslWants
  BY <1>5 DEF SslWants, AfterRetry, Stream!vars
<1>6. CASE WriteFails
  <2>1. SubSeq(buf, written + 1, Len(buf)) # <<>>
    BY <1>6, <1>t, InLoopPending DEF WriteFails
  <2>2. Stream!Fail
    BY <1>6, <2>1 DEF WriteFails, InLoop, Stream!Fail
  <2> QED
    BY <2>2 DEF Stream!Next
<1>7. CASE Return
  <2>1. buf \in Seq(Byte) /\ written \in Nat /\ written >= Len(buf)
    BY <1>7, <1>t DEF TypeOK, Return
  <2>2. SubSeq(buf, written + 1, Len(buf)) = <<>>
    BY <2>1, NothingLeft
  <2>3. Stream!Return
    BY <1>7, <2>2 DEF Return, Stream!Return
  <2> QED
    BY <2>3 DEF Stream!Next
<1>8. CASE UNCHANGED vars
  BY <1>8 DEF vars, Stream!vars
<1> QED
  BY <1>1, <1>2, <1>3, <1>4, <1>5, <1>6, <1>7, <1>8 DEF Next

(* However the writes are split, interrupted or refused, the loops do what *)
(* OutputStream says.                                                      *)
THEOREM StreamImplemented == Spec => ImplementsStream
<1>1. Init => Stream!Init
  BY InitImplements
<1>2. IInv /\ [Next]_vars => [Stream!Next]_(Stream!vars)
  BY NextImplements
<1> QED
  BY <1>1, <1>2, Invariance, PTL DEF Spec, ImplementsStream
=============================================================================
