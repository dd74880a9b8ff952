------------------------ MODULE StreamReceive_proofs ------------------------
(***************************************************************************)
(* The two models of stream.c.  StreamReceive: the safety of the loop for  *)
(* every timeout, any number of segments and chunks in flight, records of  *)
(* any size and any number of signals.  StdinLine: quit is recognised      *)
(* exactly, for every line buffer, every read and any number of lines.     *)
(***************************************************************************)
EXTENDS StreamReceive, StdinLine, SequenceTheorems, TLAPS

-----------------------------------------------------------------------------
(* The line buffer of stdin: an invariant about the whole session.         *)

(* What the line buffer holds: the bytes after the last newline of the      *)
(* session, which is its p-th byte (p = 0: there was none), or, once they   *)
(* are more than the buffer takes, anything of its length.                 *)
InLine(p, s, text, overflow) ==
  /\ p \in {0} \cup Newlines(s)
  /\ \A k \in Newlines(s) : k <= p
  /\ overflow => Len(s) - p > LineCap /\ Len(text) = LineCap
  /\ ~overflow => text = SubSeq(s, p + 1, Len(s))

(* Between two bytes no line has read quit so far.                         *)
Between(s, text, overflow) ==
  ~QuitTyped(s) /\ \E p \in 0 .. Len(s) : InLine(p, s, text, overflow)

(* Nothing is consumed beyond the bound: a read was only made if it fits.  *)
LineInv ==
  /\ LineTypeOK
  /\ call = "consuming" => consumed + (Len(buf) - i) <= MaxConsumed
  /\ call = "quit" => QuitTyped(session)
  /\ call # "quit" => Between(session, line_buf, line_overflow)

(* The characters of quit are neither CR nor newlines. *)
LEMMA QuitWordFacts ==
  /\ QuitWord \in Seq(Char) /\ Len(QuitWord) \in Nat
  /\ \A k \in 1 .. Len(QuitWord) : QuitWord[k] # CR /\ QuitWord[k] # NL
  /\ NL \in Char /\ CR \in Char
  /\ LineCap \in Nat /\ LineCap > Len(QuitWord)
<1>1. QuitWord \in Seq(Letters) /\ Letters \subseteq Char
  BY LineAssumption DEF Char
<1>2. QuitWord \in Seq(Char)
  BY <1>1
<1>3. \A k \in 1 .. Len(QuitWord) : QuitWord[k] \in Letters
  BY <1>1, ElementOfSeq
<1>. QED
  BY <1>1, <1>2, <1>3, LineAssumption, LenProperties DEF Char

(* Taking the CR off a line leaves quit for the two ways of typing it.     *)
LEMMA StripIsQuit ==
  ASSUME NEW s \in Seq(Char)
  PROVE  StripCR(s) = QuitWord <=> s \in {QuitWord, Append(QuitWord, CR)}
<1>. DEFINE n == Len(s)
            front == SubSeq(s, 1, n - 1)
<1>1. n \in Nat /\ \A k \in 1 .. n : s[k] \in Char
  BY LenProperties, ElementOfSeq
<1>2. CASE s = <<>>
  <2>1. Append(QuitWord, CR) # <<>>
    BY QuitWordFacts, AppendProperties
  <2>. QED
    BY <1>2, <2>1 DEF StripCR
<1>3. CASE s # <<>> /\ s[n] = CR
  <2>1. n \in Nat \ {0}
    BY <1>3, EmptySeq
  <2>2. s # QuitWord
    <3>. SUFFICES ASSUME s = QuitWord PROVE FALSE
      OBVIOUS
    <3>1. n \in 1 .. Len(QuitWord)
      BY <2>1
    <3>2. QuitWord[n] = CR
      BY <1>3
    <3>3. \A k \in 1 .. Len(QuitWord) : QuitWord[k] # CR
      BY QuitWordFacts
    <3>. QED
      BY <3>1, <3>2, <3>3, Zenon
  <2>3. front \in Seq(Char) /\ Len(front) = n - 1 /\ \A k \in 1 .. n - 1 : front[k] = s[k]
    <3>1. n - 1 \in Nat /\ \A k \in 1 .. n - 1 : s[k] \in Char
      BY <1>1, <2>1
    <3>2. /\ front \in Seq(Char) /\ Len(front) = IF 1 <= n - 1 THEN (n - 1) - 1 + 1 ELSE 0
          /\ \A k \in 1 .. (n - 1) - 1 + 1 : front[k] = s[1 + k - 1]
      BY <3>1, SubSeqProperties
    <3>3. /\ (n - 1) - 1 + 1 = n - 1 /\ (1 <= n - 1 \/ n - 1 = 0)
          /\ \A k \in 1 .. n - 1 : 1 + k - 1 = k
      BY <2>1
    <3>. HIDE DEF front, n
    <3>. QED
      BY <3>1, <3>2, <3>3
  <2>. HIDE DEF front
  <2>. DEFINE full == Append(front, CR)
              quit == Append(QuitWord, CR)
  <2>4. /\ full \in Seq(Char) /\ Len(full) = n
        /\ \A k \in 1 .. n - 1 : full[k] = s[k]
        /\ full[n] = s[n]
    BY <1>3, <2>1, <2>3, QuitWordFacts, AppendProperties
  <2>. HIDE DEF full
  <2>5. s = full
    <3>1. \A k \in 1 .. n : s[k] = full[k]
      BY <2>1, <2>4
    <3>. QED
      BY <2>4, <3>1, SeqEqual
  <2>6. full = quit <=> front = QuitWord
    BY <2>3, QuitWordFacts, AppendInjective DEF full
  <2>. QED
    BY <1>3, <2>2, <2>5, <2>6 DEF StripCR, front
<1>4. CASE s # <<>> /\ s[n] # CR
  <2>1. s # Append(QuitWord, CR)
    BY <1>4, QuitWordFacts, AppendProperties
  <2>. QED
    BY <1>4, <2>1 DEF StripCR
<1>. QED
  BY <1>2, <1>3, <1>4

(* Where a line of s lies.                                                 *)
LEMMA LinePlace ==
  ASSUME NEW s \in Seq(Char), NEW l \in LinesOf(s)
  PROVE  /\ l[1] \in {0} \cup Newlines(s) /\ l[2] \in Newlines(s) /\ l = <<l[1], l[2]>>
         /\ l[1] \in 0 .. Len(s) /\ l[2] \in 1 .. Len(s) /\ l[1] < l[2]
         /\ \A k \in Newlines(s) : k <= l[1] \/ k >= l[2]
<1>1. /\ l \in ({0} \cup Newlines(s)) \X Newlines(s)
      /\ l[1] < l[2] /\ \A k \in Newlines(s) : k <= l[1] \/ k >= l[2]
  BY DEF LinesOf
<1>2. Newlines(s) \subseteq 1 .. Len(s) /\ Len(s) \in Nat
  BY LenProperties DEF Newlines
<1>. QED
  BY <1>1, <1>2

(* One more byte leaves the pieces of s as they are.                       *)
LEMMA PieceKept ==
  ASSUME NEW s \in Seq(Char), NEW ch \in Char, NEW a \in 0 .. Len(s), NEW b \in 0 .. Len(s)
  PROVE  SubSeq(Append(s, ch), a + 1, b) = SubSeq(s, a + 1, b)
<1>1. Append(s, ch) = s \o <<ch>> /\ <<ch>> \in Seq(Char) /\ Len(s) \in Nat
  BY AppendIsConcat, LenProperties
<1>2. CASE a + 1 <= b
  <2>1. a + 1 \in 1 .. Len(s) /\ b \in 1 .. Len(s)
    BY <1>1, <1>2
  <2>. QED
    BY <1>1, <2>1, SubSeqOfConcat1
<1>3. CASE ~(a + 1 <= b)
  BY <1>3, SubSeqEmpty
<1>. QED
  BY <1>2, <1>3

(* The rest of s after its first p bytes.                                  *)
LEMMA PieceLength ==
  ASSUME NEW s \in Seq(Char), NEW p \in 0 .. Len(s)
  PROVE  SubSeq(s, p + 1, Len(s)) \in Seq(Char) /\ Len(SubSeq(s, p + 1, Len(s))) = Len(s) - p
<1>. DEFINE text == SubSeq(s, p + 1, Len(s))
<1>1. Len(s) \in Nat /\ \A k \in 1 .. Len(s) : s[k] \in Char
  BY LenProperties, ElementOfSeq
<1>2. /\ text \in Seq(Char)
      /\ Len(text) = IF p + 1 <= Len(s) THEN Len(s) - (p + 1) + 1 ELSE 0
  BY <1>1, SubSeqProperties
<1>3. Len(s) - (p + 1) + 1 = Len(s) - p /\ (p + 1 <= Len(s) \/ Len(s) - p = 0)
  BY <1>1
<1>. HIDE DEF text
<1>4. text \in Seq(Char) /\ Len(text) = Len(s) - p
  BY <1>2, <1>3
<1>. QED
  BY <1>4 DEF text

(* A byte that ends no line completes none.                                *)
LEMMA MidLine ==
  ASSUME NEW s \in Seq(Char), NEW ch \in Char, ch # NL
  PROVE  /\ Newlines(Append(s, ch)) = Newlines(s)
         /\ QuitTyped(Append(s, ch)) <=> QuitTyped(s)
<1>. DEFINE t == Append(s, ch)
<1>1. /\ Len(s) \in Nat /\ Len(t) = Len(s) + 1
      /\ \A k \in 1 .. Len(s) : t[k] = s[k]
      /\ t[Len(s) + 1] = ch
  BY AppendProperties
<1>. HIDE DEF t
<1>2. Newlines(t) = Newlines(s)
  BY <1>1 DEF Newlines
<1>3. LinesOf(t) = LinesOf(s)
  BY <1>2 DEF LinesOf
<1>4. ASSUME NEW l \in LinesOf(s)
      PROVE  SubSeq(t, l[1] + 1, l[2] - 1) = SubSeq(s, l[1] + 1, l[2] - 1)
  <2>1. l[1] \in 0 .. Len(s) /\ l[2] - 1 \in 0 .. Len(s)
    BY <1>1, LinePlace
  <2>. QED
    BY <2>1, PieceKept DEF t
<1>. QED
  BY <1>2, <1>3, <1>4 DEF QuitTyped, t

(* A newline completes the line that began after the last one.             *)
LEMMA EndLine ==
  ASSUME NEW s \in Seq(Char), NEW p \in {0} \cup Newlines(s),
         \A k \in Newlines(s) : k <= p
  PROVE  /\ Len(s) + 1 \in Newlines(Append(s, NL))
         /\ \A k \in Newlines(Append(s, NL)) : k <= Len(s) + 1
         /\ QuitTyped(Append(s, NL)) <=>
              \/ QuitTyped(s)
              \/ SubSeq(s, p + 1, Len(s)) \in {QuitWord, Append(QuitWord, CR)}
<1>. DEFINE N == Len(s) + 1
            t == Append(s, NL)
            lp == <<p, N>>
<1>1. /\ Len(s) \in Nat /\ Len(t) = N
      /\ \A k \in 1 .. Len(s) : t[k] = s[k]
      /\ t[N] = NL
  BY QuitWordFacts, AppendProperties
<1>. HIDE DEF t
<1>2. Newlines(s) \subseteq 1 .. Len(s) /\ p \in 0 .. Len(s)
  BY <1>1 DEF Newlines
<1>3. Newlines(t) = Newlines(s) \cup {N}
  BY <1>1 DEF Newlines
<1>4. lp \in LinesOf(t)
  <2>1. lp[1] = p /\ lp[2] = N /\ lp \in ({0} \cup Newlines(t)) \X Newlines(t)
    BY <1>3
  <2>2. p < N /\ \A k \in Newlines(t) : k <= p \/ k >= N
    BY <1>1, <1>2, <1>3
  <2>. QED
    BY <2>1, <2>2 DEF LinesOf
<1>5. ASSUME NEW l \in LinesOf(s) PROVE l \in LinesOf(t)
  <2>1. /\ l[1] \in {0} \cup Newlines(s) /\ l[2] \in Newlines(s) /\ l = <<l[1], l[2]>>
        /\ l[1] \in 0 .. Len(s) /\ l[2] \in 1 .. Len(s) /\ l[1] < l[2]
        /\ \A k \in Newlines(s) : k <= l[1] \/ k >= l[2]
    BY LinePlace
  <2>2. l \in ({0} \cup Newlines(t)) \X Newlines(t)
    BY <1>3, <2>1
  <2>3. \A k \in Newlines(t) : k <= l[1] \/ k >= l[2]
    BY <1>1, <1>3, <2>1
  <2>. QED
    BY <2>1, <2>2, <2>3 DEF LinesOf
<1>6. ASSUME NEW l \in LinesOf(t), l # lp PROVE l \in LinesOf(s)
  <2>1. /\ l[1] \in {0} \cup Newlines(t) /\ l[2] \in Newlines(t)
        /\ l \in ({0} \cup Newlines(t)) \X Newlines(t) /\ l = <<l[1], l[2]>>
        /\ l[1] < l[2] /\ \A k \in Newlines(t) : k <= l[1] \/ k >= l[2]
    BY DEF LinesOf
  <2>2. CASE l[2] = N
    <3>1. l[1] \in {0} \cup Newlines(s)
      BY <1>1, <1>3, <2>1, <2>2
    <3>2. l[1] <= p /\ l[1] \in 0 .. Len(s)
      BY <1>1, <1>2, <3>1
    <3>3. p <= l[1]
      <4>1. CASE p = 0
        BY <3>2, <4>1
      <4>2. CASE p \in Newlines(s)
        BY <1>1, <1>2, <1>3, <2>1, <2>2, <4>2
      <4>. QED
        BY <4>1, <4>2
    <3>4. l[1] = p
      BY <1>2, <3>2, <3>3
    <3>. QED
      BY <1>6, <2>1, <2>2, <3>4
  <2>3. CASE l[2] # N
    <3>1. l[2] \in Newlines(s) /\ l[2] \in 1 .. Len(s)
      BY <1>2, <1>3, <2>1, <2>3
    <3>2. l[1] \in {0} \cup Newlines(s)
      BY <1>1, <1>3, <2>1, <3>1
    <3>3. l \in ({0} \cup Newlines(s)) \X Newlines(s)
      BY <2>1, <3>1, <3>2
    <3>4. \A k \in Newlines(s) : k <= l[1] \/ k >= l[2]
      BY <1>3, <2>1
    <3>. QED
      BY <2>1, <3>3, <3>4 DEF LinesOf
  <2>. QED
    BY <2>2, <2>3
<1>7. ASSUME NEW l \in LinesOf(s)
      PROVE  SubSeq(t, l[1] + 1, l[2] - 1) = SubSeq(s, l[1] + 1, l[2] - 1)
  <2>1. l[1] \in 0 .. Len(s) /\ l[2] - 1 \in 0 .. Len(s)
    BY <1>1, LinePlace
  <2>. QED
    BY <2>1, QuitWordFacts, PieceKept DEF t
<1>8. SubSeq(t, lp[1] + 1, lp[2] - 1) = SubSeq(s, p + 1, Len(s))
  <2>1. Len(s) \in 0 .. Len(s) /\ N - 1 = Len(s) /\ lp[1] = p /\ lp[2] = N
    BY <1>1
  <2>2. SubSeq(t, p + 1, Len(s)) = SubSeq(s, p + 1, Len(s))
    BY <1>2, <2>1, QuitWordFacts, PieceKept DEF t
  <2>. QED
    BY <2>1, <2>2
<1>9. N \in Newlines(t) /\ \A k \in Newlines(t) : k <= N
  BY <1>1, <1>2, <1>3
<1>. HIDE DEF lp
<1>10. QuitTyped(t) <=> \/ QuitTyped(s)
                        \/ SubSeq(s, p + 1, Len(s)) \in {QuitWord, Append(QuitWord, CR)}
  BY <1>4, <1>5, <1>6, <1>7, <1>8 DEF QuitTyped
<1>. QED
  BY <1>9, <1>10 DEF t

-----------------------------------------------------------------------------
(* A stream_receive that has read nothing.                                 *)
LEMMA NothingTyped == ASSUME NEW overflow, ~overflow PROVE Between(<<>>, <<>>, overflow)
<1>. DEFINE s == <<>>
<1>1. Len(s) = 0 /\ Newlines(s) = {}
  BY DEF Newlines
<1>2. LinesOf(s) = {}
  BY <1>1 DEF LinesOf
<1>3. SubSeq(s, 0 + 1, Len(s)) = s
  BY <1>1, SubSeqEmpty
<1>. HIDE DEF s
<1>4. InLine(0, s, s, overflow)
  BY <1>1, <1>3 DEF InLine
<1>5. ~QuitTyped(s)
  BY <1>2 DEF QuitTyped
<1>6. Between(s, s, overflow)
  BY <1>1, <1>4, <1>5 DEF Between
<1>. QED
  BY <1>6 DEF s

(* A program starts in the invariant. *)
LEMMA LineInitInv == LineInit => LineInv
<1>. SUFFICES ASSUME LineInit PROVE LineInv
  OBVIOUS
<1>1. LineTypeOK
  <2>1. <<>> \in Seq(Char) /\ Len(<<>>) = 0
    BY EmptySeq
  <2>2. 0 \in 0 .. MaxConsumed /\ 0 <= LineCap
    BY LineAssumption
  <2>3. /\ line_buf \in Seq(Char) /\ Len(line_buf) = 0 /\ session \in Seq(Char)
        /\ buf \in Seq(Char) /\ Len(buf) = 0
    BY <2>1 DEF LineInit
  <2>4. line_overflow = FALSE /\ call = "idle" /\ i = 0 /\ consumed = 0
    BY DEF LineInit
  <2>5. Len(line_buf) <= LineCap /\ i \in 0 .. Len(buf) /\ consumed \in 0 .. MaxConsumed
    BY <2>2, <2>3, <2>4
  <2>6. line_overflow \in BOOLEAN /\ call \in {"idle", "consuming", "quit"}
    BY <2>4
  <2>. QED
    BY <2>3, <2>5, <2>6 DEF LineTypeOK
<1>2. session = <<>> /\ line_buf = <<>> /\ line_overflow = FALSE /\ call = "idle"
  BY DEF LineInit
<1>. QED
  BY <1>1, <1>2, NothingTyped DEF LineInv

(* The call of a read keeps the invariant. *)
LEMMA LineReadInv ==
  ASSUME LineInv, NEW n \in 1 .. MaxRead, NEW bytes \in [1 .. n -> Char], Read(bytes)
  PROVE  LineInv'
<1>1. bytes \in Seq(Char) /\ Len(bytes) \in Nat
  BY LineAssumption, LenProperties
<1>2. LineTypeOK'
  BY <1>1 DEF LineInv, LineTypeOK, Read, line
<1>. QED
  BY <1>2 DEF LineInv, Read, line

(* What looking at one byte does. *)
LEMMA TakeFacts ==
  ASSUME LineInv, NEW ch, Take(ch)
  PROVE  /\ ch \in Char /\ i' \in 0 .. Len(buf') /\ buf' \in Seq(Char)
         /\ session' = Append(session, ch) /\ session' \in Seq(Char)
         /\ Len(session') = Len(session) + 1 /\ Len(session) \in Nat
         /\ consumed' \in 0 .. MaxConsumed
         /\ consumed' + (Len(buf') - i') <= MaxConsumed
         /\ call = "consuming" /\ ~QuitTyped(session)
         /\ \E p \in 0 .. Len(session) : InLine(p, session, line_buf, line_overflow)
<1>1. /\ buf \in Seq(Char) /\ i \in 0 .. Len(buf) /\ session \in Seq(Char)
      /\ consumed \in 0 .. MaxConsumed /\ consumed + (Len(buf) - i) <= MaxConsumed
      /\ MaxConsumed \in Nat
      /\ ~QuitTyped(session)
      /\ \E p \in 0 .. Len(session) : InLine(p, session, line_buf, line_overflow)
  BY LineAssumption DEF LineInv, LineTypeOK, Take, Between
<1>2. /\ call = "consuming" /\ i < Len(buf) /\ ch = buf[i + 1] /\ i' = i + 1
      /\ session' = Append(session, ch) /\ consumed' = consumed + 1 /\ buf' = buf
  BY DEF Take
<1>3. Len(buf) \in Nat /\ Len(session) \in Nat
  BY <1>1, LenProperties
<1>4. i + 1 \in 1 .. Len(buf)
  BY <1>1, <1>2, <1>3
<1>5. ch \in Char
  BY <1>1, <1>2, <1>4, ElementOfSeq
<1>6. session' \in Seq(Char) /\ Len(session') = Len(session) + 1
  BY <1>1, <1>2, <1>5, AppendProperties
<1>7. i' \in 0 .. Len(buf') /\ consumed' \in 0 .. MaxConsumed
      /\ consumed' + (Len(buf') - i') <= MaxConsumed
  BY <1>1, <1>2, <1>3
<1>. QED
  BY <1>1, <1>2, <1>3, <1>5, <1>6, <1>7

(* The line that a newline completes is quit iff the code says so.         *)
LEMMA QuitIsQuit ==
  ASSUME LineInv, NEW p \in 0 .. Len(session), InLine(p, session, line_buf, line_overflow)
  PROVE  IsQuit <=> SubSeq(session, p + 1, Len(session)) \in {QuitWord, Append(QuitWord, CR)}
<1>. DEFINE text == SubSeq(session, p + 1, Len(session))
<1>1. session \in Seq(Char) /\ Len(session) \in Nat /\ line_overflow \in BOOLEAN
      /\ \A k \in 1 .. Len(session) : session[k] \in Char
  BY LenProperties, ElementOfSeq DEF LineInv, LineTypeOK
<1>2. text \in Seq(Char) /\ Len(text) = Len(session) - p
  BY <1>1, PieceLength
<1>. HIDE DEF text
<1>3. CASE line_overflow
  <2>1. Len(text) > LineCap
    BY <1>2, <1>3 DEF InLine
  <2>2. Len(Append(QuitWord, CR)) = Len(QuitWord) + 1
    BY QuitWordFacts, AppendProperties
  <2>3. Len(text) # Len(QuitWord) /\ Len(text) # Len(QuitWord) + 1
    BY <1>1, <1>2, <2>1, QuitWordFacts
  <2>. QED
    BY <1>3, <2>2, <2>3 DEF IsQuit, text
<1>4. CASE ~line_overflow
  <2>1. line_buf = text
    BY <1>4 DEF InLine, text
  <2>. QED
    BY <1>2, <1>4, <2>1, StripIsQuit DEF IsQuit, text
<1>. QED
  BY <1>3, <1>4

(* The end of a line, recognised as quit or not, keeps the invariant.      *)
LEMMA EndOfLineInv == ASSUME LineInv, QuitLine \/ OtherLine PROVE LineInv'
<1>1. Take(NL)
  BY DEF QuitLine, OtherLine
<1>2. /\ i' \in 0 .. Len(buf') /\ buf' \in Seq(Char)
      /\ session' = Append(session, NL) /\ session' \in Seq(Char)
      /\ Len(session') = Len(session) + 1 /\ Len(session) \in Nat
      /\ consumed' \in 0 .. MaxConsumed
      /\ consumed' + (Len(buf') - i') <= MaxConsumed
      /\ call = "consuming" /\ ~QuitTyped(session)
  BY <1>1, TakeFacts
<1>3. PICK p \in 0 .. Len(session) : InLine(p, session, line_buf, line_overflow)
  BY <1>1, TakeFacts
<1>4. session \in Seq(Char) /\ p \in {0} \cup Newlines(session)
      /\ \A k \in Newlines(session) : k <= p
  BY <1>3 DEF InLine, LineInv, LineTypeOK
<1>5. /\ Len(session) + 1 \in Newlines(session')
      /\ \A k \in Newlines(session') : k <= Len(session) + 1
      /\ QuitTyped(session') <=> IsQuit
  <2>1. IsQuit <=> SubSeq(session, p + 1, Len(session)) \in {QuitWord, Append(QuitWord, CR)}
    BY <1>3, QuitIsQuit
  <2>. QED
    BY <1>2, <1>4, <2>1, EndLine
<1>6. CASE QuitLine
  <2>1. LineTypeOK'
    BY <1>2, <1>6 DEF QuitLine, LineTypeOK, LineInv, line
  <2>. QED
    BY <1>2, <1>5, <1>6, <2>1 DEF QuitLine, LineInv
<1>7. CASE OtherLine
  <2>1. line_buf' = <<>> /\ line_overflow' = FALSE /\ call' = "consuming" /\ ~IsQuit
    BY <1>2, <1>7 DEF OtherLine, OverflowAfterLine
  <2>2. LineTypeOK'
    <3>1. <<>> \in Seq(Char) /\ Len(<<>>) = 0 /\ 0 <= LineCap
      BY EmptySeq, QuitWordFacts
    <3>2. line_buf' \in Seq(Char) /\ Len(line_buf') <= LineCap
      BY <2>1, <3>1
    <3>. QED
      BY <1>2, <2>1, <3>2 DEF LineTypeOK
  <2>3. SubSeq(session', (Len(session) + 1) + 1, Len(session')) = <<>>
    BY <1>2, SubSeqEmpty
  <2>4. InLine(Len(session) + 1, session', line_buf', line_overflow')
    BY <1>2, <1>5, <2>1, <2>3 DEF InLine
  <2>5. Between(session', line_buf', line_overflow')
    BY <1>2, <1>5, <2>1, <2>4 DEF Between
  <2>. QED
    BY <1>2, <2>1, <2>2, <2>5 DEF LineInv
<1>. QED
  BY <1>6, <1>7

(* A byte inside a line, stored or dropped, keeps the invariant.           *)
LEMMA InsideLineInv ==
  ASSUME LineInv, NEW ch, Store(ch) \/ Overflow(ch) \/ Skip(ch) PROVE LineInv'
<1>1. Take(ch) /\ ch # NL /\ call' = call
  BY DEF Store, Overflow, Skip, line
<1>2. /\ ch \in Char /\ i' \in 0 .. Len(buf') /\ buf' \in Seq(Char)
      /\ session' = Append(session, ch) /\ session' \in Seq(Char)
      /\ Len(session') = Len(session) + 1 /\ Len(session) \in Nat
      /\ consumed' \in 0 .. MaxConsumed
      /\ consumed' + (Len(buf') - i') <= MaxConsumed
      /\ call = "consuming" /\ ~QuitTyped(session)
  BY <1>1, TakeFacts
<1>3. PICK p \in 0 .. Len(session) : InLine(p, session, line_buf, line_overflow)
  BY <1>1, TakeFacts
<1>4. session \in Seq(Char) /\ line_buf \in Seq(Char) /\ Len(line_buf) <= LineCap
      /\ line_overflow \in BOOLEAN /\ LineCap \in Nat /\ Len(line_buf) \in Nat
  BY QuitWordFacts, LenProperties DEF LineInv, LineTypeOK
<1>5. Newlines(session') = Newlines(session) /\ ~QuitTyped(session')
  BY <1>1, <1>2, <1>4, MidLine
<1>6. SubSeq(session', p + 1, Len(session')) = Append(SubSeq(session, p + 1, Len(session)), ch)
      /\ Len(SubSeq(session, p + 1, Len(session))) = Len(session) - p
  <2>. DEFINE text == SubSeq(session, p + 1, Len(session))
  <2>1. /\ p + 1 \in 1 .. Len(session') /\ Len(session') \in p + 1 .. Len(session')
        /\ Len(session') - 1 = Len(session) /\ Len(session) \in 0 .. Len(session)
    BY <1>2
  <2>2. SubSeq(session', p + 1, Len(session'))
          = SubSeq(session', p + 1, Len(session)) \o <<session'[Len(session')]>>
    BY <1>2, <2>1, SubSeqRecursiveSecond
  <2>3. SubSeq(session', p + 1, Len(session)) = text
    BY <1>2, <1>4, <2>1, PieceKept
  <2>4. session'[Len(session')] = ch
    BY <1>2, <1>4, AppendProperties
  <2>5. text \in Seq(Char) /\ Len(text) = Len(session) - p
    BY <1>2, <1>4, PieceLength
  <2>6. Append(text, ch) = text \o <<ch>>
    BY <1>2, <2>5, AppendIsConcat
  <2>. QED
    BY <2>2, <2>3, <2>4, <2>5, <2>6
<1>7. /\ line_buf' \in Seq(Char) /\ Len(line_buf') <= LineCap /\ line_overflow' \in BOOLEAN
      /\ line_overflow' => Len(session') - p > LineCap /\ Len(line_buf') = LineCap
      /\ ~line_overflow' => line_buf' = SubSeq(session', p + 1, Len(session'))
  <2>1. CASE Store(ch)
    <3>1. /\ ~line_overflow /\ Len(line_buf) < LineCap
          /\ line_buf' = Append(line_buf, ch) /\ line_overflow' = line_overflow
      BY <2>1 DEF Store, HasRoom
    <3>2. line_buf' \in Seq(Char) /\ Len(line_buf') = Len(line_buf) + 1
      BY <1>2, <1>4, <3>1, AppendProperties
    <3>3. line_buf = SubSeq(session, p + 1, Len(session))
      BY <1>3, <3>1 DEF InLine
    <3>4. Len(line_buf') <= LineCap
      BY <1>4, <3>1, <3>2
    <3>5. line_buf' = SubSeq(session', p + 1, Len(session'))
      BY <1>6, <3>1, <3>3
    <3>. QED
      BY <1>4, <3>1, <3>2, <3>4, <3>5
  <2>2. CASE Overflow(ch)
    <3>1. /\ ~line_overflow /\ ~(Len(line_buf) < LineCap)
          /\ line_buf' = line_buf /\ line_overflow' = TRUE
      BY <2>2 DEF Overflow, HasRoom
    <3>2. line_buf = SubSeq(session, p + 1, Len(session))
      BY <1>3, <3>1 DEF InLine
    <3>3. Len(line_buf) = LineCap /\ Len(line_buf) = Len(session) - p
      BY <1>4, <1>6, <3>1, <3>2
    <3>. QED
      BY <1>2, <1>4, <3>1, <3>3
  <2>3. CASE Skip(ch)
    <3>1. line_overflow /\ line_buf' = line_buf /\ line_overflow' = line_overflow
      BY <2>3 DEF Skip, line
    <3>2. Len(session) - p > LineCap /\ Len(line_buf) = LineCap
      BY <1>3, <3>1 DEF InLine
    <3>. QED
      BY <1>2, <1>4, <3>1, <3>2
  <2>. QED
    BY <2>1, <2>2, <2>3
<1>8. InLine(p, session', line_buf', line_overflow')
  BY <1>3, <1>5, <1>7 DEF InLine
<1>9. Between(session', line_buf', line_overflow')
  BY <1>2, <1>5, <1>8 DEF Between
<1>10. LineTypeOK'
  BY <1>1, <1>2, <1>7 DEF LineTypeOK
<1>. QED
  BY <1>1, <1>2, <1>9, <1>10 DEF LineInv

(* The return of a read, and a new stream_receive, keep the invariant.     *)
LEMMA BetweenInv == ASSUME LineInv, ReadReturn \/ Reconnect PROVE LineInv'
<1>. DEFINE none == <<>>
<1>1. none \in Seq(Char) /\ Len(none) = 0 /\ 0 <= LineCap
  BY EmptySeq, QuitWordFacts
<1>. HIDE DEF none
<1>2. CASE ReadReturn
  <2>1. /\ buf' = none /\ i' = 0 /\ call' = "idle" /\ call = "consuming"
        /\ UNCHANGED <<line_buf, line_overflow, session, consumed>>
    BY <1>2 DEF ReadReturn, line, none
  <2>2. LineTypeOK'
    BY <1>1, <2>1 DEF LineInv, LineTypeOK
  <2>. QED
    BY <2>1, <2>2 DEF LineInv
<1>3. CASE Reconnect
  <2>1. /\ line_buf' = none /\ line_overflow' = FALSE /\ session' = none
        /\ call' = "idle" /\ UNCHANGED <<buf, i, consumed>>
    BY <1>3 DEF Reconnect, none
  <2>2. LineTypeOK'
    BY <1>1, <2>1 DEF LineInv, LineTypeOK
  <2>3. Between(session', line_buf', line_overflow')
    BY <2>1, NothingTyped DEF none
  <2>. QED
    BY <2>1, <2>2, <2>3 DEF LineInv
<1>. QED
  BY <1>2, <1>3

(* Every step keeps it. *)
LEMMA LineInvStep == ASSUME LineInv, [LineNext]_lineVars PROVE LineInv'
<1>1. CASE UNCHANGED lineVars
  BY <1>1 DEF lineVars, line, LineInv, LineTypeOK
<1>. QED
  BY <1>1, LineReadInv, EndOfLineInv, InsideLineInv, BetweenInv DEF LineNext

(* The invariant of the line buffer holds in every reachable state.        *)
THEOREM LineInvariance == LineSpec => []LineInv
<1>. QED
  BY LineInitInv, LineInvStep, PTL DEF LineSpec

(* The line buffer of stream_receive never exceeds its size and the byte   *)
(* index of stdin_consume_bytes stays inside the read.                     *)
THEOREM LineTypeCorrect == LineSpec => []LineTypeOK
<1>1. LineInv => LineTypeOK
  BY DEF LineInv
<1>. QED
  BY <1>1, LineInvariance, PTL

(* However lines are cut into reads, and however long they are, quit is    *)
(* reported when a complete line of the session reads quit and never else. *)
THEOREM QuitIsExact == LineSpec => []QuitExact
<1>1. LineInv => QuitExact
  BY DEF LineInv, Between, QuitExact
<1>. QED
  BY <1>1, LineInvariance, PTL

-----------------------------------------------------------------------------
(* The loop of stream_receive. *)

USE TimeoutAssumption, ChoicesAssumption, BoundsAssumption

(* What an iteration knows of the descriptors.  The poll that waits for    *)
(* the socket is reached only when OpenSSL holds nothing; an answer of     *)
(* poll stays true until it is used.                                       *)
ReadyInv ==
  /\ pc = "poll" => pending = 0
  /\ pc = "peek" => pending > 0 /\ watch_stdin
  /\ pending > 0 => use_tls
  /\ pc \in {"read", "write"} /\ stdin_ready => StdinReadable
  /\ stdin = "invalid" => typed = <<>>

(* A read is started on an answer of poll that has not gone stale. *)
WokenInv ==
  /\ pc = "read" => pending > 0 \/ ConnReadable
  /\ pc = "stdin" => StdinReadable

(* What the clock knows: outside a write the code's estimate of the        *)
(* server's silence is never above the real one, and a poll that expires   *)
(* makes it complete.                                                      *)
ClockInv ==
  /\ pc \notin {"write", "done"} => silence = Timeout \/ idle <= silence
  /\ pc = "poll" => left <= timeout_ms /\ silence + left >= Timeout

(* Where input on stdin can be overlooked, and how often. *)
HeardInv ==
  /\ overlooked > 0 => watch_stdin /\ StdinReadable
  /\ pc \in {"top", "poll", "peek", "read"} => overlooked <= 1
  /\ pc = "read" /\ ~stdin_ready => overlooked = 0
  /\ pc = "write" /\ ~stdin_ready => overlooked <= 1

IInv ==
  /\ TypeOK
  /\ WokenInv
  /\ StdinHeard
  /\ ReadyInv
  /\ ClockInv
  /\ HeardInv

(* Dropping what was read keeps the type of a queue. *)
LEMMA RestType ==
  ASSUME NEW S, NEW q \in Seq(S), NEW k \in 1 .. Len(q)
  PROVE  SubSeq(q, k + 1, Len(q)) \in Seq(S)
BY SubSeqProperties

(* Every call of stream_receive starts in the invariant. *)
LEMMA InitInv == Init => IInv
<1>. SUFFICES ASSUME Init PROVE IInv
  OBVIOUS
<1>1. use_tls \in BOOLEAN /\ stdin \in {"open", "eof", "endless", "invalid"}
  BY DEF Init
<1>2. TypeOK
  <2>1. net \in Seq({"data", "frag"}) /\ typed \in Seq({"text", "quit"})
    BY DEF Init
  <2>2. /\ idle \in 0 .. Timeout + 1 /\ timeout_ms \in 0 .. Timeout
        /\ left \in 0 .. Timeout /\ silence \in 0 .. Timeout
        /\ pending \in 0 .. MaxPending /\ eintr \in 0 .. MaxEintr
        /\ overlooked \in 0 .. 3
    BY DEF Init
  <2>3. pc \in {"top", "write"} /\ result = "none" /\ peer = "open"
    BY DEF Init
  <2>. QED
    BY <1>1, <2>1, <2>2, <2>3 DEF Init, TypeOK
<1>3. WokenInv /\ StdinHeard /\ ReadyInv /\ ClockInv /\ HeardInv
  BY DEF Init, WokenInv, StdinHeard, ReadyInv, ClockInv, HeardInv
<1>. QED
  BY <1>2, <1>3 DEF IInv

-----------------------------------------------------------------------------
(* Starting an iteration keeps the invariant. *)
LEMMA TopInv == ASSUME IInv, Top PROVE IInv'
<1>1. /\ remaining_timeout_ms \in 0 .. Timeout
      /\ silence + remaining_timeout_ms >= Timeout
  BY DEF remaining_timeout_ms, Top, IInv, TypeOK, ClockInv
<1>2. /\ pc = "top" /\ stdin_ready' = FALSE
      /\ conn_ready' = conn_has_pending_data
      /\ \/ /\ pending > 0
            /\ pc' = IF watch_stdin THEN "peek" ELSE "read"
            /\ UNCHANGED <<timeout_ms, left>>
         \/ /\ pending = 0
            /\ pc' = "poll"
            /\ timeout_ms' = remaining_timeout_ms
            /\ left' = remaining_timeout_ms
      /\ UNCHANGED <<result, watch_stdin, idle, silence, use_tls, server, user,
                     eintr, overlooked>>
  <2>1. (conn_has_pending_data <=> pending > 0) /\ (pending > 0 \/ pending = 0)
    BY DEF conn_has_pending_data, IInv, TypeOK, ReadyInv
  <2>2. CASE conn_has_pending_data
    <3>1. pc' = IF watch_stdin THEN "peek" ELSE "read"
      BY <2>2 DEF Top, AfterPending
    <3>2. UNCHANGED <<timeout_ms, left>>
      BY <2>2 DEF Top
    <3>. QED
      BY <2>1, <2>2, <3>1, <3>2, Zenon DEF Top
  <2>3. CASE ~conn_has_pending_data
    BY <2>1, <2>3 DEF Top
  <2>. QED
    BY <2>2, <2>3
<1>3. TypeOK'
  <2>1. conn_ready' \in BOOLEAN
    BY <1>2 DEF conn_has_pending_data
  <2>. QED
    BY <1>1, <1>2, <2>1 DEF IInv, TypeOK, server, user
<1>4. (WokenInv /\ StdinHeard /\ ReadyInv)'
  BY <1>2 DEF IInv, WokenInv, StdinHeard, ReadyInv, server, user
<1>5. (ClockInv /\ HeardInv)'
  BY <1>1, <1>2 DEF IInv, TypeOK, ClockInv, HeardInv, StdinReadable, user
<1>. QED
  BY <1>3, <1>4, <1>5 DEF IInv

(* Waking from poll keeps the invariant. *)
LEMMA PollWakesInv == ASSUME IInv, PollWakes PROVE IInv'
<1>1. /\ pc = "poll"
      /\ conn_ready' \in BOOLEAN /\ (conn_ready' <=> ConnReadable)
      /\ stdin_ready' \in BOOLEAN
      /\ stdin_ready' <=> watch_stdin /\ StdinReadable
      /\ watch_stdin' \in BOOLEAN
      /\ watch_stdin' <=> watch_stdin /\ stdin # "invalid"
      /\ UNCHANGED <<result, clock, use_tls, server, user, eintr, overlooked>>
  BY DEF PollWakes, ConnReadyAfterPoll, ConnReadable, StdinReadable
<1>2. /\ pc' \in {"read", "stdin", "top"}
      /\ pc' = "read" => ConnReadable
      /\ pc' = "stdin" => stdin_ready'
  BY <1>1 DEF PollWakes
<1>3. (StdinReadable' <=> StdinReadable) /\ (ConnReadable' <=> ConnReadable)
  BY <1>1 DEF StdinReadable, ConnReadable, server, user
<1>4. TypeOK'
  BY <1>1, <1>2 DEF IInv, TypeOK, clock, server, user
<1>5. (WokenInv /\ StdinHeard /\ ReadyInv /\ ClockInv)'
  BY <1>1, <1>2, <1>3
  DEF IInv, WokenInv, StdinHeard, ReadyInv, ClockInv, clock, server, user
<1>6. HeardInv'
  <2>1. overlooked > 0 => stdin # "invalid"
    BY DEF IInv, HeardInv, ReadyInv, StdinReadable
  <2>2. overlooked \in 0 .. 3
    BY DEF IInv, TypeOK
  <2>. QED
    BY <1>1, <1>2, <1>3, <2>1, <2>2 DEF IInv, HeardInv
<1>. QED
  BY <1>4, <1>5, <1>6 DEF IInv

(* A poll that expires keeps the invariant. *)
LEMMA PollTimesOutInv == ASSUME IInv, PollTimesOut PROVE IInv'
<1>1. /\ pc = "poll" /\ pc' = "done" /\ result' = "STREAM_TIMEOUT"
      /\ UNCHANGED <<locals, clock, use_tls, server, user, eintr, overlooked>>
  BY DEF PollTimesOut, Return
<1>2. TypeOK'
  BY <1>1 DEF IInv, TypeOK, locals, clock, server, user
<1>3. (WokenInv /\ StdinHeard /\ ReadyInv /\ ClockInv /\ HeardInv)'
  BY <1>1 DEF IInv, WokenInv, StdinHeard, ReadyInv, ClockInv, HeardInv,
              StdinReadable, locals, clock, server, user
<1>. QED
  BY <1>2, <1>3 DEF IInv

(* A repeated poll keeps the invariant. *)
LEMMA PollInterruptedInv == ASSUME IInv, PollInterrupted PROVE IInv'
<1>1. TypeOK'
  BY DEF PollInterrupted, IInv, TypeOK, locals, server, user
<1>2. (WokenInv /\ StdinHeard /\ ReadyInv /\ HeardInv)'
  BY DEF PollInterrupted, IInv, WokenInv, StdinHeard, ReadyInv, HeardInv,
         StdinReadable, locals, server, user
<1>3. ClockInv'
  BY DEF PollInterrupted, IInv, TypeOK, ClockInv
<1>. QED
  BY <1>1, <1>2, <1>3 DEF IInv

(* Polling stdin alone keeps the invariant. *)
LEMMA PeekInv == ASSUME IInv, Peek PROVE IInv'
<1>1. TypeOK'
  BY DEF Peek, IInv, TypeOK, StdinReadable, clock, server, user
<1>2. StdinReadable' <=> StdinReadable
  BY DEF Peek, StdinReadable, user
<1>3. (WokenInv /\ StdinHeard /\ ReadyInv /\ ClockInv)'
  BY <1>2 DEF Peek, IInv, WokenInv, StdinHeard, ReadyInv, ClockInv,
              clock, server, user
<1>4. HeardInv'
  <2>1. overlooked > 0 => stdin # "invalid"
    BY DEF IInv, HeardInv, ReadyInv, StdinReadable
  <2>. QED
    BY <1>2, <2>1 DEF Peek, IInv, TypeOK, HeardInv
<1>. QED
  BY <1>1, <1>3, <1>4 DEF IInv

(* A read of server bytes keeps the invariant, wherever they come from. *)
LEMMA GotDataInv ==
  ASSUME IInv, GotData, pc = "read",
         net' \in Seq({"data", "frag"}), pending' \in 0 .. MaxPending,
         pending' > 0 => use_tls
  PROVE  IInv'
<1>1. /\ overlooked' \in 0 .. 2
      /\ ~stdin_ready => overlooked' <= 1
      /\ overlooked' > 0 => watch_stdin /\ StdinReadable
  BY DEF GotData, Min, IInv, TypeOK, HeardInv
<1>2. /\ pc' = "write" /\ silence' = 0
      /\ UNCHANGED <<result, locals, idle, timeout_ms, left, use_tls, peer,
                     user, eintr>>
  BY DEF GotData
<1>3. TypeOK'
  BY <1>1, <1>2 DEF IInv, TypeOK, locals, user
<1>4. StdinReadable' <=> StdinReadable
  BY <1>2 DEF StdinReadable, user
<1>5. (WokenInv /\ StdinHeard /\ ReadyInv /\ ClockInv /\ HeardInv)'
  BY <1>1, <1>2, <1>4
  DEF IInv, WokenInv, StdinHeard, ReadyInv, ClockInv, HeardInv, locals,
      user
<1>. QED
  BY <1>3, <1>5 DEF IInv

(* The three ways to read server bytes. *)
LEMMA ReadInv ==
  ASSUME IInv, ReadPlain \/ ReadPending \/ ReadRecord PROVE IInv'
<1>1. CASE ReadPlain
  <2>1. net' \in Seq({"data", "frag"})
    BY <1>1, RestType DEF ReadPlain, IInv, TypeOK
  <2>. QED
    BY <1>1, <2>1, GotDataInv DEF ReadPlain, IInv, TypeOK, ReadyInv
<1>2. CASE ReadPending
  BY <1>2, GotDataInv DEF ReadPending, IInv, TypeOK
<1>3. CASE ReadRecord
  <2>1. net' \in Seq({"data", "frag"})
    BY <1>3, RestType DEF ReadRecord, IInv, TypeOK
  <2>. QED
    BY <1>3, <2>1, GotDataInv DEF ReadRecord
<1>. QED
  BY <1>1, <1>2, <1>3

(* The end of the connection keeps the invariant. *)
LEMMA ReadEndInv == ASSUME IInv, ReadEnd PROVE IInv'
BY DEF IInv, TypeOK, WokenInv, StdinHeard, ReadyInv, ClockInv, HeardInv,
       ReadEnd, Return, ConnReadable, StdinReadable, locals, clock, server, user

(* An interrupted read keeps the invariant. *)
LEMMA ReadInterruptedInv == ASSUME IInv, ReadInterrupted PROVE IInv'
BY DEF IInv, TypeOK, WokenInv, StdinHeard, ReadyInv, ClockInv, HeardInv,
       ReadInterrupted, ConnReadable, StdinReadable, locals, clock, server, user

(* Writing the audio keeps the invariant. *)
LEMMA WriteDoneInv == ASSUME IInv, WriteDone PROVE IInv'
BY DEF IInv, TypeOK, WokenInv, StdinHeard, ReadyInv, ClockInv, HeardInv,
       WriteDone, AfterAudio, ConnReadable, StdinReadable, locals, server, user

(* Reading stdin keeps the invariant. *)
LEMMA ReadStdinInv == ASSUME IInv, ReadStdin PROVE IInv'
<1>1. typed' \in Seq({"text", "quit"})
  <2>1. typed \in Seq({"text", "quit"})
    BY DEF IInv, TypeOK
  <2>2. \/ typed' = typed
        \/ \E k \in 1 .. Len(typed) : typed' = SubSeq(typed, k + 1, Len(typed))
    <3>1. CASE typed # <<>>
      BY <3>1, Zenon DEF ReadStdin
    <3>2. CASE typed = <<>>
      BY <3>2 DEF ReadStdin
    <3>. QED
      BY <3>1, <3>2
  <2>3. ASSUME NEW k \in 1 .. Len(typed)
        PROVE  SubSeq(typed, k + 1, Len(typed)) \in Seq({"text", "quit"})
    BY <2>1, RestType
  <2>. QED
    BY <2>1, <2>2, <2>3, Zenon
<1>2. result' \in {"none", "STREAM_SERVER_CLOSED", "STREAM_TIMEOUT",
                   "STREAM_QUIT", "STREAM_ERROR"}
  BY DEF ReadStdin, Return, IInv, TypeOK
<1>3. /\ pc = "stdin" /\ pc' \in {"top", "done"} /\ overlooked' = 0
      /\ watch_stdin' \in BOOLEAN
      /\ stdin # "invalid"
      /\ UNCHANGED <<conn_ready, stdin_ready, clock, use_tls, server, stdin,
                     eintr>>
  <2>1. stdin # "invalid"
    BY DEF ReadStdin, IInv, WokenInv, ReadyInv, StdinReadable
  <2>2. watch_stdin' \in BOOLEAN
    BY DEF ReadStdin, WatchAfterEof, IInv, TypeOK
  <2>3. pc' \in {"top", "done"}
    BY DEF ReadStdin, Return
  <2>. QED
    BY <2>1, <2>2, <2>3 DEF ReadStdin
<1>. QED
  BY <1>1, <1>2, <1>3
  DEF IInv, TypeOK, WokenInv, StdinHeard, ReadyInv, ClockInv, HeardInv,
      ConnReadable, StdinReadable, clock, server

(* An interrupted read of stdin keeps the invariant. *)
LEMMA StdinInterruptedInv == ASSUME IInv, StdinInterrupted PROVE IInv'
BY DEF IInv, TypeOK, WokenInv, StdinHeard, ReadyInv, ClockInv, HeardInv,
       StdinInterrupted, ConnReadable, StdinReadable, locals, clock, server,
       user

(* Giving up keeps the invariant. *)
LEMMA FailsInv == ASSUME IInv, Fails PROVE IInv'
BY DEF IInv, TypeOK, WokenInv, StdinHeard, ReadyInv, ClockInv, HeardInv,
       Fails, Return, ConnReadable, StdinReadable, locals, clock, server, user

-----------------------------------------------------------------------------
(* The server keeps the invariant. *)
LEMMA ServerInv == ASSUME IInv, Deliver \/ EndConnection PROVE IInv'
<1>1. net' \in Seq({"data", "frag"}) /\ (net # <<>> => net' # <<>>)
  <2>1. CASE Deliver
    <3>1. PICK segment \in Segments : net' = Append(net, segment)
      BY <2>1 DEF Deliver
    <3>. QED
      BY <3>1, AppendProperties DEF IInv, TypeOK
  <2>2. CASE EndConnection
    BY <2>2 DEF EndConnection, IInv, TypeOK
  <2>. QED
    BY <2>1, <2>2
<1>2. /\ peer' \in {"open", "closed", "reset"}
      /\ peer # "open" => peer' = peer
      /\ pc # "done"
      /\ UNCHANGED <<program, clock, pending, user>>
  BY DEF Deliver, EndConnection, IInv, TypeOK
<1>. QED
  BY <1>1, <1>2
  DEF IInv, TypeOK, WokenInv, StdinHeard, ReadyInv, ClockInv, HeardInv,
      ConnReadable, StdinReadable, locals, clock, program, user

(* The user keeps the invariant. *)
LEMMA UserInv == ASSUME IInv, TypeChunk \/ EndStdin PROVE IInv'
<1>1. typed' \in Seq({"text", "quit"}) /\ (typed # <<>> => typed' # <<>>)
  <2>1. CASE TypeChunk
    <3>1. PICK chunk \in {"text", "quit"} : typed' = Append(typed, chunk)
      BY <2>1 DEF TypeChunk
    <3>. QED
      BY <3>1, AppendProperties DEF IInv, TypeOK
  <2>2. CASE EndStdin
    BY <2>2 DEF EndStdin, IInv, TypeOK
  <2>. QED
    BY <2>1, <2>2
<1>2. /\ stdin = "open" /\ stdin' \in {"open", "eof"}
      /\ UNCHANGED <<program, clock, server>>
  BY DEF TypeChunk, EndStdin
<1>. QED
  BY <1>1, <1>2
  DEF IInv, TypeOK, WokenInv, StdinHeard, ReadyInv, ClockInv, HeardInv,
      ConnReadable, StdinReadable, locals, clock, program, server

(* The passing of time keeps the invariant. *)
LEMMA TickInv == ASSUME IInv, Tick PROVE IInv'
BY DEF IInv, TypeOK, WokenInv, StdinHeard, ReadyInv, ClockInv, HeardInv,
       Tick, Min, ConnReadable, StdinReadable, locals, program, server, user

(* Every step keeps the invariant. *)
LEMMA InvStep == ASSUME IInv, [Next]_vars PROVE IInv'
<1>1. CASE LoopStep
  BY <1>1, TopInv, PollWakesInv, PollTimesOutInv, PeekInv, ReadInv, ReadEndInv,
     WriteDoneInv, ReadStdinInv
  DEF LoopStep
<1>2. CASE Mishap
  BY <1>2, PollInterruptedInv, ReadInterruptedInv, StdinInterruptedInv, FailsInv
  DEF Mishap
<1>3. CASE Deliver \/ EndConnection \/ TypeChunk \/ EndStdin \/ Tick
  BY <1>3, ServerInv, UserInv, TickInv
<1>4. CASE UNCHANGED vars
  BY <1>4
  DEF vars, IInv, TypeOK, WokenInv, StdinHeard, ReadyInv, ClockInv,
      HeardInv, ConnReadable, StdinReadable, locals, clock, server, user
<1>. QED
  BY <1>1, <1>2, <1>3, <1>4 DEF Next

(* The inductive invariant of the receive loop. *)
THEOREM Invariance == Spec => []IInv
<1>. QED
  BY InitInv, InvStep, PTL DEF Spec

-----------------------------------------------------------------------------
(* The locals and the timeout handed to poll keep their types; that        *)
(* timeout is never negative, so no poll waits for ever.                   *)
THEOREM TypeCorrect == Spec => []TypeOK
<1>1. IInv => TypeOK
  BY DEF IInv
<1>. QED
  BY <1>1, Invariance, PTL

(* The read of stdin and that of a plain connection find their input; over *)
(* TLS a read waits at most for the rest of a record that has begun.       *)
THEOREM ReadsFindTheirInput == Spec => []ReadsFindInput
<1>1. ASSUME IInv PROVE ReadsFindInput
  <2>1. net \in Seq({"data", "frag"}) /\ pending \in Nat /\ use_tls \in BOOLEAN
    BY <1>1 DEF IInv, TypeOK
  <2>3. \A k \in 1 .. Len(net) : net[k] \in {"data", "frag"}
    BY <2>1
  <2>4. (pending > 0 => use_tls) /\ (pending > 0 \/ pending = 0)
    BY <1>1, <2>1 DEF IInv, ReadyInv
  <2>5. pc = "read" => pending > 0 \/ net # <<>> \/ peer # "open"
    BY <1>1 DEF IInv, WokenInv, ConnReadable
  <2>6. pc = "stdin" => StdinReadable
    BY <1>1 DEF IInv, WokenInv
  <2>. QED
    BY <2>3, <2>4, <2>5, <2>6 DEF ReadsFindInput, ReadReturns, WaitsForRecord
<1>. QED
  BY <1>1, Invariance, PTL

(* Input on stdin is read after at most two reads of server bytes, however *)
(* many reads one TLS record serves.                                       *)
THEOREM StdinIsHeard == Spec => []StdinHeard
<1>1. IInv => StdinHeard
  BY DEF IInv
<1>. QED
  BY <1>1, Invariance, PTL

(* stream_receive reports a timeout only after a full timeout of silence,  *)
(* with nothing left to read.                                              *)
THEOREM TimeoutsAreJustified == Spec => TimeoutJustified
<1>. DEFINE Justified == result' = "STREAM_TIMEOUT" =>
               /\ silence = Timeout
               /\ net = <<>> /\ pending = 0 /\ peer = "open"
               /\ watch_stdin => typed = <<>>
            Done == result # "none" => pc = "done"
<1>1. Init => Done
  BY DEF Init
<1>2. Done /\ [Next]_vars => Done'
  BY DEF Next, vars, LoopStep, Mishap, Top, PollWakes, PollTimesOut, Peek,
         ReadPlain, ReadPending, ReadRecord, GotData, ReadEnd, WriteDone,
         ReadStdin, PollInterrupted, ReadInterrupted, StdinInterrupted, Fails,
         Return, Deliver, EndConnection, TypeChunk, EndStdin, Tick, program
<1>3. IInv /\ Done /\ [Next]_vars => [Justified]_vars
  <2>. SUFFICES ASSUME IInv, Done, Next, result' = "STREAM_TIMEOUT"
                PROVE  Justified
    BY DEF vars
  <2>1. pc # "done"
    BY DEF Next, LoopStep, Mishap, Top, PollWakes, PollTimesOut, Peek,
           ReadPlain, ReadPending, ReadRecord, ReadEnd, WriteDone, ReadStdin,
           PollInterrupted, ReadInterrupted, StdinInterrupted, Fails, Deliver,
           EndConnection, TypeChunk, EndStdin, Tick
  <2>2. result = "none"
    BY <2>1
  <2>3. PollTimesOut
    BY <2>2 DEF Next, LoopStep, Mishap, Top, PollWakes, Peek, ReadPlain,
                ReadPending, ReadRecord, GotData, ReadEnd, WriteDone, ReadStdin,
                PollInterrupted, ReadInterrupted, StdinInterrupted, Fails,
                Return, Deliver, EndConnection, TypeChunk, EndStdin, Tick, program
  <2>4. silence = Timeout
    BY <2>3 DEF PollTimesOut, IInv, TypeOK, ClockInv
  <2>. QED
    BY <2>3, <2>4 DEF PollTimesOut, IInv, ReadyInv, ConnReadable, StdinWakes,
                      StdinReadable
<1>. QED
  BY <1>1, <1>2, <1>3, Invariance, PTL DEF Spec, TimeoutJustified
=============================================================================
