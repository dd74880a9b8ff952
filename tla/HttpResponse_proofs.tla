------------------------- MODULE HttpResponse_proofs -------------------------
(***************************************************************************)
(* HttpResponse for every size of raw, every response and every cutting of *)
(* it: its types, what is kept of the body, when the headers are too       *)
(* large, and what the exits release.                                      *)
(***************************************************************************)
EXTENDS HttpResponse, SequenceTheorems, WellFoundedInduction, TLAPS

USE LimitAssumption

-----------------------------------------------------------------------------
(* Lemmas on the searches for "\r\n\r\n" and "\r\n".                       *)

(* A nonempty set of natural numbers has a least element.                  *)
LEMMA LeastNat ==
  ASSUME NEW T, T \subseteq Nat, T # {}
  PROVE  \E k \in T : \A j \in T : k <= j
<1>1. PICK k \in T : \A j \in T : ~ (<<j, k>> \in OpToRel(<, Nat))
  BY NatLessThanWellFounded, WFMin
<1>2. \A j \in T : k <= j
  <2> SUFFICES ASSUME NEW j \in T PROVE k <= j
    OBVIOUS
  <2>1. j \in Nat /\ k \in Nat
    BY <1>1
  <2>2. ~ (<<j, k>> \in OpToRel(<, Nat))
    BY <1>1
  <2>3. ~ (j < k)
    BY <2>1, <2>2 DEF OpToRel
  <2> QED
    BY <2>1, <2>3
<1> QED
  BY <1>2

(* find_header_end: the first terminator, which lies within s.             *)
LEMMA FirstTerminator ==
  ASSUME NEW s \in Seq(Byte)
  PROVE  /\ find_header_end(s) = -1 <=> Terminators(s) = {}
         /\ find_header_end(s) # -1 =>
              /\ find_header_end(s) \in Terminators(s)
              /\ \A j \in Terminators(s) : find_header_end(s) <= j
              /\ find_header_end(s) \in Nat
              /\ find_header_end(s) + 4 <= Len(s)
              /\ CrlfAt(s, find_header_end(s))
<1>1. \A k \in Terminators(s) : k \in Nat /\ k + 4 <= Len(s) /\ CrlfAt(s, k)
  BY DEF Terminators, CrlfAt
<1>2. CASE Terminators(s) = {}
  BY <1>2 DEF find_header_end
<1>3. CASE Terminators(s) # {}
  <2>1. \E k \in Terminators(s) : \A j \in Terminators(s) : k <= j
    BY <1>1, <1>3, LeastNat
  <2>2. /\ find_header_end(s) \in Terminators(s)
        /\ \A j \in Terminators(s) : find_header_end(s) <= j
    BY <1>3, <2>1 DEF find_header_end
  <2>3. find_header_end(s) # -1
    BY <1>1, <2>2
  <2> QED
    BY <1>1, <1>3, <2>2, <2>3
<1> QED
  BY <1>2, <1>3

(* Two least elements of a set are one.                                    *)
LEMMA SameLeast ==
  ASSUME NEW T, T \subseteq Int, NEW a \in T, NEW b \in T,
         \A j \in T : a <= j, \A j \in T : b <= j
  PROVE  a = b
<1>1. a <= b /\ b <= a /\ a \in Int /\ b \in Int
  OBVIOUS
<1> QED
  BY <1>1

(* What follows the terminator does not change where the headers end.      *)
LEMMA SameEnd ==
  ASSUME NEW s \in Seq(Byte), NEW t \in Seq(Byte), find_header_end(s) # -1
  PROVE  find_header_end(s \o t) = find_header_end(s)
<1> DEFINE e == find_header_end(s)
           w == s \o t
<1>1. /\ w \in Seq(Byte)
      /\ Len(w) = Len(s) + Len(t)
      /\ \A i \in 1 .. Len(s) : w[i] = s[i]
  BY ConcatProperties
<1>2. Len(s) \in Nat /\ Len(t) \in Nat
  OBVIOUS
<1>3. e \in Terminators(s) /\ e \in Nat /\ e + 4 <= Len(s)
      /\ \A j \in Terminators(s) : e <= j
  BY FirstTerminator
<1> HIDE DEF e, w
<1>4. \A k \in 0 .. Len(s) : k + 4 <= Len(s) =>
        (k \in Terminators(w) <=> k \in Terminators(s))
  <2> SUFFICES ASSUME NEW k \in 0 .. Len(s), k + 4 <= Len(s)
               PROVE  k \in Terminators(w) <=> k \in Terminators(s)
    OBVIOUS
  <2>1. /\ k + 1 \in 1 .. Len(s)
        /\ k + 2 \in 1 .. Len(s)
        /\ (k + 2) + 1 \in 1 .. Len(s)
        /\ (k + 2) + 2 \in 1 .. Len(s)
    BY <1>2
  <2>2. /\ w[k + 1] = s[k + 1]
        /\ w[k + 2] = s[k + 2]
        /\ w[(k + 2) + 1] = s[(k + 2) + 1]
        /\ w[(k + 2) + 2] = s[(k + 2) + 2]
    BY <1>1, <2>1
  <2> QED
    BY <1>1, <1>2, <2>2 DEF Terminators, CrlfAt
<1>5. e \in Terminators(w)
  BY <1>2, <1>3, <1>4
<1>6. \A j \in Terminators(w) : e <= j
  <2> SUFFICES ASSUME NEW j \in Terminators(w) PROVE e <= j
    OBVIOUS
  <2>1. j \in Nat
    BY DEF Terminators
  <2>2. CASE j + 4 <= Len(s)
    BY <1>2, <1>3, <1>4, <2>1, <2>2
  <2>3. CASE j + 4 > Len(s)
    BY <1>2, <1>3, <2>1, <2>3
  <2> QED
    BY <1>2, <2>1, <2>2, <2>3
<1>7. find_header_end(w) \in Terminators(w)
      /\ \A j \in Terminators(w) : find_header_end(w) <= j
  BY <1>1, <1>5, FirstTerminator
<1>8. Terminators(w) \subseteq Int
  BY <1>1, <1>2 DEF Terminators
<1> QED
  BY <1>5, <1>6, <1>7, <1>8, SameLeast DEF e, w

(* The line that begins at from ends at h at the latest if one does there. *)
LEMMA LineEnds ==
  ASSUME raw \in Seq(Byte), NEW from \in Nat, NEW h \in Nat, from <= h, CrlfAt(raw, h)
  PROVE  NextCrlf(from) \in Nat /\ from <= NextCrlf(from) /\ NextCrlf(from) <= h
<1> DEFINE T == {k \in from .. Len(raw) : CrlfAt(raw, k)}
<1>1. h \in T /\ Len(raw) \in Nat
  BY DEF CrlfAt
<1>2. T \subseteq Nat /\ T # {}
  BY <1>1
<1>3. PICK k \in T : \A j \in T : k <= j
  BY <1>2, LeastNat
<1>4. \A j \in from .. k - 1 : ~CrlfAt(raw, j)
  <2> SUFFICES ASSUME NEW j \in from .. k - 1, CrlfAt(raw, j) PROVE FALSE
    OBVIOUS
  <2>1. k \in Nat /\ k <= Len(raw) /\ j \in Nat /\ from <= j /\ j < k
    BY <1>2, <1>3
  <2>2. j \in T
    BY <1>1, <2>1
  <2> QED
    BY <1>3, <2>1, <2>2
<1>5. \E n \in from .. Len(raw) : CrlfAt(raw, n) /\ \A j \in from .. n - 1 : ~CrlfAt(raw, j)
  BY <1>3, <1>4
<1>6. /\ NextCrlf(from) \in from .. Len(raw)
      /\ \A j \in from .. NextCrlf(from) - 1 : ~CrlfAt(raw, j)
  BY <1>5 DEF NextCrlf
<1>7. ~ (h \in from .. NextCrlf(from) - 1)
  BY <1>6
<1> QED
  BY <1>1, <1>6, <1>7

-----------------------------------------------------------------------------
(* The inductive invariant.                                                *)

(* Nothing of what the server sent is lost between the socket and raw, the *)
(* headers end where raw has its first terminator, and the body bytes kept *)
(* are those after it.                                                     *)
CollectInv ==
  /\ sent = raw \o net
  /\ pc \in {"start", "wait", "read"} => header_end = -1 /\ find_header_end(raw) = -1
  /\ pc \in {"body", "status", "header", "ok"} =>
       header_end = find_header_end(raw) /\ header_end # -1
  /\ pc \in {"status", "header", "ok"} =>
       body_prefix = SubSeq(raw, body_start + 1, Len(raw))
  /\ error # "none" => pc = "failed"

(* What was looked at when the headers were given up.                      *)
VerdictInv ==
  /\ error \in {"too large", "timeout", "closed"} => find_header_end(raw) = -1
  /\ error = "too large" => Len(raw) = MAX_HEADER_BYTES
  /\ error \in {"timeout", "closed"} => Len(net) = 0
  /\ error = "closed" => Len(raw) # MAX_HEADER_BYTES

(* What is allocated at each place; every counted header took at least one *)
(* byte of raw.                                                            *)
OwnInv ==
  /\ header_count <= line
  /\ pc # "failed" => strings = 2 * header_count
  /\ pc \in {"start", "wait", "read", "body", "status"} => header_count = 0 /\ line = 0
  /\ pc \in {"start", "wait", "read", "body"} =>
       ~status_line /\ body_prefix = <<>> /\ ~headers
  /\ pc = "header" => line <= header_end + 2
  /\ pc \in {"ok", "failed"} => ~has_raw
  /\ pc = "failed" =>
       /\ ~status_line /\ body_prefix = <<>> /\ ~headers /\ header_count = 0
       /\ strings \in IF error = "memory" THEN {0, 1} ELSE {0}

IInv == TypeOK /\ CollectInv /\ VerdictInv /\ OwnInv

LEMMA InitIInv == Init => IInv
<1> SUFFICES ASSUME Init PROVE IInv
  OBVIOUS
<1>1. TypeOK
  <2>1. <<>> \in Seq(Byte) /\ Len(<<>>) = 0
    OBVIOUS
  <2>2. Len(raw) <= MAX_HEADER_BYTES
    BY <2>1 DEF Init
  <2>3. header_end \in -1 .. MAX_HEADER_BYTES /\ line \in 0 .. MAX_HEADER_BYTES
        /\ header_count \in 0 .. MAX_HEADER_BYTES /\ strings \in 0 .. 2 * MAX_HEADER_BYTES
    BY DEF Init
  <2> QED
    BY <2>1, <2>2, <2>3 DEF Init, TypeOK
<1>2. Terminators(<<>>) = {}
  BY DEF Terminators, CrlfAt
<1>3. find_header_end(<<>>) = -1
  BY <1>2 DEF find_header_end
<1>4. <<>> \o <<>> = <<>>
  OBVIOUS
<1>5. CollectInv
  BY <1>3, <1>4 DEF Init, CollectInv
<1>6. OwnInv
  BY DEF Init, OwnInv
<1>7. VerdictInv
  BY DEF Init, VerdictInv
<1> QED
  BY <1>1, <1>5, <1>6, <1>7 DEF IInv

-----------------------------------------------------------------------------
(* The types of the offsets, as arithmetic needs them.                     *)
LEMMA Types ==
  ASSUME TypeOK
  PROVE  /\ raw \in Seq(Byte) /\ net \in Seq(Byte)
         /\ Len(raw) \in Nat /\ Len(net) \in Nat /\ Len(raw) <= MAX_HEADER_BYTES
         /\ line \in Nat /\ header_count \in Nat
<1>1. raw \in Seq(Byte) /\ net \in Seq(Byte) /\ Len(raw) <= MAX_HEADER_BYTES
  BY DEF TypeOK
<1>2. Len(raw) \in Nat /\ Len(net) \in Nat
  BY <1>1
<1>3. line \in 0 .. MAX_HEADER_BYTES /\ header_count \in 0 .. MAX_HEADER_BYTES
  BY DEF TypeOK
<1> QED
  BY <1>1, <1>2, <1>3

(* Where the headers lie once their end is found.                          *)
LEMMA EndInRaw ==
  ASSUME IInv, pc \in {"body", "status", "header", "ok"}
  PROVE  /\ header_end \in Nat
         /\ header_end + 4 <= Len(raw)
         /\ Len(raw) \in Nat /\ Len(raw) <= MAX_HEADER_BYTES
         /\ CrlfAt(raw, header_end)
<1>1. raw \in Seq(Byte) /\ Len(raw) <= MAX_HEADER_BYTES
  BY DEF IInv, TypeOK
<1>2. header_end = find_header_end(raw) /\ find_header_end(raw) # -1
  BY DEF IInv, CollectInv
<1> QED
  BY <1>1, <1>2, FirstTerminator

(* A line of the headers ends within them: the offset of the next one.     *)
LEMMA NextLine ==
  ASSUME IInv, pc \in {"status", "header"}, line <= header_end
  PROVE  /\ NextCrlf(line) \in Nat
         /\ line <= NextCrlf(line)
         /\ NextCrlf(line) <= header_end
         /\ NextCrlf(line) + 2 \in 0 .. MAX_HEADER_BYTES
<1>1. raw \in Seq(Byte) /\ line \in Nat
  BY Types DEF IInv
<1>2. header_end \in Nat /\ header_end + 4 <= MAX_HEADER_BYTES /\ CrlfAt(raw, header_end)
  BY EndInRaw
<1>3. NextCrlf(line) \in Nat /\ line <= NextCrlf(line) /\ NextCrlf(line) <= header_end
  BY <1>1, <1>2, LineEnds
<1> QED
  BY <1>2, <1>3

(* Bytes taken from the front of net and put behind raw.                   *)
LEMMA Moved ==
  ASSUME TypeOK, NEW k \in 1 .. Available
  PROVE  /\ raw \o SubSeq(net, 1, k) \in Seq(Byte)
         /\ SubSeq(net, k + 1, Len(net)) \in Seq(Byte)
         /\ Len(raw \o SubSeq(net, 1, k)) <= MAX_HEADER_BYTES
         /\ (raw \o SubSeq(net, 1, k)) \o SubSeq(net, k + 1, Len(net)) = raw \o net
<1>1. raw \in Seq(Byte) /\ net \in Seq(Byte) /\ Len(raw) \in Nat /\ Len(net) \in Nat
  BY Types
<1>2. k \in 1 .. Len(net) /\ Len(raw) + k <= MAX_HEADER_BYTES
  BY <1>1 DEF Available, Min
<1> DEFINE a == SubSeq(net, 1, k)
           b == SubSeq(net, k + 1, Len(net))
<1>3. a \in Seq(Byte) /\ Len(a) = k /\ \A i \in 1 .. k : a[i] = net[i]
  BY <1>1, <1>2
<1>4. b \in Seq(Byte) /\ Len(b) = Len(net) - k /\ \A i \in 1 .. Len(net) - k : b[i] = net[k + i]
  BY <1>1, <1>2
<1>5. a \o b = net
  <2> HIDE DEF a, b
  <2>1. /\ a \o b \in Seq(Byte)
        /\ Len(a \o b) = Len(a) + Len(b)
        /\ \A i \in 1 .. Len(a) + Len(b) :
             (a \o b)[i] = IF i <= Len(a) THEN a[i] ELSE b[i - Len(a)]
    BY <1>3, <1>4, ConcatProperties
  <2>2. \A i \in 1 .. Len(net) : (a \o b)[i] = net[i]
    <3> SUFFICES ASSUME NEW i \in 1 .. Len(net) PROVE (a \o b)[i] = net[i]
      OBVIOUS
    <3>1. CASE i <= k
      BY <1>1, <1>2, <1>3, <1>4, <2>1, <3>1
    <3>2. CASE i > k
      <4>1. i - k \in 1 .. Len(net) - k /\ k + (i - k) = i
        BY <1>1, <1>2, <3>2
      <4> QED
        BY <1>1, <1>2, <1>3, <1>4, <2>1, <3>2, <4>1
    <3>3. i <= k \/ i > k
      BY <1>1, <1>2
    <3> QED
      BY <3>1, <3>2, <3>3
  <2>3. Len(a \o b) = Len(net)
    BY <1>1, <1>2, <1>3, <1>4, <2>1
  <2> QED
    BY <1>1, <2>1, <2>2, <2>3, SeqEqual
<1>6. (raw \o a) \o b = raw \o (a \o b)
  <2> HIDE DEF a, b
  <2> QED
    BY <1>1, <1>3, <1>4, ConcatAssociative
<1>7. raw \o a \in Seq(Byte) /\ Len(raw \o a) = Len(raw) + k
  <2> HIDE DEF a, b
  <2> QED
    BY <1>1, <1>3
<1> QED
  BY <1>1, <1>2, <1>4, <1>5, <1>6, <1>7

-----------------------------------------------------------------------------
(* The types. *)

LEMMA TypeStep == IInv /\ [Next]_vars => TypeOK'
<1> SUFFICES ASSUME IInv, [Next]_vars PROVE TypeOK'
  OBVIOUS
<1>0. TypeOK
  BY DEF IInv
(* Freeing the response, and leaving one string behind. *)
<1>1. ASSUME FreeResponse, pc # "failed"
      PROVE  /\ status_line' \in BOOLEAN /\ body_prefix' \in Seq(Byte)
             /\ headers' \in BOOLEAN /\ header_count' \in 0 .. MAX_HEADER_BYTES
             /\ strings' \in 0 .. 2 * MAX_HEADER_BYTES
  <2>1. strings = 2 * header_count /\ header_count \in Nat
    BY <1>0, <1>1, Types DEF IInv, OwnInv
  <2>2. strings' = 0
    BY <2>1, <1>1 DEF FreeResponse, StringsAfterFree
  <2>3. status_line' = FALSE /\ body_prefix' = <<>> /\ headers' = FALSE /\ header_count' = 0
    BY <1>1 DEF FreeResponse
  <2>4. 0 \in 0 .. MAX_HEADER_BYTES /\ 0 \in 0 .. 2 * MAX_HEADER_BYTES
    OBVIOUS
  <2>5. <<>> \in Seq(Byte)
    OBVIOUS
  <2> QED
    BY <2>2, <2>3, <2>4, <2>5
<1>2. ASSUME NEW reason \in {"memory", "timeout", "reading", "too large", "closed"},
             ReadFails(reason)
      PROVE  TypeOK'
  BY <1>0, <1>2 DEF ReadFails, TypeOK, parsed, world
<1>3. ASSUME NEW reason \in {"status", "memory", "header"}, ParseFails(reason), pc # "failed"
      PROVE  TypeOK'
  <2>1. FreeResponse
    BY <1>3 DEF ParseFails
  <2> QED
    BY <1>0, <1>1, <1>3, <2>1 DEF ParseFails, TypeOK, world
<1>4. CASE AllocRaw
  BY <1>0, <1>4 DEF AllocRaw, TypeOK, parsed, world
<1>5. CASE AllocRawFails
  BY <1>2, <1>5 DEF AllocRawFails
<1>6. CASE Wakes
  BY <1>0, <1>6 DEF Wakes, TypeOK, reader, parsed, world
<1>7. CASE TimesOut
  BY <1>0, <1>7 DEF TimesOut, AfterTimeout, TypeOK, parsed, world
<1>8. CASE TooLarge
  BY <1>2, <1>8 DEF TooLarge
<1>9. CASE Read
  <2>1. PICK k \in 1 .. Available : raw' = raw \o SubSeq(net, 1, k)
                                    /\ net' = SubSeq(net, k + 1, Len(net))
    BY <1>9 DEF Read
  <2>2. raw' \in Seq(Byte) /\ net' \in Seq(Byte) /\ Len(raw') <= MAX_HEADER_BYTES
    BY <1>0, <2>1, Moved
  <2>3. header_end' \in -1 .. MAX_HEADER_BYTES
    <3>1. header_end' = find_header_end(raw')
      BY <1>9 DEF Read
    <3>2. find_header_end(raw') # -1 =>
            find_header_end(raw') \in Nat /\ find_header_end(raw') + 4 <= Len(raw')
      BY <2>2, FirstTerminator
    <3>3. Len(raw') \in Nat
      BY <2>2
    <3> QED
      BY <2>2, <3>1, <3>2, <3>3
  <2>4. pc' \in {"wait", "body"}
    BY <1>9 DEF Read
  <2> QED
    BY <1>0, <1>9, <2>2, <2>3, <2>4 DEF Read, TypeOK, parsed
<1>10. CASE ReadEnd
  BY <1>2, <1>10 DEF ReadEnd
<1>11. CASE KeepBody
  <2>1. body_prefix' \in Seq(Byte)
    <3>1. header_end \in Nat /\ header_end + 4 <= Len(raw) /\ raw \in Seq(Byte) /\ Len(raw) \in Nat
      BY <1>0, <1>11, EndInRaw, Types DEF KeepBody
    <3>2. body_start + 1 \in Nat \ {0}
      BY <3>1 DEF body_start
    <3> QED
      BY <1>11, <3>1, <3>2 DEF KeepBody
  <2> QED
    BY <1>0, <1>11, <2>1 DEF KeepBody, TypeOK, reader, world
<1>12. CASE KeepBodyFails
  BY <1>2, <1>12 DEF KeepBodyFails
<1>13. CASE StatusLine
  <2>1. line = 0 /\ line <= header_end
    BY <1>13, EndInRaw DEF StatusLine, IInv, OwnInv
  <2>2. line' \in 0 .. MAX_HEADER_BYTES
    BY <1>13, <2>1, NextLine DEF StatusLine
  <2> QED
    BY <1>0, <1>13, <2>2 DEF StatusLine, TypeOK, world
<1>14. CASE BadStatusLine
  BY <1>3, <1>14 DEF BadStatusLine
<1>15. CASE StatusLineFails
  BY <1>3, <1>15 DEF StatusLineFails
<1>16. CASE AddHeader
  <2>1. pc = "header" /\ line < header_end /\ header_end \in Nat
    BY <1>16, EndInRaw DEF AddHeader, InHeaders
  <2>2. line \in Nat /\ header_count \in Nat /\ header_count <= line
        /\ strings = 2 * header_count
    BY <1>0, <2>1, Types DEF IInv, OwnInv
  <2>3. line' \in 0 .. MAX_HEADER_BYTES /\ line < line'
    <3>1. line <= NextCrlf(line) /\ NextCrlf(line) \in Nat
          /\ NextCrlf(line) + 2 \in 0 .. MAX_HEADER_BYTES
      BY <2>1, <2>2, NextLine
    <3> QED
      BY <1>16, <2>2, <3>1 DEF AddHeader
  <2>4. header_count' = header_count + 1 /\ strings' = strings + 2
    BY <1>16 DEF AddHeader
  <2>5. header_count' \in 0 .. MAX_HEADER_BYTES /\ strings' \in 0 .. 2 * MAX_HEADER_BYTES
    BY <2>2, <2>3, <2>4
  <2> QED
    BY <1>0, <1>16, <2>3, <2>5 DEF AddHeader, TypeOK, world
<1>17. CASE BadHeader
  BY <1>3, <1>17 DEF BadHeader, InHeaders
<1>18. CASE GrowHeadersFails
  BY <1>3, <1>18 DEF GrowHeadersFails, InHeaders
<1>19. CASE CopyHeaderFails
  BY <1>3, <1>19 DEF CopyHeaderFails, InHeaders
<1>20. CASE CopyHalfFails
  <2>1. strings = 2 * header_count /\ header_count \in Nat /\ pc = "header"
    BY <1>0, <1>20, Types DEF CopyHalfFails, InHeaders, IInv, OwnInv
  <2>2. strings' = 1
    BY <1>20, <2>1 DEF CopyHalfFails, StringsAfterFree
  <2>3. MAX_HEADER_BYTES >= 1
    BY <2>1, EndInRaw
  <2>4. strings' \in 0 .. 2 * MAX_HEADER_BYTES /\ header_count' \in 0 .. MAX_HEADER_BYTES
    BY <1>20, <2>2, <2>3 DEF CopyHalfFails
  <2>5. UNCHANGED <<raw, header_end, line, net, peer, sent>>
    BY <1>20 DEF CopyHalfFails, world
  <2>6. body_prefix' \in Seq(Byte)
    BY <1>20 DEF CopyHalfFails
  <2> QED
    BY <1>0, <1>20, <2>4, <2>5, <2>6 DEF CopyHalfFails, TypeOK
<1>21. CASE Finish
  BY <1>0, <1>21 DEF Finish, TypeOK, parsed, world
<1>22. CASE IoFails
  BY <1>2, <1>22 DEF IoFails
<1>23. CASE Send
  <2>1. net \in Seq(Byte) /\ sent \in Seq(Byte)
    BY <1>0 DEF TypeOK
  <2>2. PICK p \in Pieces : net' = net \o p /\ sent' = sent \o p
    BY <1>23 DEF Send
  <2>3. p \in Seq(Byte)
    BY PiecesAssumption
  <2>4. net' \in Seq(Byte) /\ sent' \in Seq(Byte)
    BY <2>1, <2>2, <2>3, ConcatProperties
  <2> QED
    BY <1>0, <1>23, <2>4 DEF Send, TypeOK, reader, parsed
<1>24. CASE EndConnection
  BY <1>0, <1>24 DEF EndConnection, TypeOK, reader, parsed
<1>25. CASE UNCHANGED vars
  BY <1>0, <1>25 DEF vars, TypeOK, reader, parsed, world
<1> QED
  BY <1>4, <1>5, <1>6, <1>7, <1>8, <1>9, <1>10, <1>11, <1>12, <1>13, <1>14, <1>15,
     <1>16, <1>17, <1>18, <1>19, <1>20, <1>21, <1>22, <1>23, <1>24, <1>25
     DEF Next, ReaderStep

-----------------------------------------------------------------------------
(* The bytes. *)

LEMMA CollectStep == IInv /\ [Next]_vars => CollectInv'
<1> SUFFICES ASSUME IInv, [Next]_vars PROVE CollectInv'
  OBVIOUS
<1>0. CollectInv /\ TypeOK
  BY DEF IInv
<1> DEFINE Same == raw' = raw /\ net' = net /\ sent' = sent /\ header_end' = header_end
<1>1. ASSUME Same, pc' = "failed"
      PROVE  CollectInv'
  BY <1>0, <1>1 DEF CollectInv
<1>2. ASSUME NEW reason, ReadFails(reason)
      PROVE  CollectInv'
  BY <1>1, <1>2 DEF ReadFails, world
<1>3. ASSUME NEW reason, ParseFails(reason)
      PROVE  CollectInv'
  BY <1>1, <1>3 DEF ParseFails, world
<1>4. CASE AllocRaw
  BY <1>0, <1>4 DEF AllocRaw, CollectInv, parsed, world, body_start
<1>5. CASE AllocRawFails
  BY <1>2, <1>5 DEF AllocRawFails
<1>6. CASE Wakes
  BY <1>0, <1>6 DEF Wakes, CollectInv, reader, parsed, world, body_start
<1>7. CASE TimesOut
  BY <1>1, <1>7 DEF TimesOut, AfterTimeout, world
<1>8. CASE TooLarge
  BY <1>2, <1>8 DEF TooLarge
<1>9. CASE Read
  <2>1. PICK k \in 1 .. Available : raw' = raw \o SubSeq(net, 1, k)
                                    /\ net' = SubSeq(net, k + 1, Len(net))
    BY <1>9 DEF Read
  <2>2. raw' \o net' = raw \o net
    BY <1>0, <2>1, Moved
  <2>3. sent' = raw' \o net'
    BY <1>0, <1>9, <2>2 DEF Read, CollectInv
  <2>4. header_end' = find_header_end(raw')
    BY <1>9 DEF Read
  <2>5. pc' = IF header_end' = -1 THEN "wait" ELSE "body"
    BY <1>9 DEF Read
  <2>6. error' = "none"
    BY <1>0, <1>9 DEF Read, CollectInv
  <2> QED
    BY <2>3, <2>4, <2>5, <2>6 DEF CollectInv
<1>10. CASE ReadEnd
  BY <1>2, <1>10 DEF ReadEnd
<1>11. CASE KeepBody
  BY <1>0, <1>11 DEF KeepBody, CollectInv, reader, world, body_start
<1>12. CASE KeepBodyFails
  BY <1>2, <1>12 DEF KeepBodyFails
<1>13. CASE StatusLine
  BY <1>0, <1>13 DEF StatusLine, CollectInv, world, body_start
<1>14. CASE BadStatusLine
  BY <1>3, <1>14 DEF BadStatusLine
<1>15. CASE StatusLineFails
  BY <1>3, <1>15 DEF StatusLineFails
<1>16. CASE AddHeader
  BY <1>0, <1>16 DEF AddHeader, InHeaders, CollectInv, world, body_start
<1>17. CASE BadHeader
  BY <1>3, <1>17 DEF BadHeader
<1>18. CASE GrowHeadersFails
  BY <1>3, <1>18 DEF GrowHeadersFails
<1>19. CASE CopyHeaderFails
  BY <1>3, <1>19 DEF CopyHeaderFails
<1>20. CASE CopyHalfFails
  BY <1>1, <1>20 DEF CopyHalfFails, world
<1>21. CASE Finish
  BY <1>0, <1>21 DEF Finish, CollectInv, parsed, world, body_start
<1>22. CASE IoFails
  BY <1>2, <1>22 DEF IoFails
<1>23. CASE Send
  <2>1. PICK p \in Pieces : net' = net \o p /\ sent' = sent \o p
    BY <1>23 DEF Send
  <2>2. p \in Seq(Byte)
    BY PiecesAssumption
  <2>3. raw \in Seq(Byte) /\ net \in Seq(Byte) /\ sent = raw \o net
    BY <1>0, Types DEF CollectInv
  <2>4. (raw \o net) \o p = raw \o (net \o p)
    BY <2>2, <2>3, ConcatAssociative
  <2>5. sent' = raw \o net'
    BY <2>1, <2>3, <2>4
  <2> QED
    BY <1>0, <1>23, <2>5 DEF Send, CollectInv, reader, parsed, body_start
<1>24. CASE EndConnection
  BY <1>0, <1>24 DEF EndConnection, CollectInv, reader, parsed, body_start
<1>25. CASE UNCHANGED vars
  BY <1>0, <1>25 DEF vars, CollectInv, reader, parsed, world, body_start
<1> QED
  BY <1>4, <1>5, <1>6, <1>7, <1>8, <1>9, <1>10, <1>11, <1>12, <1>13, <1>14, <1>15,
     <1>16, <1>17, <1>18, <1>19, <1>20, <1>21, <1>22, <1>23, <1>24, <1>25
     DEF Next, ReaderStep

-----------------------------------------------------------------------------
(* The verdict. *)

LEMMA VerdictStep == IInv /\ [Next]_vars => VerdictInv'
<1> SUFFICES ASSUME IInv, [Next]_vars PROVE VerdictInv'
  OBVIOUS
<1>0. VerdictInv /\ (error # "none" => pc = "failed")
  BY DEF IInv, CollectInv
<1>. DEFINE Verdicts == {"too large", "timeout", "closed"}
<1>1. ASSUME error' \notin Verdicts PROVE VerdictInv'
  BY <1>1 DEF VerdictInv
<1>2. pc \in {"wait", "read"} => find_header_end(raw) = -1
  BY DEF IInv, CollectInv
<1>3. Len(<<>>) = 0
  OBVIOUS
<1>4. CASE TimesOut
  <2>1. net = <<>> /\ UNCHANGED <<raw, net>> /\ error' = "timeout" /\ pc = "wait"
    BY <1>4 DEF TimesOut, AfterTimeout, world
  <2>. QED
    BY <1>2, <1>3, <2>1 DEF VerdictInv
<1>5. CASE TooLarge
  <2>1. Len(raw) = MAX_HEADER_BYTES /\ UNCHANGED raw /\ error' = "too large" /\ pc = "read"
    BY <1>5 DEF TooLarge, RawFull, ReadFails
  <2>. QED
    BY <1>2, <2>1 DEF VerdictInv
<1>6. CASE ReadEnd
  <2>1. /\ net = <<>> /\ Len(raw) # MAX_HEADER_BYTES /\ UNCHANGED <<raw, net>>
        /\ error' \in {"closed", "reading"} /\ pc = "read"
    BY <1>6 DEF ReadEnd, RawFull, ReadFails, world
  <2>. QED
    BY <1>2, <1>3, <2>1 DEF VerdictInv
<1>7. CASE \/ AllocRaw \/ Wakes \/ Read \/ KeepBody \/ StatusLine \/ AddHeader
           \/ Finish \/ Send \/ EndConnection
  <2>1. error' = error /\ error = "none"
    BY <1>0, <1>7
    DEF AllocRaw, Wakes, Read, KeepBody, StatusLine, AddHeader, InHeaders, Finish,
        Send, EndConnection
  <2>. QED
    BY <1>1, <2>1
<1>8. CASE \/ AllocRawFails \/ IoFails \/ KeepBodyFails \/ BadStatusLine
           \/ StatusLineFails \/ BadHeader \/ GrowHeadersFails \/ CopyHeaderFails
           \/ CopyHalfFails
  <2>1. error' \in {"memory", "reading", "status", "header"}
    BY <1>8
    DEF AllocRawFails, IoFails, KeepBodyFails, BadStatusLine, StatusLineFails,
        BadHeader, GrowHeadersFails, CopyHeaderFails, CopyHalfFails, ReadFails,
        ParseFails
  <2>. QED
    BY <1>1, <2>1
<1>9. CASE UNCHANGED vars
  BY <1>0, <1>9 DEF vars, reader, world, VerdictInv
<1>. QED
  BY <1>4, <1>5, <1>6, <1>7, <1>8, <1>9 DEF Next, ReaderStep

-----------------------------------------------------------------------------
(* What is owned. *)

LEMMA OwnStep == IInv /\ [Next]_vars => OwnInv'
<1> SUFFICES ASSUME IInv, [Next]_vars PROVE OwnInv'
  OBVIOUS
<1>0. OwnInv /\ TypeOK
  BY DEF IInv
<1>N. line \in Nat /\ header_count \in Nat
  BY <1>0, Types
(* The read loop fails while nothing but raw is allocated; the parser      *)
(* fails and frees the response.                                           *)
<1>1. ASSUME NEW reason, ReadFails(reason), pc \in {"start", "wait", "read", "body"}
      PROVE  OwnInv'
  <2>1. UNCHANGED <<line, status_line, body_prefix, headers, header_count, strings>>
        /\ has_raw' = FALSE /\ pc' = "failed"
    BY <1>1 DEF ReadFails, parsed
  <2>2. ~status_line /\ body_prefix = <<>> /\ ~headers /\ header_count = 0 /\ line = 0
    BY <1>0, <1>1 DEF OwnInv
  <2>3. strings = 0
    BY <1>0, <1>1, <2>2 DEF OwnInv
  <2> QED
    BY <2>1, <2>2, <2>3 DEF OwnInv
<1>2. ASSUME NEW reason, ParseFails(reason), pc # "failed"
      PROVE  OwnInv'
  <2>1. UNCHANGED line /\ has_raw' = FALSE /\ pc' = "failed"
        /\ status_line' = FALSE /\ body_prefix' = <<>> /\ headers' = FALSE /\ header_count' = 0
    BY <1>2 DEF ParseFails, FreeResponse
  <2>2. strings' = strings - 2 * header_count /\ strings = 2 * header_count
    BY <1>0, <1>2 DEF ParseFails, FreeResponse, StringsAfterFree, OwnInv
  <2>3. strings' = 0
    BY <1>N, <2>2
  <2> QED
    BY <1>N, <2>1, <2>3 DEF OwnInv
<1>4. CASE AllocRaw
  BY <1>0, <1>4 DEF AllocRaw, OwnInv, parsed
<1>5. CASE AllocRawFails
  BY <1>1, <1>5 DEF AllocRawFails
<1>6. CASE Wakes
  BY <1>0, <1>6 DEF Wakes, OwnInv, reader, parsed
<1>7. CASE TimesOut
  <2>1. ReadFails("timeout")
    BY <1>7 DEF TimesOut, AfterTimeout, ReadFails
  <2> QED
    BY <1>1, <1>7, <2>1 DEF TimesOut
<1>8. CASE TooLarge
  BY <1>1, <1>8 DEF TooLarge
<1>9. CASE Read
  <2>1. pc = "read" /\ pc' \in {"wait", "body"} /\ UNCHANGED <<line, parsed>>
    BY <1>9 DEF Read
  <2> QED
    BY <1>0, <2>1 DEF OwnInv, parsed
<1>10. CASE ReadEnd
  BY <1>1, <1>10 DEF ReadEnd
<1>11. CASE KeepBody
  BY <1>0, <1>11 DEF KeepBody, OwnInv, reader
<1>12. CASE KeepBodyFails
  BY <1>1, <1>12 DEF KeepBodyFails
<1>13. CASE StatusLine
  <2>1. line = 0 /\ header_count = 0 /\ strings = 0 /\ line <= header_end /\ header_end \in Nat
    BY <1>0, <1>13, EndInRaw DEF StatusLine, OwnInv
  <2>2. NextCrlf(0) \in Nat /\ NextCrlf(0) <= header_end
    BY <1>13, <2>1, NextLine DEF StatusLine
  <2>3. /\ header_end' = header_end /\ line' = NextCrlf(0) + 2 /\ pc' = "header"
        /\ UNCHANGED <<header_count, strings>>
    BY <1>13 DEF StatusLine
  <2>4. header_count' <= line' /\ line' <= header_end' + 2 /\ strings' = 2 * header_count'
    BY <2>1, <2>2, <2>3
  <2> QED
    BY <2>3, <2>4 DEF OwnInv
<1>14. CASE BadStatusLine
  BY <1>2, <1>14 DEF BadStatusLine
<1>15. CASE StatusLineFails
  BY <1>2, <1>15 DEF StatusLineFails
<1>16. CASE AddHeader
  <2>1. /\ pc = "header" /\ pc' = "header" /\ line < header_end /\ header_end' = header_end
        /\ line' = NextCrlf(line) + 2
        /\ header_count' = header_count + 1 /\ strings' = strings + 2
    BY <1>16 DEF AddHeader, InHeaders
  <2>2. header_end \in Nat
    BY <2>1, EndInRaw
  <2>3. line <= NextCrlf(line) /\ NextCrlf(line) \in Nat /\ NextCrlf(line) <= header_end
    BY <1>N, <2>1, <2>2, NextLine
  <2>4. header_count <= line /\ strings = 2 * header_count
    BY <1>0, <2>1 DEF OwnInv
  <2>5. header_count' <= line' /\ line' <= header_end' + 2 /\ strings' = 2 * header_count'
    BY <1>N, <2>1, <2>2, <2>3, <2>4
  <2> QED
    BY <2>1, <2>5 DEF OwnInv
<1>17. CASE BadHeader
  BY <1>2, <1>17 DEF BadHeader, InHeaders
<1>18. CASE GrowHeadersFails
  BY <1>2, <1>18 DEF GrowHeadersFails, InHeaders
<1>19. CASE CopyHeaderFails
  BY <1>2, <1>19 DEF CopyHeaderFails, InHeaders
<1>20. CASE CopyHalfFails
  <2>1. strings = 2 * header_count
    BY <1>0, <1>20 DEF CopyHalfFails, InHeaders, OwnInv
  <2>2. strings' = 1
    BY <1>20, <1>N, <2>1 DEF CopyHalfFails, StringsAfterFree
  <2> QED
    BY <1>20, <1>N, <2>2 DEF CopyHalfFails, OwnInv
<1>21. CASE Finish
  BY <1>0, <1>21 DEF Finish, OwnInv, parsed
<1>22. CASE IoFails
  BY <1>1, <1>22 DEF IoFails
<1>23. CASE Send
  BY <1>0, <1>23 DEF Send, OwnInv, reader, parsed
<1>24. CASE EndConnection
  BY <1>0, <1>24 DEF EndConnection, OwnInv, reader, parsed
<1>25. CASE UNCHANGED vars
  BY <1>0, <1>25 DEF vars, OwnInv, reader, parsed
<1> QED
  BY <1>4, <1>5, <1>6, <1>7, <1>8, <1>9, <1>10, <1>11, <1>12, <1>13, <1>14, <1>15,
     <1>16, <1>17, <1>18, <1>19, <1>20, <1>21, <1>22, <1>23, <1>24, <1>25
     DEF Next, ReaderStep

-----------------------------------------------------------------------------
(* The theorems. *)

LEMMA Inductive == Spec => []IInv
<1>1. IInv /\ [Next]_vars => IInv'
  BY TypeStep, CollectStep, VerdictStep, OwnStep DEF IInv
<1> QED
  BY InitIInv, <1>1, PTL DEF Spec

(* http_read_response keeps to its types, and raw to its allocation, for   *)
(* every limit and every response.                                         *)
THEOREM TypeCorrect == Spec => []TypeOK
<1>1. IInv => TypeOK
  BY DEF IInv
<1> QED
  BY Inductive, <1>1, PTL

(* The bytes that have arrived are a first part of all that were sent.     *)
LEMMA RawIsFirstPart ==
  ASSUME IInv, NEW m \in Nat, Len(raw) <= m, m <= Len(sent)
  PROVE  \E t \in Seq(Byte) : SubSeq(sent, 1, m) = raw \o t
<1>1. /\ raw \in Seq(Byte) /\ net \in Seq(Byte) /\ Len(raw) \in Nat /\ Len(net) \in Nat
      /\ sent = raw \o net
  BY Types DEF IInv, CollectInv
<1>2. /\ sent \in Seq(Byte)
      /\ Len(sent) = Len(raw) + Len(net)
      /\ \A i \in 1 .. Len(raw) + Len(net) :
           sent[i] = IF i <= Len(raw) THEN raw[i] ELSE net[i - Len(raw)]
  BY <1>1, ConcatProperties
<1> DEFINE t == SubSeq(net, 1, m - Len(raw))
           p == SubSeq(sent, 1, m)
<1>3. m - Len(raw) \in 0 .. Len(net)
  BY <1>1, <1>2
<1>4. /\ t \in Seq(Byte) /\ Len(t) = m - Len(raw)
      /\ \A i \in 1 .. m - Len(raw) : t[i] = net[i]
  BY <1>1, <1>3
<1>5. p \in Seq(Byte) /\ Len(p) = m /\ \A i \in 1 .. m : p[i] = sent[i]
  BY <1>2
<1> HIDE DEF t, p
<1>6. /\ raw \o t \in Seq(Byte)
      /\ Len(raw \o t) = Len(raw) + Len(t)
      /\ \A i \in 1 .. Len(raw) + Len(t) :
           (raw \o t)[i] = IF i <= Len(raw) THEN raw[i] ELSE t[i - Len(raw)]
  BY <1>1, <1>4, ConcatProperties
<1>7. Len(p) = Len(raw \o t)
  BY <1>1, <1>4, <1>5, <1>6
<1>8. \A i \in 1 .. Len(p) : p[i] = (raw \o t)[i]
  <2> SUFFICES ASSUME NEW i \in 1 .. m PROVE p[i] = (raw \o t)[i]
    BY <1>5
  <2>1. p[i] = sent[i] /\ i \in 1 .. Len(raw) + Len(net) /\ i \in 1 .. Len(raw) + Len(t)
    BY <1>1, <1>2, <1>4, <1>5
  <2>2. CASE i <= Len(raw)
    BY <1>2, <1>6, <2>1, <2>2
  <2>3. CASE i > Len(raw)
    <3>1. i - Len(raw) \in 1 .. m - Len(raw)
      BY <1>1, <2>3
    <3>2. t[i - Len(raw)] = net[i - Len(raw)]
      BY <1>4, <3>1
    <3>3. ~ (i <= Len(raw))
      BY <1>1, <2>3
    <3> QED
      BY <1>2, <1>6, <2>1, <3>2, <3>3
  <2>4. i <= Len(raw) \/ i > Len(raw)
    BY <1>1
  <2> QED
    BY <2>2, <2>3, <2>4
<1>9. p = raw \o t
  BY <1>5, <1>6, <1>7, <1>8, SeqEqual
<1> QED
  BY <1>4, <1>9 DEF p

(* Every verdict on the headers agrees with the first MAX_HEADER_BYTES     *)
(* that the server sent, whatever the limit and however the bytes arrive.  *)
THEOREM LimitIsKept == Spec => []LimitKept
<1>1. IInv => LimitKept
  <2> SUFFICES ASSUME IInv PROVE LimitKept
    OBVIOUS
  <2> DEFINE m == Min(Len(sent), MAX_HEADER_BYTES)
             p == SubSeq(sent, 1, m)
  <2>1. /\ raw \in Seq(Byte) /\ net \in Seq(Byte) /\ Len(raw) \in Nat /\ Len(net) \in Nat
        /\ Len(raw) <= MAX_HEADER_BYTES
    BY Types DEF IInv
  <2>2. sent = raw \o net
    BY DEF IInv, CollectInv
  <2>3. Len(sent) = Len(raw) + Len(net)
    BY <2>1, <2>2, ConcatProperties
  <2>4. m \in Nat /\ Len(raw) <= m /\ m <= Len(sent) /\ m <= MAX_HEADER_BYTES
    BY <2>1, <2>3 DEF Min
  <2> HIDE DEF m
  <2>5. PICK t \in Seq(Byte) : p = raw \o t
    BY <2>4, RawIsFirstPart
  <2>6. ASSUME error \in {"too large", "timeout", "closed"}
        PROVE  find_header_end(p) = -1
    <3>1. m = Len(raw) /\ find_header_end(raw) = -1
      <4>1. find_header_end(raw) = -1
        BY <2>6 DEF IInv, VerdictInv
      <4>2. Len(raw) = MAX_HEADER_BYTES \/ Len(net) = 0
        BY <2>6 DEF IInv, VerdictInv
      <4>. QED
        BY <2>1, <2>3, <2>4, <4>1, <4>2
    <3>2. p \in Seq(Byte) /\ Len(p) = m
      <4>1. sent \in Seq(Byte) /\ Len(sent) \in Nat
        BY <2>1, <2>2, ConcatProperties
      <4> QED
        BY <2>4, <4>1
    <3>3. /\ Len(p) = Len(raw) + Len(t)
          /\ \A i \in 1 .. Len(raw) + Len(t) :
               p[i] = IF i <= Len(raw) THEN raw[i] ELSE t[i - Len(raw)]
      BY <2>1, <2>5, ConcatProperties
    <3> HIDE DEF p
    <3>4. Len(t) \in Nat /\ Len(p) = Len(raw)
      BY <2>1, <2>4, <3>1, <3>2, <3>3
    <3>5. \A i \in 1 .. Len(p) : p[i] = raw[i]
      BY <2>1, <3>3, <3>4
    <3>6. p = raw
      BY <2>1, <3>2, <3>4, <3>5, SeqEqual
    <3> QED
      BY <3>1, <3>6
  <2>7. /\ error = "too large" => Len(sent) >= MAX_HEADER_BYTES
        /\ error = "timeout" => Len(sent) <= MAX_HEADER_BYTES
        /\ error = "closed" => Len(sent) < MAX_HEADER_BYTES
    <3>1. /\ error = "too large" => Len(raw) = MAX_HEADER_BYTES
          /\ error \in {"timeout", "closed"} => Len(net) = 0
          /\ error = "closed" => Len(raw) # MAX_HEADER_BYTES
      BY DEF IInv, VerdictInv
    <3>2. CASE error = "too large"
      <4>1. Len(raw) = MAX_HEADER_BYTES /\ Len(net) \in Nat
        BY <2>1, <3>1, <3>2
      <4>2. Len(sent) >= MAX_HEADER_BYTES
        BY <2>3, <4>1
      <4>. QED
        BY <3>2, <4>2
    <3>3. CASE error = "timeout"
      <4>1. Len(sent) = Len(raw)
        BY <2>1, <2>3, <3>1, <3>3
      <4>. QED
        BY <2>1, <3>3, <4>1
    <3>4. CASE error = "closed"
      <4>1. Len(sent) = Len(raw) /\ Len(raw) # MAX_HEADER_BYTES
        BY <2>1, <2>3, <3>1, <3>4
      <4>. QED
        BY <2>1, <3>4, <4>1
    <3>. QED
      BY <3>2, <3>3, <3>4
  <2>8. ASSUME pc = "ok" PROVE find_header_end(p) # -1
    <3>1. find_header_end(raw) # -1
      BY <2>8 DEF IInv, CollectInv
    <3> QED
      BY <2>1, <2>5, <3>1, SameEnd
  <2> QED
    BY <2>6, <2>7, <2>8 DEF LimitKept, m
<1> QED
  BY Inductive, <1>1, PTL

(* No byte after the blank line is lost, doubled or taken for a header,    *)
(* for every response, every cutting and every limit.                      *)
THEOREM BodyIsKept == Spec => []BodyKept
<1>1. IInv => BodyKept
  <2> SUFFICES ASSUME IInv, pc = "ok"
               PROVE  /\ find_header_end(sent) # -1
                      /\ body_prefix \o net
                           = SubSeq(sent, find_header_end(sent) + 5, Len(sent))
    BY DEF BodyKept
  <2> DEFINE e == header_end
             a == SubSeq(raw, e + 5, Len(raw))
             b == SubSeq(sent, e + 5, Len(sent))
  <2>1. /\ raw \in Seq(Byte) /\ net \in Seq(Byte) /\ Len(raw) \in Nat /\ Len(net) \in Nat
        /\ sent = raw \o net
    BY Types DEF IInv, CollectInv
  <2>2. e = find_header_end(raw) /\ find_header_end(raw) # -1
    BY DEF IInv, CollectInv
  <2>3. find_header_end(sent) = e
    BY <2>1, <2>2, SameEnd
  <2>4. e \in Nat /\ e + 4 <= Len(raw)
    BY EndInRaw
  <2>5. body_prefix = a
    <3>1. body_prefix = SubSeq(raw, body_start + 1, Len(raw))
      BY DEF IInv, CollectInv
    <3>2. body_start + 1 = e + 5
      BY <2>4 DEF body_start
    <3> QED
      BY <3>1, <3>2
  <2>6. /\ sent \in Seq(Byte)
        /\ Len(sent) = Len(raw) + Len(net)
        /\ \A i \in 1 .. Len(raw) + Len(net) :
             sent[i] = IF i <= Len(raw) THEN raw[i] ELSE net[i - Len(raw)]
    BY <2>1, ConcatProperties
  <2> HIDE DEF e
  <2> DEFINE n == Len(raw) - (e + 4)
  <2>7. n \in Nat
    BY <2>1, <2>4
  <2>8. a \in Seq(Byte) /\ Len(a) = n /\ \A i \in 1 .. n : a[i] = raw[e + 4 + i]
    BY <2>1, <2>4
  <2>9. b \in Seq(Byte) /\ Len(b) = n + Len(net)
        /\ \A i \in 1 .. n + Len(net) : b[i] = sent[e + 4 + i]
    BY <2>1, <2>4, <2>6
  <2> HIDE DEF a, b
  <2>10. /\ a \o net \in Seq(Byte)
         /\ Len(a \o net) = Len(a) + Len(net)
         /\ \A i \in 1 .. Len(a) + Len(net) :
              (a \o net)[i] = IF i <= Len(a) THEN a[i] ELSE net[i - Len(a)]
    BY <2>1, <2>8, ConcatProperties
  <2>11. \A i \in 1 .. Len(a \o net) : (a \o net)[i] = b[i]
    <3> SUFFICES ASSUME NEW i \in 1 .. n + Len(net) PROVE (a \o net)[i] = b[i]
      BY <2>8, <2>10
    <3>1. b[i] = sent[e + 4 + i] /\ e + 4 + i \in 1 .. Len(raw) + Len(net)
      BY <2>1, <2>4, <2>7, <2>9
    <3>2. CASE i <= n
      <4>1. e + 4 + i <= Len(raw)
        BY <2>1, <2>4, <3>2
      <4>2. i \in 1 .. n /\ i \in 1 .. Len(a) + Len(net) /\ i <= Len(a)
        BY <2>1, <2>7, <2>8, <3>2
      <4> QED
        BY <2>6, <2>8, <2>10, <3>1, <4>1, <4>2
    <3>3. CASE i > n
      <4>1. ~ (e + 4 + i <= Len(raw)) /\ (e + 4 + i) - Len(raw) = i - n
        BY <2>1, <2>4, <3>3
      <4>2. i \in 1 .. Len(a) + Len(net) /\ ~ (i <= Len(a)) /\ i - Len(a) = i - n
        BY <2>1, <2>7, <2>8, <3>3
      <4> QED
        BY <2>6, <2>10, <3>1, <4>1, <4>2
    <3>4. i <= n \/ i > n
      BY <2>1, <2>7
    <3> QED
      BY <3>2, <3>3, <3>4
  <2>12. a \o net = b
    BY <2>1, <2>7, <2>8, <2>9, <2>10, <2>11, SeqEqual
  <2> QED
    BY <2>1, <2>2, <2>3, <2>5, <2>12 DEF b, e
<1> QED
  BY Inductive, <1>1, PTL

(* Every exit frees raw and what the parser made, with at most one string  *)
(* left behind when memory runs out, for any number of headers.            *)
THEOREM AlwaysReleased == Spec => []Released
<1>1. IInv => Released
  <2> SUFFICES ASSUME IInv, pc \in {"ok", "failed"} PROVE Released
    BY DEF Released
  <2>1. OwnInv /\ CollectInv /\ header_count \in Nat
    BY Types DEF IInv
  <2>2. CASE pc = "ok"
    <3>1. strings = 2 * header_count /\ ~has_raw /\ error = "none"
      BY <2>1, <2>2 DEF OwnInv, CollectInv
    <3>2. strings - 2 * header_count = 0
      BY <2>1, <3>1
    <3> QED
      BY <2>2, <3>1, <3>2 DEF Released
  <2>3. CASE pc = "failed"
    <3>1. /\ ~status_line /\ body_prefix = <<>> /\ ~headers /\ header_count = 0 /\ ~has_raw
          /\ strings \in IF error = "memory" THEN {0, 1} ELSE {0}
      BY <2>1, <2>3 DEF OwnInv
    <3>2. strings - 2 * header_count = strings
      BY <3>1
    <3> QED
      BY <2>3, <3>1, <3>2 DEF Released
  <2> QED
    BY <2>2, <2>3
<1> QED
  BY Inductive, <1>1, PTL
=============================================================================
