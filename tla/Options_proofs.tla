--------------------------- MODULE Options_proofs ---------------------------
(***************************************************************************)
(* config_parse for every command line: the values stay in range, every    *)
(* character is read once, the last of several options counts, and no copy *)
(* of a URL is leaked.                                                     *)
(***************************************************************************)
EXTENDS Options, SequenceTheorems, WellFoundedInduction, TLAPS

-----------------------------------------------------------------------------
(* Pieces written one after the other: FlattenSeq walks along a sequence   *)
(* and appends each of its pieces to what it has.                          *)

LEMMA Least ==
  ASSUME NEW S \in SUBSET Nat, S # {}
  PROVE  \E m \in S : \A k \in S : m <= k
<1>1. PICK m \in S : \A k \in S : ~ (<<k, m>> \in OpToRel(<, Nat))
  BY NatLessThanWellFounded, WFMin
<1>2. ASSUME NEW k \in S PROVE m <= k
  <2>1. m \in Nat /\ k \in Nat
    OBVIOUS
  <2>2. ~ (<<k, m>> \in OpToRel(<, Nat))
    BY <1>1
  <2>. QED
    BY <2>1, <2>2 DEF OpToRel
<1>. QED
  BY <1>2

Walk(f, s, n) == f = [i \in 1 .. n |-> IF i = 1 THEN s[i] ELSE f[i - 1] \o s[i]]

Agree(s, t, n) == \A i \in 1 .. n : s[i] = t[i]

LEMMA WalkExists ==
  ASSUME NEW s, NEW n \in Nat
  PROVE  \E f : Walk(f, s, n)
<1>. DEFINE Bad == {m \in Nat : ~ \E f : Walk(f, s, m)}
<1>1. Bad = {}
  <2>. SUFFICES ASSUME Bad # {} PROVE FALSE
    OBVIOUS
  <2>1. PICK m \in Bad : \A k \in Bad : m <= k
    <3>1. Bad \in SUBSET Nat
      OBVIOUS
    <3>. HIDE DEF Bad
    <3>. QED
      BY <3>1, Least
  <2>2. m \in Nat /\ ~ \E f : Walk(f, s, m)
    OBVIOUS
  <2>3. m # 0
    <3>. DEFINE f == [i \in {} |-> s[i]]
    <3>1. f = [i \in {} |-> IF i = 1 THEN s[i] ELSE f[i - 1] \o s[i]]
      OBVIOUS
    <3>2. 1 .. 0 = {}
      OBVIOUS
    <3>. HIDE DEF f
    <3>3. Walk(f, s, 0)
      BY <3>1, <3>2 DEF Walk
    <3>. QED
      BY <2>2, <3>3
  <2>4. m - 1 \in Nat /\ m - 1 \notin Bad
    <3>. HIDE DEF Bad
    <3>. QED
      BY <2>1, <2>2, <2>3
  <2>5. PICK f : Walk(f, s, m - 1)
    BY <2>4
  <2>. DEFINE last == IF m = 1 THEN s[m] ELSE f[m - 1] \o s[m]
              g == [i \in 1 .. m |-> IF i = m THEN last ELSE f[i]]
  <2>6. g[m] = last /\ \A i \in 1 .. m - 1 : g[i] = f[i]
    <3>1. m \in 1 .. m /\ 1 .. m - 1 \subseteq 1 .. m /\ m \notin 1 .. m - 1
      BY <2>2, <2>3
    <3>. HIDE DEF last
    <3>. QED
      BY <3>1
  <2>7. \A i \in 1 .. m : g[i] = IF i = 1 THEN s[i] ELSE g[i - 1] \o s[i]
    <3>. SUFFICES ASSUME NEW i \in 1 .. m
                  PROVE  g[i] = IF i = 1 THEN s[i] ELSE g[i - 1] \o s[i]
      OBVIOUS
    <3>0. f = [j \in 1 .. m - 1 |-> IF j = 1 THEN s[j] ELSE f[j - 1] \o s[j]]
      BY <2>5 DEF Walk
    <3>. HIDE DEF g
    <3>1. i # 1 => i - 1 \in 1 .. m - 1
      BY <2>2
    <3>2. CASE i = m
      BY <2>6, <3>1, <3>2
    <3>3. CASE i # m
      <4>1. i \in 1 .. m - 1
        BY <2>2, <3>3
      <4>2. f[i] = IF i = 1 THEN s[i] ELSE f[i - 1] \o s[i]
        BY <3>0, <4>1
      <4>. HIDE DEF last
      <4>. QED
        BY <2>6, <3>1, <4>1, <4>2
    <3>. QED
      BY <3>2, <3>3
  <2>8. g = [i \in 1 .. m |-> g[i]]
    OBVIOUS
  <2>. HIDE DEF g
  <2>9. Walk(g, s, m)
    BY <2>7, <2>8 DEF Walk
  <2>. QED
    BY <2>2, <2>9
<1>. QED
  BY <1>1

LEMMA WalkAt ==
  ASSUME NEW f, NEW s, NEW n, Walk(f, s, n), NEW i \in 1 .. n
  PROVE  f[i] = IF i = 1 THEN s[i] ELSE f[i - 1] \o s[i]
BY Zenon DEF Walk

(* Two walks that see the same pieces agree. *)
LEMMA SameWalk ==
  ASSUME NEW s, NEW t, NEW n \in Nat, NEW m \in Nat, n <= m,
         Agree(s, t, n), NEW f, NEW g, Walk(f, s, n), Walk(g, t, m)
  PROVE  Agree(f, g, n)
<1>. DEFINE Bad == {i \in 1 .. n : f[i] # g[i]}
<1>. SUFFICES ASSUME Bad # {} PROVE FALSE
  BY DEF Agree
<1>1. PICK i \in Bad : \A k \in Bad : i <= k
  <2>1. Bad \in SUBSET Nat
    OBVIOUS
  <2>. HIDE DEF Bad
  <2>. QED
    BY <2>1, Least
<1>2. i \in 1 .. n /\ i \in 1 .. m /\ f[i] # g[i]
  OBVIOUS
<1>3. i # 1 => i - 1 \in 1 .. n /\ f[i - 1] = g[i - 1]
  <2>1. i # 1 => i - 1 \in 1 .. n /\ i - 1 \notin Bad
    <3>. HIDE DEF Bad
    <3>. QED
      BY <1>1, <1>2
  <2>. QED
    BY <2>1
<1>4. f[i] = IF i = 1 THEN s[i] ELSE f[i - 1] \o s[i]
  BY <1>2, WalkAt
<1>5. g[i] = IF i = 1 THEN t[i] ELSE g[i - 1] \o t[i]
  BY <1>2, WalkAt
<1>6. s[i] = t[i]
  BY <1>2 DEF Agree
<1>. QED
  BY <1>2, <1>3, <1>4, <1>5, <1>6, Zenon

LEMMA WalkTyped ==
  ASSUME NEW T, NEW s \in Seq(Seq(T)), NEW f, Walk(f, s, Len(s))
  PROVE  \A i \in 1 .. Len(s) : f[i] \in Seq(T)
<1>. DEFINE Bad == {i \in 1 .. Len(s) : f[i] \notin Seq(T)}
<1>. SUFFICES ASSUME Bad # {} PROVE FALSE
  OBVIOUS
<1>0. Len(s) \in Nat
  BY LenProperties
<1>1. PICK i \in Bad : \A k \in Bad : i <= k
  <2>1. Bad \in SUBSET Nat
    BY <1>0
  <2>. HIDE DEF Bad
  <2>. QED
    BY <2>1, Least
<1>2. i \in 1 .. Len(s) /\ f[i] \notin Seq(T) /\ s[i] \in Seq(T)
  BY ElementOfSeq
<1>3. i # 1 => f[i - 1] \in Seq(T)
  <2>1. i # 1 => i - 1 \in 1 .. Len(s) /\ i - 1 \notin Bad
    <3>. HIDE DEF Bad
    <3>. QED
      BY <1>0, <1>1, <1>2
  <2>. QED
    BY <2>1
<1>4. f[i] = IF i = 1 THEN s[i] ELSE f[i - 1] \o s[i]
  BY <1>2, WalkAt
<1>5. i # 1 => f[i - 1] \o s[i] \in Seq(T)
  BY <1>2, <1>3, ConcatProperties
<1>. QED
  BY <1>2, <1>4, <1>5, Zenon

(* FlattenSeq is where its walk ends. *)
LEMMA FlattenWalk ==
  ASSUME NEW T, NEW s \in Seq(T), s # <<>>
  PROVE  \E f : Walk(f, s, Len(s)) /\ FlattenSeq(s) = f[Len(s)]
<1>. DEFINE f == CHOOSE f : f = [i \in 1 .. Len(s) |-> IF i = 1 THEN s[i] ELSE f[i - 1] \o s[i]]
<1>1. Len(s) \in Nat /\ Len(s) # 0
  BY LenProperties, EmptySeq
<1>2. FlattenSeq(s) = f[Len(s)]
  BY <1>1, Zenon DEF FlattenSeq
<1>3. \E g : g = [i \in 1 .. Len(s) |-> IF i = 1 THEN s[i] ELSE g[i - 1] \o s[i]]
  BY <1>1, WalkExists DEF Walk
<1>4. f = [i \in 1 .. Len(s) |-> IF i = 1 THEN s[i] ELSE f[i - 1] \o s[i]]
  BY <1>3, Zenon
<1>. HIDE DEF f
<1>. QED
  BY <1>2, <1>4 DEF Walk

LEMMA FlattenEmpty == FlattenSeq(<<>>) = <<>>
<1>1. Len(<<>>) = 0
  OBVIOUS
<1>. QED
  BY <1>1, Zenon DEF FlattenSeq

LEMMA FlattenTyped ==
  ASSUME NEW T, NEW s \in Seq(Seq(T))
  PROVE  FlattenSeq(s) \in Seq(T)
<1>1. CASE s = <<>>
  <2>1. <<>> \in Seq(T)
    OBVIOUS
  <2>. QED
    BY <1>1, <2>1, FlattenEmpty
<1>2. CASE s # <<>>
  <2>1. PICK f : Walk(f, s, Len(s)) /\ FlattenSeq(s) = f[Len(s)]
    BY <1>2, FlattenWalk
  <2>2. Len(s) \in 1 .. Len(s)
    BY <1>2, LenProperties, EmptySeq
  <2>. QED
    BY <2>1, <2>2, WalkTyped
<1>. QED
  BY <1>1, <1>2

(* One more piece at the end comes last. *)
LEMMA FlattenGrows ==
  ASSUME NEW T, NEW s \in Seq(Seq(T)), NEW x \in Seq(T)
  PROVE  FlattenSeq(Append(s, x)) = FlattenSeq(s) \o x
<1>. DEFINE t == Append(s, x)
            n == Len(s)
            m == Len(t)
<1>1. /\ t \in Seq(Seq(T)) /\ n \in Nat /\ m = n + 1
      /\ t[m] = x
      /\ \A i \in 1 .. n : s[i] = t[i]
  BY AppendProperties, LenProperties
<1>2. s = <<>> <=> n = 0
  BY EmptySeq
<1>. HIDE DEF t
<1>3. t # <<>>
  BY <1>1, EmptySeq
<1>4. PICK g : Walk(g, t, m) /\ FlattenSeq(t) = g[m]
  BY <1>1, <1>3, FlattenWalk
<1>. HIDE DEF n, m
<1>5. m \in Nat /\ m \in 1 .. m /\ m - 1 = n /\ (m = 1 <=> n = 0) /\ n <= m
  BY <1>1
<1>6. g[m] = IF m = 1 THEN t[m] ELSE g[m - 1] \o t[m]
  BY <1>4, <1>5, WalkAt
<1>7. CASE n = 0
  <2>1. FlattenSeq(t) = x
    BY <1>1, <1>4, <1>5, <1>6, <1>7
  <2>2. FlattenSeq(s) \o x = x
    BY <1>2, <1>7, FlattenEmpty, ConcatEmptySeq
  <2>. QED
    BY <2>1, <2>2 DEF t
<1>8. CASE n # 0
  <2>1. PICK f : Walk(f, s, n) /\ FlattenSeq(s) = f[n]
    BY <1>2, <1>8, FlattenWalk DEF n
  <2>2. n \in 1 .. n
    BY <1>1, <1>8
  <2>3. Agree(f, g, n)
    <3>1. n \in Nat /\ m \in Nat /\ n <= m
      BY <1>1, <1>5
    <3>2. Walk(f, s, n) /\ Walk(g, t, m) /\ Agree(s, t, n)
      BY <1>1, <1>4, <2>1 DEF Agree
    <3>. QED
      BY <3>1, <3>2, SameWalk
  <2>4. FlattenSeq(t) = g[n] \o x
    BY <1>1, <1>4, <1>5, <1>6, <1>8
  <2>. QED
    BY <2>1, <2>2, <2>3, <2>4 DEF t, Agree
<1>. QED
  BY <1>7, <1>8

-----------------------------------------------------------------------------
(* The inductive invariant. *)

Option == [option : Flag \cup Valued, text : Seq(Char), value : Int \cup Seq(Char)]

(* saw remembers what of -4 and -6 has been seen. *)
SeenInv ==
  /\ seen \in Seq(Option)
  /\ pc \notin {"exited", "refused"} => saw = Given(seen) \cap {"4", "6"}

PlaceInv == pc = "group" => index <= Len(argv)

IInv == TypeOK /\ LastWins /\ UrlHeld /\ SeenInv /\ PlaceInv

-----------------------------------------------------------------------------
(* The history grows at its end: a new option of letters becomes the last  *)
(* of them, and another one changes nothing for them.                      *)
LEMMA Appended ==
  ASSUME NEW s \in Seq(Option), NEW e \in Option
  PROVE  /\ Append(s, e) \in Seq(Option)
         /\ Len(s) \in Nat
         /\ Len(Append(s, e)) = Len(s) + 1
         /\ Append(s, e)[Len(s) + 1] = e
         /\ \A i \in 1 .. Len(s) : Append(s, e)[i] = s[i]
  OBVIOUS

LEMMA NewIsLast ==
  ASSUME NEW s \in Seq(Option), NEW e \in Option, NEW letters, NEW default,
         e.option \in letters
  PROVE  IsLast(Append(s, e), letters, e.value, default)
<1>. DEFINE n == Len(s) + 1
            t == Append(s, e)
<1>1. /\ n \in 1 .. Len(t)
      /\ t[n] = e
      /\ \A j \in n + 1 .. Len(t) : FALSE
  BY Appended
<1>. HIDE DEF n, t
<1>. QED
  BY <1>1 DEF IsLast, t

LEMMA OldStaysLast ==
  ASSUME NEW s \in Seq(Option), NEW e \in Option, NEW letters, NEW default, NEW value,
         e.option \notin letters, IsLast(s, letters, value, default)
  PROVE  IsLast(Append(s, e), letters, value, default)
<1>. DEFINE t == Append(s, e)
<1>1. /\ Len(s) \in Nat
      /\ Len(t) = Len(s) + 1
      /\ t[Len(s) + 1] = e
      /\ \A i \in 1 .. Len(s) : t[i] = s[i]
  BY Appended
<1>. HIDE DEF t
<1>2. CASE \E i \in 1 .. Len(s) :
             /\ s[i].option \in letters
             /\ s[i].value = value
             /\ \A j \in i + 1 .. Len(s) : s[j].option \notin letters
  <2>1. PICK i \in 1 .. Len(s) :
             /\ s[i].option \in letters
             /\ s[i].value = value
             /\ \A j \in i + 1 .. Len(s) : s[j].option \notin letters
    BY <1>2
  <2>2. i \in 1 .. Len(t) /\ t[i].option \in letters /\ t[i].value = value
    BY <1>1, <2>1
  <2>3. \A j \in i + 1 .. Len(t) : t[j].option \notin letters
    <3>. SUFFICES ASSUME NEW j \in i + 1 .. Len(t) PROVE t[j].option \notin letters
      OBVIOUS
    <3>1. CASE j = Len(s) + 1
      BY <1>1, <3>1
    <3>2. CASE j # Len(s) + 1
      BY <1>1, <2>1, <3>2
    <3>. QED
      BY <3>1, <3>2
  <2>4. IsLast(t, letters, value, default)
    BY <2>2, <2>3 DEF IsLast
  <2>. QED
    BY <2>4 DEF t
<1>3. CASE value = default /\ \A i \in 1 .. Len(s) : s[i].option \notin letters
  <2>1. \A i \in 1 .. Len(t) : t[i].option \notin letters
    <3>. SUFFICES ASSUME NEW i \in 1 .. Len(t) PROVE t[i].option \notin letters
      OBVIOUS
    <3>1. CASE i = Len(s) + 1
      BY <1>1, <3>1
    <3>2. CASE i # Len(s) + 1
      BY <1>1, <1>3, <3>2
    <3>. QED
      BY <3>1, <3>2
  <2>2. IsLast(t, letters, value, default)
    BY <1>3, <2>1 DEF IsLast
  <2>. QED
    BY <2>2 DEF t
<1>. QED
  BY <1>2, <1>3 DEF IsLast

LEMMA GivenGrows ==
  ASSUME NEW s \in Seq(Option), NEW e \in Option
  PROVE  Given(Append(s, e)) = Given(s) \cup {e.option}
<1>. DEFINE t == Append(s, e)
<1>1. /\ Len(s) \in Nat
      /\ Len(t) = Len(s) + 1
      /\ t[Len(s) + 1] = e
      /\ \A i \in 1 .. Len(s) : t[i] = s[i]
  BY Appended
<1>. HIDE DEF t
<1>2. ASSUME NEW i \in 1 .. Len(t) PROVE t[i].option \in Given(s) \cup {e.option}
  <2>1. CASE i = Len(s) + 1
    BY <1>1, <2>1
  <2>2. CASE i # Len(s) + 1
    BY <1>1, <2>2 DEF Given
  <2>. QED
    BY <2>1, <2>2
<1>3. ASSUME NEW i \in 1 .. Len(s) PROVE s[i].option \in Given(t)
  BY <1>1 DEF Given
<1>4. e.option \in Given(t)
  BY <1>1 DEF Given
<1>5. Given(t) = Given(s) \cup {e.option}
  BY <1>2, <1>3, <1>4 DEF Given
<1>. QED
  BY <1>5 DEF t

-----------------------------------------------------------------------------
(* The texts an option is read from. *)

LEMMA ArgumentTyped ==
  ASSUME TypeOK, NEW i \in 1 .. Len(argv)
  PROVE  argv[i] \in Seq(Char)
<1>1. argv \in Seq(Seq(Char))
  BY Zenon DEF TypeOK
<1>. QED
  BY <1>1, ElementOfSeq

LEMMA Placed ==
  ASSUME TypeOK, pc = "group", index \in 1 .. Len(argv), pos <= Len(arg)
  PROVE  arg \in Seq(Char) /\ Len(arg) \in Nat /\ pos \in 1 .. Len(arg) /\ arg[pos] \in Char
<1>1. arg \in Seq(Char)
  BY ArgumentTyped DEF arg
<1>2. pos \in Nat \ {0}
  BY Zenon DEF TypeOK
<1>. QED
  BY <1>1, <1>2, LenProperties, ElementOfSeq

LEMMA ValueTyped ==
  ASSUME TypeOK, pc = "group", index \in 1 .. Len(argv), pos <= Len(arg), HasValue
  PROVE  OptionValue \in Seq(Char) /\ LastIndex + 1 \in Nat \ {0}
<1>1. arg \in Seq(Char) /\ pos \in 1 .. Len(arg) /\ Len(arg) \in Nat
  BY Placed
<1>2. argv \in Seq(Seq(Char)) /\ Len(argv) \in Nat
  BY LenProperties, Zenon DEF TypeOK
<1>3. CASE Attached
  <2>1. OptionValue = SubSeq(arg, pos + 1, Len(arg)) /\ LastIndex = index
    BY <1>3 DEF OptionValue, LastIndex
  <2>2. \A i \in pos + 1 .. Len(arg) : arg[i] \in Char
    BY <1>1, ElementOfSeq
  <2>3. SubSeq(arg, pos + 1, Len(arg)) \in Seq(Char)
    BY <1>1, <2>2, SubSeqProperties
  <2>. QED
    BY <1>2, <2>1, <2>3
<1>4. CASE ~Attached
  <2>1. index + 1 \in 1 .. Len(argv)
    BY <1>2, <1>4 DEF HasValue
  <2>2. OptionValue = argv[index + 1] /\ LastIndex = index + 1
    BY <1>4 DEF OptionValue, LastIndex, ValueIndex
  <2>. QED
    BY <1>2, <2>1, <2>2, ArgumentTyped
<1>. QED
  BY <1>3, <1>4

-----------------------------------------------------------------------------
(* Initially nothing has been read and the defaults hold. *)
LEMMA InitInv == Init => IInv
<1>. SUFFICES ASSUME Init PROVE IInv
  OBVIOUS
<1>. USE DEF Init
<1>1. config.timeout_ms \in MIN_TIMEOUT_MS .. MAX_TIMEOUT_MS
      /\ config.verbosity \in MIN_VERBOSITY .. MAX_VERBOSITY
  BY RangeAssumption DEF config_init
<1>2. argv \in Seq(Seq(Char))
  BY CharAssumption
<1>3. TypeOK
  BY <1>1, <1>2 DEF TypeOK, config_init
<1>4. Given(seen) = {} /\ seen \in Seq(Option) /\ Len(seen) = 0
  BY DEF Given
<1>5. LastWins
  BY <1>4 DEF LastWins, IsLast, config_init
<1>6. UrlHeld
  BY DEF UrlHeld, config_init
<1>7. SeenInv
  BY <1>4 DEF SeenInv
<1>. QED
  BY <1>3, <1>5, <1>6, <1>7 DEF IInv, PlaceInv

LEMMA StartGroupInv == ASSUME IInv, StartGroup PROVE IInv'
<1>. USE DEF IInv, StartGroup
<1>1. TypeOK'
  BY DEF TypeOK
<1>2. LastWins' /\ UrlHeld' /\ SeenInv' /\ PlaceInv'
  BY DEF LastWins, UrlHeld, SeenInv, PlaceInv
<1>. QED
  BY <1>1, <1>2

LEMMA EndGroupInv == ASSUME IInv, EndGroup PROVE IInv'
<1>. USE DEF IInv, EndGroup
<1>1. TypeOK'
  BY DEF TypeOK
<1>2. LastWins' /\ UrlHeld' /\ SeenInv' /\ PlaceInv'
  BY DEF LastWins, UrlHeld, SeenInv, PlaceInv
<1>. QED
  BY <1>1, <1>2

LEMMA ReadFlagInv == ASSUME IInv, ReadFlag PROVE IInv'
<1>. DEFINE e == [option |-> arg[pos], text |-> <<>>, value |-> 0]
<1>. USE DEF IInv
<1>1. /\ pc = "group" /\ pc' = "group" /\ arg[pos] \in Flag
      /\ seen' = Append(seen, e)
      /\ argv' = argv /\ index' = index /\ pos' = pos + 1 /\ copies' = copies
      /\ saw' = saw \cup ({arg[pos]} \cap {"4", "6"})
      /\ config' = [config EXCEPT !.want_metadata = @ \/ arg[pos] = "m",
                                  !.verbosity = VerbosityAfter(arg[pos])]
  BY DEF ReadFlag, Read
<1>2. e \in Option /\ seen \in Seq(Option) /\ e.option = arg[pos] /\ e.value = 0
  BY <1>1 DEF Option, SeenInv
<1>3. config \in [url : Seq(Char) \cup {NULL}, want_metadata : BOOLEAN,
                  timeout_ms : MIN_TIMEOUT_MS .. MAX_TIMEOUT_MS,
                  verbosity : MIN_VERBOSITY .. MAX_VERBOSITY,
                  ip_mode : {"AUTO", "IPV4", "IPV6"}]
  BY Zenon DEF TypeOK
<1>4. VerbosityAfter(arg[pos]) \in MIN_VERBOSITY .. MAX_VERBOSITY
  BY <1>3, RangeAssumption DEF VerbosityAfter
<1>5. /\ config'.url = config.url
      /\ config'.timeout_ms = config.timeout_ms
      /\ config'.verbosity = VerbosityAfter(arg[pos])
      /\ config'.ip_mode = config.ip_mode
  BY <1>1, <1>3
<1>6. config'.want_metadata = (config.want_metadata \/ arg[pos] = "m")
  BY <1>1, <1>3
<1>7. TypeOK'
  <2>1. config' \in [url : Seq(Char) \cup {NULL}, want_metadata : BOOLEAN,
                     timeout_ms : MIN_TIMEOUT_MS .. MAX_TIMEOUT_MS,
                     verbosity : MIN_VERBOSITY .. MAX_VERBOSITY,
                     ip_mode : {"AUTO", "IPV4", "IPV6"}]
    BY <1>1, <1>3, <1>4
  <2>. QED
    BY <1>1, <2>1 DEF TypeOK
<1>. HIDE DEF e
<1>8. Given(seen') = Given(seen) \cup {arg[pos]}
  BY <1>1, <1>2, GivenGrows
<1>9. LastWins'
  <2>1. IsLast(seen', {"u"}, config'.url, NULL)
    BY <1>1, <1>2, <1>5, OldStaysLast DEF LastWins, Flag
  <2>2. IsLast(seen', {"t"}, config'.timeout_ms, DEFAULT_TIMEOUT_MS)
    BY <1>1, <1>2, <1>5, OldStaysLast DEF LastWins, Flag
  <2>3. IsLast(seen', {"v", "q"}, config'.verbosity, DEFAULT_VERBOSITY)
    <3>1. CASE arg[pos] = "q"
      <4>1. config'.verbosity = e.value /\ e.option \in {"v", "q"}
        BY <1>2, <1>5, <3>1 DEF VerbosityAfter
      <4>2. IsLast(Append(seen, e), {"v", "q"}, e.value, DEFAULT_VERBOSITY)
        BY <1>2, <4>1, NewIsLast
      <4>. QED
        BY <1>1, <4>1, <4>2
    <3>2. CASE arg[pos] # "q"
      BY <1>1, <1>2, <1>5, <3>2, OldStaysLast DEF LastWins, Flag, VerbosityAfter
    <3>. QED
      BY <3>1, <3>2
  <2>4. config'.want_metadata <=> "m" \in Given(seen')
    <3>1. config.want_metadata <=> "m" \in Given(seen)
      BY <1>1 DEF LastWins
    <3>. QED
      BY <1>6, <1>8, <3>1, Zenon
  <2>. QED
    BY <1>1, <2>1, <2>2, <2>3, <2>4 DEF LastWins
<1>10. UrlHeld'
  BY <1>1, <1>5 DEF UrlHeld
<1>11. SeenInv'
  BY <1>1, <1>2, <1>8, Appended DEF SeenInv
<1>. QED
  BY <1>1, <1>7, <1>9, <1>10, <1>11 DEF PlaceInv

(* A valued option: what its letter and its value become in the history.   *)
LEMMA ValueTaken ==
  ASSUME IInv, NEW letter \in Valued, NEW value \in Int \cup Seq(Char),
         AtOption(letter), TakeValue(letter, value)
  PROVE  \E e \in Option :
           /\ e.option = letter /\ e.value = value
           /\ seen \in Seq(Option) /\ seen' = Append(seen, e)
           /\ SeenInv' /\ PlaceInv'
           /\ pc = "group" /\ pc' = "argument" /\ index' \in Nat \ {0}
           /\ Given(seen') = Given(seen) \cup {letter}
           /\ argv' = argv /\ pos' = pos /\ saw' = saw
<1>. DEFINE e == [option |-> letter, text |-> OptionValue, value |-> value]
<1>1. pc = "group" /\ pos <= Len(arg) /\ HasValue
  BY DEF AtOption
<1>2. index \in 1 .. Len(argv) /\ TypeOK
  <2>1. index \in Nat \ {0} /\ argv \in Seq(Seq(Char))
    BY Zenon DEF IInv, TypeOK
  <2>. QED
    BY <1>1, <2>1, LenProperties DEF IInv, PlaceInv
<1>3. OptionValue \in Seq(Char) /\ LastIndex + 1 \in Nat \ {0}
  BY <1>1, <1>2, ValueTyped
<1>4. e \in Option /\ e.option = letter /\ e.value = value
  BY <1>3 DEF Option
<1>5. /\ seen' = Append(seen, e)
      /\ index' = LastIndex + 1 /\ pc' = "argument"
      /\ argv' = argv /\ pos' = pos /\ saw' = saw
  BY DEF TakeValue, Read
<1>6. seen \in Seq(Option) /\ saw = Given(seen) \cap {"4", "6"}
  BY <1>1 DEF IInv, SeenInv
<1>. HIDE DEF e
<1>7. seen' \in Seq(Option) /\ Given(seen') = Given(seen) \cup {letter}
  BY <1>4, <1>5, <1>6, Appended, GivenGrows
<1>8. SeenInv' /\ PlaceInv'
  BY <1>5, <1>6, <1>7 DEF SeenInv, PlaceInv, Valued
<1>. QED
  BY <1>1, <1>3, <1>4, <1>5, <1>6, <1>7, <1>8

LEMMA ConfigTyped ==
  ASSUME TypeOK
  PROVE  config \in [url : Seq(Char) \cup {NULL}, want_metadata : BOOLEAN,
                     timeout_ms : MIN_TIMEOUT_MS .. MAX_TIMEOUT_MS,
                     verbosity : MIN_VERBOSITY .. MAX_VERBOSITY,
                     ip_mode : {"AUTO", "IPV4", "IPV6"}]
BY Zenon DEF TypeOK

LEMMA ReadUrlInv == ASSUME IInv, ReadUrl PROVE IInv'
<1>1. OptionValue \in Seq(Char)
  <2>1. index \in 1 .. Len(argv) /\ TypeOK
    <3>1. index \in Nat \ {0} /\ argv \in Seq(Seq(Char))
      BY Zenon DEF IInv, TypeOK
    <3>. QED
      BY <3>1, LenProperties DEF IInv, PlaceInv, ReadUrl, AtOption
  <2>. QED
    BY <2>1, ValueTyped DEF ReadUrl, AtOption
<1>2. PICK e \in Option :
        /\ e.option = "u" /\ e.value = OptionValue
        /\ seen \in Seq(Option) /\ seen' = Append(seen, e)
        /\ SeenInv' /\ PlaceInv'
        /\ pc = "group" /\ pc' = "argument" /\ index' \in Nat \ {0}
        /\ Given(seen') = Given(seen) \cup {"u"}
        /\ argv' = argv /\ pos' = pos /\ saw' = saw
  BY <1>1, ValueTaken DEF ReadUrl, Valued
<1>3. config' = [config EXCEPT !.url = OptionValue]
      /\ copies' = copies + 1 - Returned(config.url)
  BY DEF ReadUrl
<1>. DEFINE value == OptionValue
<1>. HIDE DEF value
<1>4. /\ config'.url = OptionValue
      /\ config'.timeout_ms = config.timeout_ms
      /\ config'.verbosity = config.verbosity
      /\ config'.want_metadata = config.want_metadata
      /\ config'.ip_mode = config.ip_mode
  BY <1>3, ConfigTyped DEF IInv
<1>5. UrlHeld'
  <2>1. OptionValue # NULL
    BY <1>1, CharAssumption
  <2>2. copies' = 1
    BY <1>3 DEF IInv, UrlHeld, Returned
  <2>. QED
    BY <1>2, <1>4, <2>1, <2>2 DEF UrlHeld
<1>6. TypeOK'
  <2>1. config' \in [url : Seq(Char) \cup {NULL}, want_metadata : BOOLEAN,
                     timeout_ms : MIN_TIMEOUT_MS .. MAX_TIMEOUT_MS,
                     verbosity : MIN_VERBOSITY .. MAX_VERBOSITY,
                     ip_mode : {"AUTO", "IPV4", "IPV6"}]
    BY <1>1, <1>3, ConfigTyped DEF IInv
  <2>2. copies' \in Nat
    BY <1>3 DEF IInv, UrlHeld, Returned
  <2>. QED
    BY <1>2, <2>1, <2>2, Zenon DEF IInv, TypeOK
<1>7. LastWins'
  <2>1. IsLast(seen', {"u"}, config'.url, NULL)
    <3>1. IsLast(Append(seen, e), {"u"}, e.value, NULL)
      BY <1>2, NewIsLast
    <3>. QED
      BY <1>2, <1>4, <3>1
  <2>2. IsLast(seen', {"t"}, config'.timeout_ms, DEFAULT_TIMEOUT_MS)
    BY <1>2, <1>4, OldStaysLast DEF IInv, LastWins
  <2>3. IsLast(seen', {"v", "q"}, config'.verbosity, DEFAULT_VERBOSITY)
    BY <1>2, <1>4, OldStaysLast DEF IInv, LastWins
  <2>4. config'.want_metadata <=> "m" \in Given(seen')
    BY <1>2, <1>4, Zenon DEF IInv, LastWins
  <2>. QED
    BY <1>2, <2>1, <2>2, <2>3, <2>4 DEF LastWins
<1>. QED
  BY <1>2, <1>5, <1>6, <1>7 DEF IInv

LEMMA ReadTimeoutInv == ASSUME IInv, ReadTimeout PROVE IInv'
<1>1. NumberValue(OptionValue) \in MIN_TIMEOUT_MS .. MAX_TIMEOUT_MS
  BY DEF ReadTimeout, GoodTimeout, parse_bounded_int
<1>2. NumberValue(OptionValue) \in Int
  BY <1>1, RangeAssumption
<1>3. PICK e \in Option :
        /\ e.option = "t" /\ e.value = NumberValue(OptionValue)
        /\ seen \in Seq(Option) /\ seen' = Append(seen, e)
        /\ SeenInv' /\ PlaceInv'
        /\ pc = "group" /\ pc' = "argument" /\ index' \in Nat \ {0}
        /\ Given(seen') = Given(seen) \cup {"t"}
        /\ argv' = argv /\ pos' = pos /\ saw' = saw
  BY <1>2, ValueTaken DEF ReadTimeout, Valued
<1>4. config' = [config EXCEPT !.timeout_ms = NumberValue(OptionValue)] /\ copies' = copies
  BY DEF ReadTimeout
<1>5. /\ config'.url = config.url
      /\ config'.timeout_ms = NumberValue(OptionValue)
      /\ config'.verbosity = config.verbosity
      /\ config'.want_metadata = config.want_metadata
  BY <1>4, ConfigTyped DEF IInv
<1>6. UrlHeld'
  BY <1>3, <1>4, <1>5 DEF IInv, UrlHeld
<1>7. TypeOK'
  <2>1. config' \in [url : Seq(Char) \cup {NULL}, want_metadata : BOOLEAN,
                     timeout_ms : MIN_TIMEOUT_MS .. MAX_TIMEOUT_MS,
                     verbosity : MIN_VERBOSITY .. MAX_VERBOSITY,
                     ip_mode : {"AUTO", "IPV4", "IPV6"}]
    BY <1>1, <1>4, ConfigTyped DEF IInv
  <2>. QED
    BY <1>3, <1>4, <2>1, Zenon DEF IInv, TypeOK
<1>8. LastWins'
  <2>1. IsLast(seen', {"u"}, config'.url, NULL)
    BY <1>3, <1>5, OldStaysLast DEF IInv, LastWins
  <2>2. IsLast(seen', {"t"}, config'.timeout_ms, DEFAULT_TIMEOUT_MS)
    <3>1. seen \in Seq(Option) /\ e.option \in {"t"}
      BY <1>3
    <3>2. IsLast(Append(seen, e), {"t"}, e.value, DEFAULT_TIMEOUT_MS)
      BY <3>1, NewIsLast
    <3>. QED
      BY <1>3, <1>5, <3>2
  <2>3. IsLast(seen', {"v", "q"}, config'.verbosity, DEFAULT_VERBOSITY)
    BY <1>3, <1>5, OldStaysLast DEF IInv, LastWins
  <2>4. config'.want_metadata <=> "m" \in Given(seen')
    BY <1>3, <1>5, Zenon DEF IInv, LastWins
  <2>. QED
    BY <1>3, <2>1, <2>2, <2>3, <2>4 DEF LastWins
<1>. QED
  BY <1>3, <1>6, <1>7, <1>8 DEF IInv

LEMMA ReadVerbosityInv == ASSUME IInv, ReadVerbosity PROVE IInv'
<1>1. NumberValue(OptionValue) \in MIN_VERBOSITY .. MAX_VERBOSITY
  BY DEF ReadVerbosity, GoodVerbosity, parse_bounded_int
<1>2. NumberValue(OptionValue) \in Int
  BY <1>1, RangeAssumption
<1>3. PICK e \in Option :
        /\ e.option = "v" /\ e.value = NumberValue(OptionValue)
        /\ seen \in Seq(Option) /\ seen' = Append(seen, e)
        /\ SeenInv' /\ PlaceInv'
        /\ pc = "group" /\ pc' = "argument" /\ index' \in Nat \ {0}
        /\ Given(seen') = Given(seen) \cup {"v"}
        /\ argv' = argv /\ pos' = pos /\ saw' = saw
  BY <1>2, ValueTaken DEF ReadVerbosity, Valued
<1>4. config' = [config EXCEPT !.verbosity = NumberValue(OptionValue)] /\ copies' = copies
  BY DEF ReadVerbosity
<1>5. /\ config'.url = config.url
      /\ config'.timeout_ms = config.timeout_ms
      /\ config'.verbosity = NumberValue(OptionValue)
      /\ config'.want_metadata = config.want_metadata
  BY <1>4, ConfigTyped DEF IInv
<1>6. UrlHeld'
  BY <1>3, <1>4, <1>5 DEF IInv, UrlHeld
<1>7. TypeOK'
  <2>1. config' \in [url : Seq(Char) \cup {NULL}, want_metadata : BOOLEAN,
                     timeout_ms : MIN_TIMEOUT_MS .. MAX_TIMEOUT_MS,
                     verbosity : MIN_VERBOSITY .. MAX_VERBOSITY,
                     ip_mode : {"AUTO", "IPV4", "IPV6"}]
    BY <1>1, <1>4, ConfigTyped DEF IInv
  <2>. QED
    BY <1>3, <1>4, <2>1, Zenon DEF IInv, TypeOK
<1>8. LastWins'
  <2>1. IsLast(seen', {"u"}, config'.url, NULL)
    BY <1>3, <1>5, OldStaysLast DEF IInv, LastWins
  <2>2. IsLast(seen', {"t"}, config'.timeout_ms, DEFAULT_TIMEOUT_MS)
    BY <1>3, <1>5, OldStaysLast DEF IInv, LastWins
  <2>3. IsLast(seen', {"v", "q"}, config'.verbosity, DEFAULT_VERBOSITY)
    <3>1. seen \in Seq(Option) /\ e.option \in {"v", "q"}
      BY <1>3
    <3>2. IsLast(Append(seen, e), {"v", "q"}, e.value, DEFAULT_VERBOSITY)
      BY <3>1, NewIsLast
    <3>. QED
      BY <1>3, <1>5, <3>2
  <2>4. config'.want_metadata <=> "m" \in Given(seen')
    BY <1>3, <1>5, Zenon DEF IInv, LastWins
  <2>. QED
    BY <1>3, <2>1, <2>2, <2>3, <2>4 DEF LastWins
<1>. QED
  BY <1>3, <1>6, <1>7, <1>8 DEF IInv

LEMMA FreeConfigTyped ==
  ASSUME IInv, FreeConfig PROVE copies' = 0 /\ config' = config_init
BY DEF IInv, UrlHeld, FreeConfig, Returned

LEMMA DefaultsTyped ==
  config_init \in [url : Seq(Char) \cup {NULL}, want_metadata : BOOLEAN,
                   timeout_ms : MIN_TIMEOUT_MS .. MAX_TIMEOUT_MS,
                   verbosity : MIN_VERBOSITY .. MAX_VERBOSITY,
                   ip_mode : {"AUTO", "IPV4", "IPV6"}]
BY RangeAssumption DEF config_init

(* Both ends of config_parse that free, and main's. *)
LEMMA FreedInv ==
  ASSUME IInv, FreeConfig, pc' \in {"refused", "exited"},
         UNCHANGED <<argv, index, pos, saw, seen>>
  PROVE  IInv'
<1>1. copies' = 0 /\ config' = config_init
  BY FreeConfigTyped
<1>2. TypeOK'
  BY <1>1, DefaultsTyped DEF IInv, TypeOK
<1>3. UrlHeld'
  BY <1>1 DEF UrlHeld, config_init
<1>4. LastWins' /\ SeenInv' /\ PlaceInv'
  BY DEF IInv, LastWins, SeenInv, PlaceInv
<1>. QED
  BY <1>2, <1>3, <1>4 DEF IInv

LEMMA AcceptInv == ASSUME IInv, Accept PROVE IInv'
<1>. DEFINE mode == CASE saw = {"4"} -> "IPV4" [] saw = {"6"} -> "IPV6" [] OTHER -> "AUTO"
<1>1. /\ config' = [config EXCEPT !.ip_mode = mode]
      /\ pc = "argument" /\ pc' = "client" /\ config.url # NULL
      /\ UNCHANGED <<argv, index, pos, saw, copies, seen>>
  BY DEF Accept
<1>2. mode \in {"AUTO", "IPV4", "IPV6"}
      /\ (mode = "IPV4" <=> saw = {"4"}) /\ (mode = "IPV6" <=> saw = {"6"})
  OBVIOUS
<1>. HIDE DEF mode
<1>3. /\ config'.url = config.url
      /\ config'.timeout_ms = config.timeout_ms
      /\ config'.verbosity = config.verbosity
      /\ config'.want_metadata = config.want_metadata
      /\ config'.ip_mode = mode
  BY <1>1, ConfigTyped DEF IInv
<1>4. TypeOK'
  <2>1. config' \in [url : Seq(Char) \cup {NULL}, want_metadata : BOOLEAN,
                     timeout_ms : MIN_TIMEOUT_MS .. MAX_TIMEOUT_MS,
                     verbosity : MIN_VERBOSITY .. MAX_VERBOSITY,
                     ip_mode : {"AUTO", "IPV4", "IPV6"}]
    BY <1>1, <1>2, ConfigTyped DEF IInv
  <2>. QED
    BY <1>1, <2>1, Zenon DEF IInv, TypeOK
<1>5. UrlHeld' /\ SeenInv' /\ PlaceInv'
  BY <1>1, <1>3 DEF IInv, UrlHeld, SeenInv, PlaceInv
<1>6. LastWins'
  <2>1. saw = Given(seen) \cap {"4", "6"}
    BY <1>1 DEF IInv, SeenInv
  <2>2. /\ IsLast(seen, {"u"}, config.url, NULL)
        /\ IsLast(seen, {"t"}, config.timeout_ms, DEFAULT_TIMEOUT_MS)
        /\ IsLast(seen, {"v", "q"}, config.verbosity, DEFAULT_VERBOSITY)
        /\ config.want_metadata <=> "m" \in Given(seen)
    BY <1>1, Zenon DEF IInv, LastWins
  <2>. QED
    BY <1>1, <1>2, <1>3, <2>1, <2>2, Zenon DEF LastWins
<1>. QED
  BY <1>4, <1>5, <1>6 DEF IInv

LEMMA NextInv == IInv /\ [Next]_vars => IInv'
<1>. SUFFICES ASSUME IInv, [Next]_vars PROVE IInv'
  OBVIOUS
<1>1. CASE UNCHANGED vars
  BY <1>1 DEF vars, IInv, TypeOK, LastWins, UrlHeld, SeenInv, PlaceInv
<1>2. CASE Refuse
  BY <1>2, FreedInv DEF Refuse
<1>3. CASE ClientReturns
  BY <1>3, FreedInv DEF ClientReturns
<1>. QED
  BY <1>1, <1>2, <1>3, StartGroupInv, EndGroupInv, ReadFlagInv, ReadUrlInv,
     ReadTimeoutInv, ReadVerbosityInv, AcceptInv DEF Next

LEMMA Invariant == Spec => []IInv
BY InitInv, NextInv, PTL DEF Spec

-----------------------------------------------------------------------------
(* The characters of the command line. *)

LEMMA FlatGrows ==
  ASSUME NEW args \in Seq(Seq(Char)), NEW a \in Seq(Char)
  PROVE  /\ Flat(args) \in Seq(Char)
         /\ Flat(Append(args, a)) = Flat(args) \o Undashed(a)
<1>. DEFINE more == Append(args, a)
            s == [i \in 1 .. Len(args) |-> Undashed(args[i])]
            t == [i \in 1 .. Len(more) |-> Undashed(more[i])]
<1>1. \A text \in Seq(Char) : Undashed(text) \in Seq(Char)
  BY HeadTailProperties DEF Undashed, Dashed
<1>2. /\ Len(args) \in Nat /\ Len(more) = Len(args) + 1
      /\ more[Len(args) + 1] = a
      /\ \A i \in 1 .. Len(args) : more[i] = args[i] /\ args[i] \in Seq(Char)
  BY AppendProperties, LenProperties, ElementOfSeq
<1>. HIDE DEF more
<1>3. s \in Seq(Seq(Char)) /\ Len(s) = Len(args)
  BY <1>1, <1>2
<1>4. Undashed(a) \in Seq(Char)
  BY <1>1
<1>. DEFINE x == Undashed(a)
<1>5. t = Append(s, x)
  <2>. HIDE DEF x
  <2>1. Append(s, x) = [i \in 1 .. Len(s) + 1 |-> IF i = Len(s) + 1 THEN x ELSE s[i]]
    BY <1>3
  <2>2. t = [i \in 1 .. Len(args) + 1 |-> Undashed(more[i])]
    BY <1>2
  <2>3. \A i \in 1 .. Len(args) + 1 :
          Undashed(more[i]) = IF i = Len(args) + 1 THEN x ELSE s[i]
    BY <1>2 DEF x
  <2>. QED
    BY <1>3, <2>1, <2>2, <2>3
<1>. HIDE DEF s, t, x
<1>6. FlattenSeq(s) \in Seq(Char) /\ FlattenSeq(t) = FlattenSeq(s) \o x
  BY <1>3, <1>4, <1>5, FlattenTyped, FlattenGrows DEF x
<1>. QED
  BY <1>6, Zenon DEF Flat, s, t, x, more

LEMMA SpelledGrows ==
  ASSUME NEW read \in Seq(Option), NEW e \in Option
  PROVE  /\ Spelled(read) \in Seq(Char)
         /\ Spelled(Append(read, e)) = Spelled(read) \o (<<e.option>> \o e.text)
<1>. DEFINE more == Append(read, e)
            word(o) == <<o.option>> \o o.text
            s == [i \in 1 .. Len(read) |-> word(read[i])]
            t == [i \in 1 .. Len(more) |-> word(more[i])]
<1>1. \A o \in Option : word(o) \in Seq(Char)
  <2>. SUFFICES ASSUME NEW o \in Option PROVE word(o) \in Seq(Char)
    OBVIOUS
  <2>1. o.option \in Char /\ o.text \in Seq(Char)
    BY DEF Option, Char
  <2>2. <<o.option>> \in Seq(Char)
    BY <2>1
  <2>. QED
    BY <2>1, <2>2, ConcatProperties
<1>. HIDE DEF word
<1>2. /\ Len(read) \in Nat /\ Len(more) = Len(read) + 1
      /\ more[Len(read) + 1] = e
      /\ \A i \in 1 .. Len(read) : more[i] = read[i] /\ read[i] \in Option
  BY AppendProperties, LenProperties, ElementOfSeq
<1>. HIDE DEF more
<1>3. s \in Seq(Seq(Char)) /\ Len(s) = Len(read)
  BY <1>1, <1>2
<1>4. word(e) \in Seq(Char)
  BY <1>1
<1>. DEFINE x == word(e)
<1>5. t = Append(s, x)
  <2>. HIDE DEF x
  <2>1. Append(s, x) = [i \in 1 .. Len(s) + 1 |-> IF i = Len(s) + 1 THEN x ELSE s[i]]
    BY <1>3
  <2>2. t = [i \in 1 .. Len(read) + 1 |-> word(more[i])]
    BY <1>2
  <2>3. \A i \in 1 .. Len(read) + 1 :
          word(more[i]) = IF i = Len(read) + 1 THEN x ELSE s[i]
    BY <1>2 DEF x
  <2>. QED
    BY <1>3, <2>1, <2>2, <2>3
<1>. HIDE DEF s, t, x
<1>6. FlattenSeq(s) \in Seq(Char) /\ FlattenSeq(t) = FlattenSeq(s) \o x
  BY <1>3, <1>4, <1>5, FlattenTyped, FlattenGrows DEF x
<1>. QED
  BY <1>6, Zenon DEF Spelled, s, t, x, word, more

(* The arguments before a group or after it, and where the group is.       *)
Passed(k) == Flat(SubSeq(argv, 1, k))

TextInv ==
  /\ NothingSkipped
  /\ index <= Len(argv) + 1
  /\ pc = "group" => Dashed(arg) /\ pos \in 2 .. Len(arg) + 1

LEMMA PassedGrows ==
  ASSUME TypeOK, NEW k \in 1 .. Len(argv)
  PROVE  /\ Passed(k - 1) \in Seq(Char)
         /\ Passed(k) = Passed(k - 1) \o Undashed(argv[k])
<1>. DEFINE args == SubSeq(argv, 1, k - 1)
<1>1. argv \in Seq(Seq(Char)) /\ Len(argv) \in Nat /\ argv[k] \in Seq(Char)
  BY ArgumentTyped, LenProperties, Zenon DEF TypeOK
<1>2. args \in Seq(Seq(Char))
  <2>1. \A i \in 1 .. k - 1 : argv[i] \in Seq(Char)
    BY <1>1, ElementOfSeq
  <2>2. 1 \in Int /\ k - 1 \in Int
    BY <1>1
  <2>. QED
    BY <2>1, <2>2, SubSeqProperties
<1>3. SubSeq(argv, 1, k) = Append(args, argv[k])
  <2>1. SubSeq(argv, 1, k) = args \o <<argv[k]>>
    BY <1>1, SubSeqRecursiveSecond
  <2>. HIDE DEF args
  <2>2. args \o <<argv[k]>> = Append(args, argv[k])
    BY <1>1, <1>2, AppendIsConcat
  <2>. QED
    BY <2>1, <2>2
<1>. HIDE DEF args
<1>4. Flat(args) \in Seq(Char) /\ Flat(Append(args, argv[k])) = Flat(args) \o Undashed(argv[k])
  BY <1>1, <1>2, FlatGrows
<1>. QED
  BY <1>3, <1>4, Zenon DEF Passed, args

(* What is read of a group, its option letter and the rest make the group. *)
LEMMA GroupSplit ==
  ASSUME NEW a \in Seq(Char), Dashed(a), NEW k \in 2 .. Len(a)
  PROVE  /\ SubSeq(a, 2, k - 1) \in Seq(Char)
         /\ SubSeq(a, 2, k) = SubSeq(a, 2, k - 1) \o <<a[k]>>
         /\ SubSeq(a, k + 1, Len(a)) \in Seq(Char)
         /\ Undashed(a) = SubSeq(a, 2, k) \o SubSeq(a, k + 1, Len(a))
         /\ Undashed(a) = SubSeq(a, 2, Len(a))
<1>1. Len(a) \in Nat /\ \A i \in 1 .. Len(a) : a[i] \in Char
  BY LenProperties, ElementOfSeq
<1>2. SubSeq(a, 2, k - 1) \in Seq(Char)
  <2>1. \A i \in 2 .. k - 1 : a[i] \in Char
    BY <1>1
  <2>2. 2 \in Int /\ k - 1 \in Int
    BY <1>1
  <2>. QED
    BY <2>1, <2>2, SubSeqProperties
<1>3. SubSeq(a, k + 1, Len(a)) \in Seq(Char)
  <2>1. \A i \in k + 1 .. Len(a) : a[i] \in Char
    BY <1>1
  <2>2. k + 1 \in Int /\ Len(a) \in Int
    BY <1>1
  <2>. QED
    BY <2>1, <2>2, SubSeqProperties
<1>4. SubSeq(a, 2, k) = SubSeq(a, 2, k - 1) \o <<a[k]>>
  <2>1. 2 \in 1 .. Len(a) /\ k \in 2 .. Len(a)
    BY <1>1
  <2>. QED
    BY <2>1, SubSeqRecursiveSecond
<1>5. SubSeq(a, 2, Len(a)) = SubSeq(a, 2, k) \o SubSeq(a, k + 1, Len(a))
  <2>1. 2 \in 1 .. Len(a) + 1 /\ k \in 2 - 1 .. Len(a) /\ Len(a) \in k .. Len(a)
    BY <1>1
  <2>. QED
    BY <2>1, ConcatAdjacentSubSeq
<1>6. Undashed(a) = SubSeq(a, 2, Len(a))
  BY TailIsSubSeq DEF Undashed, Dashed
<1>. QED
  BY <1>2, <1>3, <1>4, <1>5, <1>6

LEMMA Associative ==
  \A s, t, u \in Seq(Char) : (s \o t) \o u = s \o (t \o u)
BY ConcatAssociative

LEMMA InitText == Init => TextInv
<1>. SUFFICES ASSUME Init PROVE TextInv
  OBVIOUS
<1>1. Spelled(seen) = <<>>
  <2>1. [i \in 1 .. Len(seen) |-> <<seen[i].option>> \o seen[i].text] = <<>>
    BY DEF Init
  <2>. QED
    BY <2>1, FlattenEmpty, Zenon DEF Spelled
<1>2. Flat(SubSeq(argv, 1, index - 1)) = <<>>
  <2>1. SubSeq(argv, 1, index - 1) = <<>>
    BY SubSeqEmpty DEF Init
  <2>2. [i \in 1 .. Len(<<>>) |-> Undashed(<<>>[i])] = <<>>
    OBVIOUS
  <2>. QED
    BY <2>1, <2>2, FlattenEmpty, Zenon DEF Flat
<1>3. index <= Len(argv) + 1
  BY CharAssumption, LenProperties DEF Init
<1>. QED
  BY <1>1, <1>2, <1>3 DEF TextInv, NothingSkipped, Init

LEMMA StartGroupText == ASSUME IInv, TextInv, StartGroup PROVE TextInv'
<1>1. /\ pc = "argument" /\ pc' = "group" /\ pos' = 2
      /\ UNCHANGED <<argv, index, seen>>
      /\ Dashed(arg) /\ Len(arg) > 1 /\ index <= Len(argv)
  BY DEF StartGroup
<1>2. index \in 1 .. Len(argv) /\ TypeOK
  <2>1. index \in Nat \ {0} /\ argv \in Seq(Seq(Char))
    BY Zenon DEF IInv, TypeOK
  <2>. QED
    BY <1>1, <2>1, LenProperties DEF IInv
<1>3. Passed(index - 1) \in Seq(Char) /\ Len(arg) \in Nat
  BY <1>2, PassedGrows, ArgumentTyped, LenProperties DEF arg
<1>4. Spelled(seen) = Passed(index - 1)
  BY <1>1 DEF TextInv, NothingSkipped, Passed
<1>5. SubSeq(arg, 2, 1) = <<>>
  BY SubSeqEmpty
<1>6. Spelled(seen) = Passed(index - 1) \o SubSeq(arg, 2, 1)
  BY <1>3, <1>4, <1>5, ConcatEmptySeq
<1>7. NothingSkipped'
  BY <1>1, <1>6 DEF NothingSkipped, Passed, arg
<1>. QED
  BY <1>1, <1>3, <1>7 DEF TextInv, arg

(* In a group: what the steps that read it start from. *)
LEMMA InGroup ==
  ASSUME IInv, TextInv, pc = "group"
  PROVE  /\ TypeOK /\ index \in 1 .. Len(argv) /\ Len(argv) \in Nat
         /\ arg = argv[index] /\ arg \in Seq(Char) /\ Len(arg) \in Nat
         /\ Dashed(arg) /\ pos \in 2 .. Len(arg) + 1
         /\ Passed(index - 1) \in Seq(Char)
         /\ Passed(index) = Passed(index - 1) \o Undashed(arg)
         /\ seen \in Seq(Option)
         /\ Spelled(seen) = Passed(index - 1) \o SubSeq(arg, 2, pos - 1)
<1>1. TypeOK /\ index \in 1 .. Len(argv) /\ Len(argv) \in Nat
  <2>1. index \in Nat \ {0} /\ argv \in Seq(Seq(Char))
    BY Zenon DEF IInv, TypeOK
  <2>. QED
    BY <2>1, LenProperties DEF IInv, PlaceInv
<1>2. arg = argv[index] /\ arg \in Seq(Char) /\ Len(arg) \in Nat
  BY <1>1, ArgumentTyped, LenProperties DEF arg
<1>3. Dashed(arg) /\ pos \in 2 .. Len(arg) + 1
  BY DEF TextInv
<1>4. Passed(index - 1) \in Seq(Char) /\ Passed(index) = Passed(index - 1) \o Undashed(arg)
  BY <1>1, <1>2, PassedGrows
<1>5. Spelled(seen) = Passed(index - 1) \o SubSeq(arg, 2, pos - 1)
  BY DEF TextInv, NothingSkipped, Passed
<1>. QED
  BY <1>1, <1>2, <1>3, <1>4, <1>5 DEF IInv, SeenInv

LEMMA EndGroupText == ASSUME IInv, TextInv, EndGroup PROVE TextInv'
<1>1. /\ pc = "group" /\ pc' = "argument" /\ pos > Len(arg) /\ index' = index + 1
      /\ UNCHANGED <<argv, seen>>
  BY DEF EndGroup
<1>2. pos - 1 = Len(arg) /\ index' - 1 = index /\ index' <= Len(argv) + 1
  <2>1. /\ index \in 1 .. Len(argv) /\ Len(argv) \in Nat
        /\ pos \in 2 .. Len(arg) + 1 /\ Len(arg) \in Nat
    BY <1>1, InGroup
  <2>. QED
    BY <1>1, <2>1
<1>3. Undashed(arg) = SubSeq(arg, 2, Len(arg))
  BY <1>1, InGroup, TailIsSubSeq DEF Undashed, Dashed
<1>4. Spelled(seen) = Passed(index)
  BY <1>1, <1>2, <1>3, InGroup
<1>5. Spelled(seen') = Flat(SubSeq(argv', 1, index' - 1))
  BY <1>1, <1>2, <1>4 DEF Passed
<1>. QED
  BY <1>1, <1>2, <1>5 DEF TextInv, NothingSkipped

(* The letter and the value of an option come after what was read before.  *)
LEMMA OptionText ==
  ASSUME IInv, TextInv, pc = "group", pos <= Len(arg),
         NEW e \in Option, e.option = arg[pos], seen' = Append(seen, e)
  PROVE  Spelled(seen') = Passed(index - 1) \o (SubSeq(arg, 2, pos) \o e.text)
<1>. DEFINE P == Passed(index - 1)
            D == SubSeq(arg, 2, pos - 1)
            l == <<arg[pos]>>
<1>1. pos \in 2 .. Len(arg) /\ P \in Seq(Char) /\ arg[pos] \in Char
  <2>1. pos \in 2 .. Len(arg)
    BY InGroup
  <2>. QED
    BY <2>1, InGroup, ElementOfSeq
<1>2. D \in Seq(Char) /\ SubSeq(arg, 2, pos) = D \o l
  BY <1>1, InGroup, GroupSplit
<1>3. l \in Seq(Char) /\ e.text \in Seq(Char)
  BY <1>1 DEF Option
<1>4. Spelled(seen') = (P \o D) \o (l \o e.text)
  <2>1. Spelled(Append(seen, e)) = Spelled(seen) \o (<<e.option>> \o e.text)
    BY InGroup, SpelledGrows
  <2>. QED
    BY <2>1, InGroup
<1>. HIDE DEF P, D, l
<1>5. P \o D \in Seq(Char) /\ l \o e.text \in Seq(Char)
  BY <1>1, <1>2, <1>3, ConcatProperties
<1>6. (P \o D) \o (l \o e.text) = P \o (D \o (l \o e.text))
  BY <1>1, <1>2, <1>5, Associative, Zenon
<1>7. D \o (l \o e.text) = (D \o l) \o e.text
  BY <1>2, <1>3, Associative, Zenon
<1>. QED
  BY <1>2, <1>4, <1>6, <1>7 DEF P

LEMMA ReadFlagText == ASSUME IInv, TextInv, ReadFlag PROVE TextInv'
<1>. DEFINE e == [option |-> arg[pos], text |-> <<>>, value |-> 0]
<1>1. /\ pc = "group" /\ pc' = "group" /\ pos <= Len(arg) /\ pos' = pos + 1
      /\ seen' = Append(seen, e)
      /\ UNCHANGED <<argv, index>>
      /\ e \in Option /\ e.option = arg[pos] /\ e.text = <<>>
  BY DEF ReadFlag, Read, Option
<1>. HIDE DEF e
<1>2. pos' \in 2 .. Len(arg) + 1 /\ pos' - 1 = pos /\ pos \in 2 .. Len(arg)
  <2>1. pos \in 2 .. Len(arg) + 1 /\ Len(arg) \in Nat
    BY <1>1, InGroup
  <2>. QED
    BY <1>1, <2>1
<1>3. SubSeq(arg, 2, pos) \in Seq(Char)
  <2>1. arg \in Seq(Char) /\ Len(arg) \in Nat
    BY <1>1, InGroup
  <2>2. \A i \in 1 .. Len(arg) : arg[i] \in Char
    BY <2>1, ElementOfSeq
  <2>3. \A i \in 2 .. pos : i \in 1 .. Len(arg)
    BY <1>2, <2>1
  <2>4. \A i \in 2 .. pos : arg[i] \in Char
    BY <2>2, <2>3
  <2>5. 2 \in Int /\ pos \in Int
    BY <1>2, <2>1
  <2>. QED
    BY <2>4, <2>5, SubSeqProperties
<1>4. Spelled(seen') = Passed(index - 1) \o SubSeq(arg, 2, pos)
  BY <1>1, <1>3, OptionText, ConcatEmptySeq
<1>5. NothingSkipped'
  BY <1>1, <1>2, <1>4 DEF NothingSkipped, Passed, arg
<1>. QED
  BY <1>1, <1>2, <1>5, InGroup DEF TextInv, arg

(* A value is the rest of its argument or all of the next one. *)
LEMMA ValueText ==
  ASSUME IInv, TextInv, NEW letter \in Valued, NEW value \in Int \cup Seq(Char),
         AtOption(letter), TakeValue(letter, value)
  PROVE  TextInv'
<1>. DEFINE e == [option |-> letter, text |-> OptionValue, value |-> value]
<1>1. /\ pc = "group" /\ pc' = "argument" /\ pos <= Len(arg)
      /\ arg[pos] = letter /\ HasValue
      /\ seen' = Append(seen, e) /\ index' = LastIndex + 1 /\ argv' = argv
  BY DEF AtOption, TakeValue, Read
<1>2. pos \in 2 .. Len(arg) /\ index \in 1 .. Len(argv) /\ TypeOK
  BY <1>1, InGroup
<1>3. OptionValue \in Seq(Char)
  BY <1>1, <1>2, ValueTyped
<1>4. e \in Option /\ e.option = arg[pos] /\ e.text = OptionValue
  BY <1>1, <1>3 DEF Option
<1>. HIDE DEF e
<1>5. Spelled(seen') = Passed(index - 1) \o (SubSeq(arg, 2, pos) \o OptionValue)
  BY <1>1, <1>4, OptionText
<1>6. CASE Attached
  <2>1. OptionValue = SubSeq(arg, pos + 1, Len(arg)) /\ index' = index + 1
    BY <1>1, <1>6 DEF OptionValue, LastIndex
  <2>2. Undashed(arg) = SubSeq(arg, 2, pos) \o OptionValue
    BY <1>1, <1>2, <2>1, InGroup, GroupSplit
  <2>3. Spelled(seen') = Passed(index)
    BY <1>1, <1>5, <2>2, InGroup
  <2>4. index' - 1 = index /\ index' <= Len(argv) + 1
    BY <1>2, <2>1, InGroup
  <2>5. Spelled(seen') = Flat(SubSeq(argv', 1, index' - 1))
    BY <1>1, <2>3, <2>4 DEF Passed
  <2>. QED
    BY <1>1, <2>4, <2>5 DEF TextInv, NothingSkipped
<1>7. CASE ~Attached
  <2>. DEFINE k == index + 1
  <2>1. OptionValue = argv[k] /\ index' = k + 1
    BY <1>1, <1>7 DEF OptionValue, LastIndex, ValueIndex
  <2>2. k \in 1 .. Len(argv) /\ ~Dashed(argv[k]) /\ k - 1 = index
    BY <1>1, <1>2, <1>7, InGroup DEF HasValue
  <2>. HIDE DEF k
  <2>3. pos = Len(arg)
    BY <1>1, <1>2, <1>7, InGroup DEF Attached
  <2>4. SubSeq(arg, 2, pos) = Undashed(arg)
    BY <1>1, <1>2, <2>3, InGroup, GroupSplit
  <2>5. Undashed(argv[k]) = OptionValue
    BY <2>1, <2>2 DEF Undashed
  <2>6. Passed(k) = Passed(index) \o OptionValue
    BY <1>2, <2>2, <2>5, PassedGrows
  <2>7. Undashed(arg) \in Seq(Char) /\ Passed(index - 1) \in Seq(Char)
        /\ Passed(index) = Passed(index - 1) \o Undashed(arg)
    <3>1. arg \in Seq(Char) /\ Dashed(arg)
      BY <1>1, InGroup
    <3>2. Undashed(arg) \in Seq(Char)
      BY <3>1, HeadTailProperties DEF Undashed, Dashed
    <3>. QED
      BY <1>1, <3>2, InGroup
  <2>8. Spelled(seen') = Passed(k)
    <3>1. Spelled(seen') = Passed(index - 1) \o (Undashed(arg) \o OptionValue)
      BY <1>5, <2>4, Zenon
    <3>2. (Passed(index - 1) \o Undashed(arg)) \o OptionValue
            = Passed(index - 1) \o (Undashed(arg) \o OptionValue)
      BY <1>3, <2>7, Associative, Zenon
    <3>. QED
      BY <2>6, <2>7, <3>1, <3>2, Zenon
  <2>9. index' - 1 = k /\ index' <= Len(argv) + 1
    <3>1. Len(argv) \in Nat
      BY <1>1, InGroup
    <3>. QED
      BY <2>1, <2>2, <3>1
  <2>10. Spelled(seen') = Flat(SubSeq(argv', 1, index' - 1))
    BY <1>1, <2>8, <2>9 DEF Passed
  <2>. QED
    BY <1>1, <2>9, <2>10 DEF TextInv, NothingSkipped
<1>. QED
  BY <1>6, <1>7

LEMMA ValuesText ==
  ASSUME IInv, TextInv, ReadUrl \/ ReadTimeout \/ ReadVerbosity PROVE TextInv'
<1>1. CASE ReadUrl
  <2>1. pc = "group" /\ pos <= Len(arg) /\ HasValue
    BY <1>1 DEF ReadUrl, AtOption
  <2>2. OptionValue \in Seq(Char)
    BY <2>1, InGroup, ValueTyped
  <2>. QED
    BY <1>1, <2>2, ValueText DEF ReadUrl, Valued
<1>2. CASE ReadTimeout
  <2>1. NumberValue(OptionValue) \in Int
    BY <1>2, RangeAssumption DEF ReadTimeout, GoodTimeout, parse_bounded_int
  <2>. QED
    BY <1>2, <2>1, ValueText DEF ReadTimeout, Valued
<1>3. CASE ReadVerbosity
  <2>1. NumberValue(OptionValue) \in Int
    BY <1>3, RangeAssumption DEF ReadVerbosity, GoodVerbosity, parse_bounded_int
  <2>. QED
    BY <1>3, <2>1, ValueText DEF ReadVerbosity, Valued
<1>. QED
  BY <1>1, <1>2, <1>3

LEMMA NextText == IInv /\ TextInv /\ [Next]_vars => TextInv'
<1>. SUFFICES ASSUME IInv, TextInv, [Next]_vars PROVE TextInv'
  OBVIOUS
<1>1. CASE UNCHANGED vars
  BY <1>1 DEF vars, TextInv, NothingSkipped, arg
<1>2. CASE Refuse
  BY <1>2 DEF Refuse, TextInv, NothingSkipped
<1>3. CASE ClientReturns
  BY <1>3 DEF ClientReturns, TextInv, NothingSkipped
<1>4. CASE Accept
  BY <1>4 DEF Accept, TextInv, NothingSkipped
<1>. QED
  BY <1>1, <1>2, <1>3, <1>4, StartGroupText, EndGroupText, ReadFlagText, ValuesText DEF Next

-----------------------------------------------------------------------------
(* What follows for every behaviour. *)

(* Every variable keeps its type: no timeout or verbosity out of range     *)
(* reaches the client (config.c:136-146).                                  *)
THEOREM TypeCorrect == Spec => []TypeOK
<1>1. IInv => TypeOK
  BY DEF IInv
<1>. QED
  BY <1>1, Invariant, PTL

(* The last of several options counts, on every command line               *)
(* (config.c:193-198).                                                     *)
THEOREM LastAlwaysWins == Spec => []LastWins
<1>1. IInv => LastWins
  BY DEF IInv
<1>. QED
  BY <1>1, Invariant, PTL

(* Repeated -u and every refusal: no copy of a URL is leaked               *)
(* (config.c:80-87, config.c:304-323).                                     *)
THEOREM UrlAlwaysHeld == Spec => []UrlHeld
<1>1. IInv => UrlHeld
  BY DEF IInv
<1>. QED
  BY <1>1, Invariant, PTL

(* Grouped, attached or separate: every character read of the command line *)
(* is read once and as what it is (config.c:103-117, config.c:301-318).    *)
THEOREM NothingIsSkipped == Spec => []NothingSkipped
<1>1. TextInv => NothingSkipped
  BY DEF TextInv
<1>. QED
  BY <1>1, InitText, NextText, Invariant, PTL DEF Spec
=============================================================================
