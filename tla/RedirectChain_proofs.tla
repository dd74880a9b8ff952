------------------------ MODULE RedirectChain_proofs ------------------------
(***************************************************************************)
(* For every alphabet, every text and every chain of redirects: the URL    *)
(* the client acts on is well formed and is what the written-out location  *)
(* would give, no string of a URL is leaked, and each request fits.        *)
(***************************************************************************)
EXTENDS RedirectChain, FiniteSetTheorems, SequenceTheorems, TLAPS

-----------------------------------------------------------------------------
(* The searches of url.c. *)

LEMMA IntervalSize ==
  ASSUME NEW L \in Nat PROVE IsFiniteSet(1 .. L) /\ Cardinality(1 .. L) = L
BY FS_Interval

(* A set of positions closed downwards is an initial interval, and its     *)
(* size is where it ends.                                                  *)
LEMMA InitialInterval ==
  ASSUME NEW L \in Nat, NEW A \in SUBSET (1 .. L), \A n \in A : 1 .. n \subseteq A
  PROVE  Cardinality(A) \in 0 .. L /\ A = 1 .. Cardinality(A)
<1>1. IsFiniteSet(1 .. L) /\ Cardinality(1 .. L) = L
  BY IntervalSize
<1>2. IsFiniteSet(A) /\ Cardinality(A) <= L
  BY <1>1, FS_Subset
<1>3. Cardinality(A) \in 0 .. L
  BY <1>2, FS_CardinalityType
<1>4. A \subseteq 1 .. Cardinality(A)
  <2>. SUFFICES ASSUME NEW n \in A PROVE n <= Cardinality(A)
    BY <1>3
  <2>1. 1 .. n \in SUBSET A
    OBVIOUS
  <2>2. Cardinality(1 .. n) <= Cardinality(A)
    BY <1>2, <2>1, FS_Subset
  <2>3. Cardinality(1 .. n) = n
    BY FS_Interval
  <2>. QED
    BY <2>2, <2>3
<1>5. IsFiniteSet(1 .. Cardinality(A)) /\ Cardinality(1 .. Cardinality(A)) = Cardinality(A)
  BY <1>3, FS_Interval
<1>6. A = 1 .. Cardinality(A)
  BY <1>4, <1>5, FS_Subset
<1>. QED
  BY <1>3, <1>6

(* SpanLen stops at the first character of C, or at the end. *)
LEMMA SpanStops ==
  ASSUME NEW T, NEW s \in Seq(T), NEW C
  PROVE  /\ SpanLen(s, C) \in 0 .. Len(s)
         /\ \A i \in 1 .. SpanLen(s, C) : s[i] \notin C
         /\ SpanLen(s, C) < Len(s) => s[SpanLen(s, C) + 1] \in C
<1>. DEFINE A == {n \in 1 .. Len(s) : \A i \in 1 .. n : s[i] \notin C}
            k == Cardinality(A)
<1>1. Len(s) \in Nat
  BY LenProperties
<1>2. A \in SUBSET (1 .. Len(s)) /\ \A n \in A : 1 .. n \subseteq A
  BY <1>1
<1>3. k \in 0 .. Len(s) /\ A = 1 .. k
  <2>. HIDE DEF A
  <2>. QED
    BY <1>1, <1>2, InitialInterval
<1>4. \A i \in 1 .. k : s[i] \notin C
  BY <1>3
<1>5. ASSUME k < Len(s) PROVE s[k + 1] \in C
  <2>1. k + 1 \in 1 .. Len(s) /\ k + 1 \notin A
    <3>. HIDE DEF A
    <3>. QED
      BY <1>1, <1>3, <1>5
  <2>2. \E i \in 1 .. k + 1 : s[i] \in C
    <3>. HIDE DEF k
    <3>. QED
      BY <2>1
  <2>. QED
    <3>. HIDE DEF k
    <3>. QED
      BY <1>3, <1>4, <2>2
<1>6. SpanLen(s, C) = k
  BY DEF SpanLen
<1>. HIDE DEF k
<1>. QED
  BY <1>3, <1>4, <1>5, <1>6

LEMMA BeforeStops ==
  ASSUME NEW T, NEW s \in Seq(T), NEW C
  PROVE  /\ Before(s, C) \in Seq(T)
         /\ Len(Before(s, C)) \in 0 .. Len(s)
         /\ \A i \in 1 .. Len(Before(s, C)) :
              Before(s, C)[i] = s[i] /\ s[i] \in T /\ s[i] \notin C
         /\ Before(s, C) = <<>> /\ s # <<>> => s[1] \in C
<1>1. Len(s) \in Nat /\ \A i \in 1 .. Len(s) : s[i] \in T
  BY LenProperties, ElementOfSeq
<1>2. SpanLen(s, C) \in 0 .. Len(s)
  BY SpanStops
<1>3. /\ Before(s, C) \in Seq(T)
      /\ Len(Before(s, C)) = SpanLen(s, C)
      /\ \A i \in 1 .. SpanLen(s, C) : Before(s, C)[i] = s[i]
  BY <1>1, <1>2, SubSeqProperties DEF Before
<1>4. ASSUME Before(s, C) = <<>>, s # <<>> PROVE s[1] \in C
  <2>1. SpanLen(s, C) = 0 /\ Len(s) > 0
    BY <1>3, <1>4, EmptySeq
  <2>. QED
    BY <2>1, SpanStops
<1>. QED
  BY <1>1, <1>2, <1>3, <1>4, SpanStops

LEMMA FromStarts ==
  ASSUME NEW T, NEW s \in Seq(T), NEW C
  PROVE  /\ From(s, C) \in Seq(T)
         /\ From(s, C) # <<>> => From(s, C)[1] \in C
         /\ \A i \in 1 .. Len(From(s, C)) :
              \E j \in 1 .. Len(s) : From(s, C)[i] = s[j]
<1>1. Len(s) \in Nat /\ \A i \in 1 .. Len(s) : s[i] \in T
  BY LenProperties, ElementOfSeq
<1>2. SpanLen(s, C) \in 0 .. Len(s)
  BY SpanStops
<1>3. /\ From(s, C) \in Seq(T)
      /\ Len(From(s, C)) = Len(s) - SpanLen(s, C)
      /\ \A i \in 1 .. Len(s) - SpanLen(s, C) : From(s, C)[i] = s[SpanLen(s, C) + i]
  <2>1. \A i \in SpanLen(s, C) + 1 .. Len(s) : s[i] \in T
    BY <1>1, <1>2
  <2>2. SpanLen(s, C) + 1 \in Int /\ Len(s) \in Int
    BY <1>1, <1>2
  <2>. QED
    BY <1>1, <1>2, <2>1, <2>2, SubSeqProperties DEF From
<1>4. ASSUME From(s, C) # <<>> PROVE From(s, C)[1] \in C
  <2>1. SpanLen(s, C) < Len(s)
    BY <1>1, <1>2, <1>3, <1>4, EmptySeq
  <2>. QED
    BY <1>1, <1>2, <1>3, <2>1, SpanStops
<1>5. \A i \in 1 .. Len(From(s, C)) : \E j \in 1 .. Len(s) : From(s, C)[i] = s[j]
  <2>. SUFFICES ASSUME NEW i \in 1 .. Len(From(s, C))
                PROVE  /\ SpanLen(s, C) + i \in 1 .. Len(s)
                       /\ From(s, C)[i] = s[SpanLen(s, C) + i]
    OBVIOUS
  <2>. QED
    BY <1>1, <1>2, <1>3
<1>. QED
  BY <1>3, <1>4, <1>5

LEMMA Retyped ==
  ASSUME NEW T, NEW s \in Seq(T), NEW U, \A i \in 1 .. Len(s) : s[i] \in U
  PROVE  s \in Seq(U)
<1>1. Len(s) \in Nat /\ s = SubSeq(s, 1, Len(s))
  BY LenProperties, SubSeqFull
<1>2. SubSeq(s, 1, Len(s)) \in Seq(U)
  BY <1>1, SubSeqProperties
<1>. QED
  BY <1>1, <1>2

-----------------------------------------------------------------------------
(* url_parse. *)

(* What is left of a text before its fragment has no "#" in any part.      *)
LEMMA PartsTyped ==
  ASSUME NEW text \in Text
  PROVE  /\ WithoutFragment(text.rest) \in Seq(Char)
         /\ ~Has(WithoutFragment(text.rest), {"#"})
         /\ Authority(text) \in Seq(Char)
         /\ HostOf(Authority(text)) \in Seq(Char)
         /\ PortOf(Authority(text)) \in Seq(Char)
         /\ Target(text) \in Seq(Char)
         /\ ~Has(Target(text), {"#"})
         /\ Target(text) # <<>> => Target(text)[1] \in {"/", "?"}
<1>. DEFINE s == WithoutFragment(text.rest)
<1>1. text.rest \in Seq(Char)
  BY DEF Text
<1>2. s \in Seq(Char) /\ \A i \in 1 .. Len(s) : s[i] # "#"
  BY <1>1, BeforeStops DEF WithoutFragment
<1>3. Authority(text) \in Seq(Char)
  BY <1>2, BeforeStops DEF Authority
<1>4. HostOf(Authority(text)) \in Seq(Char) /\ PortOf(Authority(text)) \in Seq(Char)
  BY <1>3, BeforeStops, FromStarts DEF HostOf, PortOf
<1>5. /\ Target(text) \in Seq(Char)
      /\ \A i \in 1 .. Len(Target(text)) : \E j \in 1 .. Len(s) : Target(text)[i] = s[j]
      /\ Target(text) # <<>> => Target(text)[1] \in {"/", "?"}
  <2>. HIDE DEF s
  <2>1. Target(text) = From(s, {"/", "?"})
    BY DEF Target, s
  <2>. QED
    BY <1>2, <2>1, FromStarts
<1>6. ~Has(Target(text), {"#"})
  BY <1>2, <1>5 DEF Has
<1>7. ~Has(s, {"#"})
  BY <1>2 DEF Has
<1>. QED
  BY <1>2, <1>3, <1>4, <1>5, <1>6, <1>7

(* A host that passes is made of plain characters and digits. *)
LEMMA HostPasses ==
  ASSUME NEW host \in Seq(Char), validate_host_part(host)
  PROVE  HostOk(host)
<1>1. host # <<>> /\ \A i \in 1 .. Len(host) : host[i] \notin Blank \cup Barred \cup Delimiter
  BY DEF validate_host_part, Has
<1>2. \A i \in 1 .. Len(host) : host[i] \in Char
  BY ElementOfSeq
<1>. QED
  BY <1>1, <1>2 DEF HostOk, Char

LEMMA PortPasses ==
  ASSUME NEW port \in Seq(Char), validate_port_part(port)
  PROVE  PortOk(port)
<1>1. \A i \in 1 .. Len(port) : port[i] \in DOMAIN Digit
  BY DEF validate_port_part
<1>2. port \in Seq(DOMAIN Digit)
  BY <1>1, Retyped
<1>. QED
  BY <1>2 DEF validate_port_part, PortOk

(* The target of a request line. *)
LEMMA TargetBuilt ==
  ASSUME NEW target \in Seq(Char), ~Has(target, Blank \cup {"#"}),
         target # <<>> => target[1] \in {"/", "?"}
  PROVE  build_path_query(target) \in Seq(Char) /\ TargetOk(build_path_query(target))
<1>0. "/" \in Char /\ "/" \notin Blank
  BY CharAssumption DEF Char, Delimiter
<1>1. <<"/">> \in Seq(Char) /\ Len(<<"/">>) = 1 /\ <<"/">>[1] = "/"
  BY <1>0
<1>2. CASE target = <<>>
  BY <1>0, <1>1, <1>2 DEF build_path_query, TargetOk, Has
<1>3. CASE target # <<>> /\ Head(target) = "?"
  <2>1. build_path_query(target) = <<"/">> \o target
    BY <1>3 DEF build_path_query
  <2>2. /\ <<"/">> \o target \in Seq(Char)
        /\ Len(<<"/">> \o target) = 1 + Len(target)
        /\ \A i \in 1 .. 1 + Len(target) :
             (<<"/">> \o target)[i] = IF i <= 1 THEN <<"/">>[i] ELSE target[i - 1]
    BY <1>1, ConcatProperties
  <2>3. Len(target) \in Nat
    BY LenProperties
  <2>4. (<<"/">> \o target)[1] = "/" /\ <<"/">> \o target # <<>>
    BY <1>1, <2>2, <2>3
  <2>5. ~Has(<<"/">> \o target, Blank \cup {"#"})
    BY <1>0, <1>1, <2>2, <2>3 DEF Has
  <2>. QED
    BY <2>1, <2>2, <2>4, <2>5 DEF TargetOk
<1>4. CASE target # <<>> /\ Head(target) # "?"
  <2>1. build_path_query(target) = target /\ Head(target) = target[1]
    BY <1>4 DEF build_path_query
  <2>. QED
    BY <1>4, <2>1 DEF TargetOk
<1>. QED
  BY <1>2, <1>3, <1>4

(* What url_parse accepts it turns into a well-formed URL. *)
LEMMA ParsedUrl ==
  ASSUME NEW text \in Text, Parses(text)
  PROVE  url_parse(text) \in UrlType /\ UrlOk(url_parse(text))
<1>. DEFINE authority == Authority(text)
            port == url_parse(text).port
<1>1. text.scheme \in Scheme /\ ValidAuthority(authority) /\ ~Has(Target(text), Blank)
  BY DEF Parses
<1>2. HostOf(authority) \in Seq(Char) /\ HostOk(HostOf(authority))
  BY <1>1, PartsTyped, HostPasses DEF ValidAuthority
<1>3. port \in Seq(Char) /\ PortOk(port)
  <2>1. CASE PortOf(authority) = <<>>
    <3>1. port = DefaultPort[text.scheme]
      BY <2>1 DEF url_parse
    <3>2. DefaultPort[text.scheme] \in Seq(DOMAIN Digit)
      BY <1>1, PortAssumption
    <3>3. DefaultPort[text.scheme] \in Seq(Char)
      BY <3>2, SeqMonotonic DEF Char
    <3>. QED
      BY <1>1, <3>1, <3>3, DefaultPortAssumption, PortPasses
  <2>2. CASE PortOf(authority) # <<>>
    <3>1. port = Tail(PortOf(authority))
      BY <2>2 DEF url_parse
    <3>2. Tail(PortOf(authority)) \in Seq(Char)
      BY <2>2, PartsTyped, HeadTailProperties
    <3>3. validate_port_part(Tail(PortOf(authority)))
      BY <1>1, <2>2 DEF ValidAuthority
    <3>. QED
      BY <3>1, <3>2, <3>3, PortPasses
  <2>. QED
    BY <2>1, <2>2
<1>4. build_path_query(Target(text)) \in Seq(Char) /\ TargetOk(build_path_query(Target(text)))
  <2>1. ~Has(Target(text), Blank \cup {"#"})
    BY <1>1, PartsTyped DEF Has
  <2>. QED
    BY <2>1, PartsTyped, TargetBuilt
<1>5. url_parse(text) = [scheme |-> text.scheme, host |-> HostOf(authority), port |-> port,
                         path_query |-> build_path_query(Target(text)),
                         use_tls |-> text.scheme = "https"]
  BY DEF url_parse
<1>. HIDE DEF port, authority
<1>6. url_parse(text) \in UrlType
  BY <1>1, <1>2, <1>3, <1>4, <1>5 DEF UrlType
<1>7. UrlOk(url_parse(text))
  <2>1. /\ url_parse(text).host = HostOf(authority)
        /\ url_parse(text).port = port
        /\ url_parse(text).path_query = build_path_query(Target(text))
        /\ url_parse(text).scheme = text.scheme
    BY <1>5
  <2>2. url_parse(text).use_tls = (text.scheme = "https")
    BY DEF url_parse
  <2>. QED
    BY <1>2, <1>3, <1>4, <2>1, <2>2, Zenon DEF UrlOk
<1>. QED
  BY <1>6, <1>7

-----------------------------------------------------------------------------
(* url_resolve_redirect. *)

(* The kept directory is not empty and lies within the target. *)
LEMMA DirectoryWithin ==
  ASSUME NEW path_query \in Seq(Char), path_query # <<>>
  PROVE  current_directory_length(path_query) \in 1 .. Len(path_query)
<1>. DEFINE path == Before(path_query, {"?"})
            len == Cardinality({n \in 1 .. Len(path) :
                                  \E i \in n .. Len(path) : path[i] = "/"})
<1>1. Len(path_query) \in Nat \ {0}
  BY EmptySeq
<1>2. Len(path) \in 0 .. Len(path_query)
  BY BeforeStops
<1>3. len \in 0 .. Len(path)
  <2>. HIDE DEF path
  <2>1. Len(path) \in Nat
    BY <1>1, <1>2
  <2>2. IsFiniteSet(1 .. Len(path)) /\ Cardinality(1 .. Len(path)) = Len(path)
    BY <2>1, IntervalSize
  <2>. DEFINE D == {n \in 1 .. Len(path) : \E i \in n .. Len(path) : path[i] = "/"}
  <2>3. D \in SUBSET (1 .. Len(path))
    OBVIOUS
  <2>. HIDE DEF D
  <2>4. IsFiniteSet(D) /\ Cardinality(D) <= Len(path)
    BY <2>2, <2>3, FS_Subset
  <2>5. Cardinality(D) \in Nat
    BY <2>4, FS_CardinalityType
  <2>6. Cardinality(D) \in 0 .. Len(path)
    BY <2>1, <2>4, <2>5
  <2>. QED
    BY <2>6 DEF D
<1>4. current_directory_length(path_query) = IF len = 0 THEN 1 ELSE len
  BY DEF current_directory_length
<1>. QED
  <2>. HIDE DEF path, len
  <2>. QED
    BY <1>1, <1>2, <1>3, <1>4

(* Two texts without blanks and fragments make one, and it starts as the   *)
(* first of them starts.                                                   *)
LEMMA Joined ==
  ASSUME NEW s \in Seq(Char), NEW t \in Seq(Char), TargetOk(s),
         ~Has(t, Blank \cup {"#"})
  PROVE  s \o t \in Seq(Char) /\ TargetOk(s \o t)
<1>1. Len(s) \in Nat \ {0} /\ Len(t) \in Nat
  BY EmptySeq, LenProperties DEF TargetOk
<1>2. /\ s \o t \in Seq(Char)
      /\ Len(s \o t) = Len(s) + Len(t)
      /\ \A i \in 1 .. Len(s) + Len(t) :
           (s \o t)[i] = IF i <= Len(s) THEN s[i] ELSE t[i - Len(s)]
  BY ConcatProperties
<1>3. s \o t # <<>> /\ (s \o t)[1] = "/"
  BY <1>1, <1>2, EmptySeq DEF TargetOk
<1>4. ~Has(s \o t, Blank \cup {"#"})
  BY <1>1, <1>2 DEF TargetOk, Has
<1>. QED
  BY <1>2, <1>3, <1>4 DEF TargetOk

(* A prefix of a target is one, unless it is empty. *)
LEMMA Prefixes ==
  ASSUME NEW s \in Seq(Char), TargetOk(s), NEW n \in 1 .. Len(s)
  PROVE  SubSeq(s, 1, n) \in Seq(Char) /\ TargetOk(SubSeq(s, 1, n))
<1>1. Len(s) \in Nat /\ \A i \in 1 .. n : s[i] \in Char
  BY LenProperties, ElementOfSeq
<1>2. /\ SubSeq(s, 1, n) \in Seq(Char)
      /\ Len(SubSeq(s, 1, n)) = n
      /\ \A i \in 1 .. n : SubSeq(s, 1, n)[i] = s[i]
  BY <1>1, SubSeqProperties
<1>. QED
  BY <1>1, <1>2, EmptySeq DEF TargetOk, Has

(* The path that a relative location leads to. *)
LEMMA RelativePath ==
  ASSUME NEW path_query \in Seq(Char), TargetOk(path_query),
         NEW location \in Seq(Char), location # <<>>,
         ~Has(location, Blank \cup {"#"})
  PROVE  /\ build_redirect_path(path_query, location) \in Seq(Char)
         /\ TargetOk(build_redirect_path(path_query, location))
<1>1. Head(location) = location[1]
  OBVIOUS
<1>2. CASE Head(location) = "/"
  <2>1. build_redirect_path(path_query, location) = location
    BY <1>2 DEF build_redirect_path
  <2>. QED
    BY <1>1, <1>2, <2>1 DEF TargetOk
<1>3. CASE Head(location) = "?"
  <2>1. build_redirect_path(path_query, location) = Before(path_query, {"?"}) \o location
    BY <1>3 DEF build_redirect_path
  <2>2. SpanLen(path_query, {"?"}) \in 1 .. Len(path_query)
    BY SpanStops, EmptySeq DEF TargetOk
  <2>. QED
    BY <2>1, <2>2, Prefixes, Joined DEF Before
<1>4. CASE Head(location) \notin {"/", "?"}
  <2>1. build_redirect_path(path_query, location) =
          SubSeq(path_query, 1, current_directory_length(path_query)) \o location
    BY <1>4 DEF build_redirect_path
  <2>2. current_directory_length(path_query) \in 1 .. Len(path_query)
    BY DirectoryWithin DEF TargetOk
  <2>. QED
    BY <2>1, <2>2, Prefixes, Joined
<1>. QED
  BY <1>2, <1>3, <1>4

(* A redirect from a well-formed URL leads to a well-formed URL. *)
LEMMA ResolvedUrl ==
  ASSUME NEW base \in UrlType, UrlOk(base), NEW text \in Text, Resolves(text)
  PROVE  /\ url_resolve_redirect(base, text) \in UrlType
         /\ UrlOk(url_resolve_redirect(base, text))
<1>1. CASE text.scheme \in Scheme
  <2>1. Parses(text)
    BY <1>1 DEF Resolves, Scheme
  <2>. QED
    BY <1>1, <2>1, ParsedUrl DEF url_resolve_redirect
<1>2. CASE text.scheme \notin Scheme
  <2>. DEFINE location == WithoutFragment(text.rest)
              path == build_redirect_path(base.path_query, location)
  <2>1. location \in Seq(Char) /\ location # <<>> /\ ~Has(location, Blank \cup {"#"})
    BY <1>2, PartsTyped DEF Resolves, Parses, Has
  <2>2. base.path_query \in Seq(Char) /\ TargetOk(base.path_query)
    BY DEF UrlType, UrlOk
  <2>3. path \in Seq(Char) /\ TargetOk(path)
    <3>. HIDE DEF location
    <3>. QED
      BY <2>1, <2>2, RelativePath
  <2>4. url_resolve_redirect(base, text) = [base EXCEPT !.path_query = path]
    BY <1>2 DEF url_resolve_redirect
  <2>. HIDE DEF path
  <2>5. [base EXCEPT !.path_query = path] \in UrlType
    BY <2>3 DEF UrlType
  <2>6. UrlOk([base EXCEPT !.path_query = path])
    <3>. DEFINE url == [base EXCEPT !.path_query = path]
    <3>1. /\ url.host = base.host
          /\ url.port = base.port
          /\ url.scheme = base.scheme
          /\ url.use_tls = base.use_tls
          /\ url.path_query = path
      BY DEF UrlType
    <3>. HIDE DEF url
    <3>2. UrlOk(url)
      BY <2>3, <3>1, Zenon DEF UrlOk
    <3>. QED
      BY <3>2 DEF url
  <2>. QED
    BY <2>4, <2>5, <2>6
<1>. QED
  BY <1>1, <1>2

-----------------------------------------------------------------------------
(* Cutting and joining texts. *)

(* Where a search stops is determined by what it finds there. *)
LEMMA SpanIs ==
  ASSUME NEW T, NEW s \in Seq(T), NEW C, NEW k \in 0 .. Len(s),
         \A i \in 1 .. k : s[i] \notin C,
         k < Len(s) => s[k + 1] \in C
  PROVE  SpanLen(s, C) = k
<1>. DEFINE j == SpanLen(s, C)
<1>1. /\ j \in 0 .. Len(s)
      /\ \A i \in 1 .. j : s[i] \notin C
      /\ j < Len(s) => s[j + 1] \in C
  BY SpanStops
<1>2. Len(s) \in Nat
  BY LenProperties
<1>. HIDE DEF j
<1>3. ASSUME j < k PROVE FALSE
  <2>1. j < Len(s) /\ j + 1 \in 1 .. k
    BY <1>1, <1>2, <1>3
  <2>. QED
    BY <1>1, <2>1
<1>4. ASSUME k < j PROVE FALSE
  <2>1. k < Len(s) /\ k + 1 \in 1 .. j
    BY <1>1, <1>2, <1>4
  <2>. QED
    BY <1>1, <2>1
<1>5. j = k
  BY <1>1, <1>2, <1>3, <1>4
<1>. QED
  BY <1>5 DEF j

(* A text is cut where the first character searched for is. *)
LEMMA Cut ==
  ASSUME NEW T, NEW s \in Seq(T), NEW t \in Seq(T), NEW C,
         ~Has(s, C), t # <<>> => t[1] \in C
  PROVE  Before(s \o t, C) = s /\ From(s \o t, C) = t
<1>. DEFINE u == s \o t
<1>1. Len(s) \in Nat /\ Len(t) \in Nat
  BY LenProperties
<1>2. /\ u \in Seq(T)
      /\ Len(u) = Len(s) + Len(t)
      /\ \A i \in 1 .. Len(s) + Len(t) : u[i] = IF i <= Len(s) THEN s[i] ELSE t[i - Len(s)]
  BY ConcatProperties
<1>3. t # <<>> => Len(t) > 0
  BY <1>1, EmptySeq
<1>4. SubSeq(u, 1, Len(s)) = s /\ SubSeq(u, Len(s) + 1, Len(u)) = t
  <2>. DEFINE v == SubSeq(u, 1, Len(s))
              w == SubSeq(u, Len(s) + 1, Len(u))
  <2>1. \A i \in 1 .. Len(u) : u[i] \in T
    BY <1>2, ElementOfSeq
  <2>. HIDE DEF u
  <2>2. \A i \in 1 .. Len(s) : u[i] \in T
    BY <1>1, <1>2, <2>1
  <2>3. \A i \in Len(s) + 1 .. Len(u) : u[i] \in T
    BY <1>1, <1>2, <2>1
  <2>4. /\ v \in Seq(T)
        /\ Len(v) = IF 1 <= Len(s) THEN Len(s) - 1 + 1 ELSE 0
        /\ \A i \in 1 .. Len(s) - 1 + 1 : v[i] = u[1 + i - 1]
    BY <1>1, <2>2, SubSeqProperties
  <2>5. Len(s) + 1 \in Int /\ Len(u) \in Int
    BY <1>1, <1>2
  <2>6. /\ w \in Seq(T)
        /\ Len(w) = IF Len(s) + 1 <= Len(u) THEN Len(u) - (Len(s) + 1) + 1 ELSE 0
        /\ \A i \in 1 .. Len(u) - (Len(s) + 1) + 1 : w[i] = u[Len(s) + 1 + i - 1]
    BY <2>3, <2>5, SubSeqProperties
  <2>. HIDE DEF v, w
  <2>7. Len(v) = Len(s) /\ \A i \in 1 .. Len(v) : v[i] = s[i]
    BY <1>1, <1>2, <2>4
  <2>8. Len(w) = Len(t) /\ \A i \in 1 .. Len(w) : w[i] = t[i]
    <3>1. Len(w) = Len(t) /\ Len(u) - (Len(s) + 1) + 1 = Len(t)
      BY <1>1, <1>2, <2>6
    <3>2. ASSUME NEW i \in 1 .. Len(t) PROVE w[i] = t[i]
      <4>1. Len(s) + 1 + i - 1 = Len(s) + i /\ Len(s) + i \in 1 .. Len(s) + Len(t)
        BY <1>1
      <4>2. w[i] = u[Len(s) + i]
        BY <2>6, <3>1, <4>1
      <4>3. ~(Len(s) + i <= Len(s)) /\ Len(s) + i - Len(s) = i
        BY <1>1
      <4>4. u[Len(s) + i] = t[Len(s) + i - Len(s)]
        BY <1>2, <4>1, <4>3
      <4>. QED
        BY <4>2, <4>3, <4>4
    <3>. QED
      BY <3>1, <3>2
  <2>9. v = s
    BY <2>4, <2>7, SeqEqual
  <2>10. w = t
    BY <2>6, <2>8, SeqEqual
  <2>. QED
    BY <2>9, <2>10 DEF v, w
<1>5. SpanLen(u, C) = Len(s)
  <2>1. Len(s) \in 0 .. Len(u)
    BY <1>1, <1>2
  <2>2. \A i \in 1 .. Len(s) : u[i] \notin C
    BY <1>1, <1>2 DEF Has
  <2>3. ASSUME Len(s) < Len(u) PROVE u[Len(s) + 1] \in C
    <3>1. t # <<>> /\ Len(s) + 1 \in 1 .. Len(s) + Len(t)
      BY <1>1, <1>2, <2>3, EmptySeq
    <3>2. u[Len(s) + 1] = t[1]
      BY <1>1, <1>2, <3>1
    <3>. QED
      BY <3>1, <3>2
  <2>. HIDE DEF u
  <2>. QED
    BY <1>2, <2>1, <2>2, <2>3, SpanIs
<1>. QED
  BY <1>4, <1>5 DEF Before, From

(* The two sides of a cut make the text again. *)
LEMMA Rejoined ==
  ASSUME NEW T, NEW s \in Seq(T), NEW C
  PROVE  s = Before(s, C) \o From(s, C)
<1>1. SpanLen(s, C) \in 0 .. Len(s) /\ Len(s) \in Nat
  BY SpanStops, LenProperties
<1>. DEFINE k == SpanLen(s, C)
<1>. HIDE DEF k
<1>2. 1 \in 1 .. Len(s) + 1 /\ k \in 1 - 1 .. Len(s) /\ Len(s) \in k .. Len(s)
  BY <1>1 DEF k
<1>3. SubSeq(s, 1, k) \o SubSeq(s, k + 1, Len(s)) = SubSeq(s, 1, Len(s))
  BY <1>2, ConcatAdjacentSubSeq
<1>4. SubSeq(s, 1, Len(s)) = s
  BY SubSeqFull
<1>. QED
  BY <1>3, <1>4, Zenon DEF Before, From, k

LEMMA Associates ==
  \A s, t, u \in Seq(Char) : (s \o t) \o u = s \o (t \o u)
BY ConcatAssociative

(* What joined texts are made of. *)
LEMMA JoinedHas ==
  ASSUME NEW T, NEW s \in Seq(T), NEW t \in Seq(T), NEW C, ~Has(s, C), ~Has(t, C)
  PROVE  ~Has(s \o t, C)
<1>1. Len(s) \in Nat /\ Len(t) \in Nat
  BY LenProperties
<1>2. /\ Len(s \o t) = Len(s) + Len(t)
      /\ \A i \in 1 .. Len(s) + Len(t) :
           (s \o t)[i] = IF i <= Len(s) THEN s[i] ELSE t[i - Len(s)]
  BY ConcatProperties
<1>. QED
  BY <1>1, <1>2 DEF Has

-----------------------------------------------------------------------------
(* What a relative location keeps. *)

LEMMA PrefixIs ==
  ASSUME NEW T, NEW s \in Seq(T), NEW n \in 0 .. Len(s)
  PROVE  /\ SubSeq(s, 1, n) \in Seq(T)
         /\ Len(SubSeq(s, 1, n)) = n
         /\ \A i \in 1 .. n : SubSeq(s, 1, n)[i] = s[i]
<1>. DEFINE v == SubSeq(s, 1, n)
<1>1. Len(s) \in Nat /\ n \in Nat /\ \A i \in 1 .. n : s[i] \in T
  BY LenProperties, ElementOfSeq
<1>2. /\ v \in Seq(T)
      /\ Len(v) = IF 1 <= n THEN n - 1 + 1 ELSE 0
      /\ \A i \in 1 .. n - 1 + 1 : v[i] = s[1 + i - 1]
  BY <1>1, SubSeqProperties
<1>. HIDE DEF v
<1>3. v \in Seq(T) /\ Len(v) = n /\ \A i \in 1 .. n : v[i] = s[i]
  BY <1>1, <1>2
<1>. QED
  BY <1>3 DEF v

(* The longest prefix of a kind is the only one of its length. *)
LEMMA Longest ==
  ASSUME NEW s \in Seq(Char), NEW k \in 0 .. Len(s), NEW A,
         SubSeq(s, 1, k) \in A,
         \A p \in A : \E n \in 0 .. k : p = SubSeq(s, 1, n)
  PROVE  (CHOOSE p \in A : \A q \in A : Len(q) <= Len(p)) = SubSeq(s, 1, k)
<1>. DEFINE P(n) == SubSeq(s, 1, n)
            c == CHOOSE p \in A : \A q \in A : Len(q) <= Len(p)
<1>1. Len(s) \in Nat /\ k \in Nat
  BY LenProperties
<1>2. \A n \in 0 .. k : Len(P(n)) = n
  BY <1>1, PrefixIs
<1>. HIDE DEF P
<1>3. P(k) \in A /\ \A p \in A : \E n \in 0 .. k : p = P(n)
  BY DEF P
<1>4. \A q \in A : Len(q) <= Len(P(k))
  BY <1>1, <1>2, <1>3
<1>5. c \in A /\ \A q \in A : Len(q) <= Len(c)
  <2>1. \E p \in A : \A q \in A : Len(q) <= Len(p)
    BY <1>3, <1>4
  <2>. QED
    BY <2>1
<1>. HIDE DEF c
<1>6. PICK n \in 0 .. k : c = P(n)
  BY <1>3, <1>5
<1>7. n = k
  <2>1. Len(P(n)) = n /\ Len(P(k)) = k /\ Len(P(k)) <= Len(P(n))
    BY <1>1, <1>2, <1>3, <1>5, <1>6
  <2>. QED
    BY <1>1, <2>1
<1>. QED
  BY <1>6, <1>7 DEF c, P

(* The directory of a target ends with the last slash before a "?". *)
LEMMA DirectoryEnd ==
  ASSUME NEW path_query \in Seq(Char), TargetOk(path_query)
  PROVE  LET k == current_directory_length(path_query)
             l == SpanLen(path_query, {"?"})
         IN /\ l \in 0 .. Len(path_query)
            /\ k \in 1 .. l
            /\ path_query[k] = "/"
            /\ \A n \in 1 .. l : path_query[n] = "/" => n <= k
<1>. DEFINE l == SpanLen(path_query, {"?"})
            path == Before(path_query, {"?"})
            D == {n \in 1 .. l : \E i \in n .. l : path_query[i] = "/"}
            k == Cardinality(D)
<1>1. l \in 0 .. Len(path_query) /\ (l < Len(path_query) => path_query[l + 1] = "?")
  BY SpanStops
<1>2. Len(path_query) \in Nat \ {0} /\ path_query[1] = "/"
  BY EmptySeq DEF TargetOk
<1>3. Len(path) = l /\ \A i \in 1 .. l : path[i] = path_query[i]
  BY <1>1, PrefixIs DEF Before
<1>4. l \in Nat /\ 1 \in 1 .. l
  <2>. HIDE DEF l
  <2>1. l # 0
    BY <1>1, <1>2
  <2>. QED
    BY <1>1, <1>2, <2>1
<1>5. {n \in 1 .. Len(path) : \E i \in n .. Len(path) : path[i] = "/"} = D
  <2>. HIDE DEF l, path
  <2>. QED
    BY <1>3, <1>4
<1>6. current_directory_length(path_query) = IF k = 0 THEN 1 ELSE k
  BY <1>5, Zenon DEF current_directory_length
<1>7. D \in SUBSET (1 .. l) /\ (\A n \in D : 1 .. n \subseteq D) /\ 1 \in D
  <2>. HIDE DEF l
  <2>. QED
    BY <1>2, <1>4
<1>8. k \in 0 .. l /\ D = 1 .. k
  <2>. HIDE DEF l, D
  <2>. QED
    BY <1>4, <1>7, InitialInterval
<1>9. k \in 1 .. l /\ k \in D
  <2>. HIDE DEF l, D, k
  <2>. QED
    BY <1>4, <1>7, <1>8
<1>10. \A n \in 1 .. l : path_query[n] = "/" => n <= k
  <2>1. \A n \in 1 .. l : path_query[n] = "/" => n \in D
    <3>. HIDE DEF l
    <3>. QED
      BY <1>4
  <2>. HIDE DEF l, D, k
  <2>. QED
    BY <1>8, <2>1
<1>11. path_query[k] = "/"
  <2>1. PICK i \in k .. l : path_query[i] = "/"
    <3>. HIDE DEF l, k
    <3>. QED
      BY <1>9
  <2>. HIDE DEF l, D, k
  <2>2. i = k
    BY <1>4, <1>9, <1>10, <2>1
  <2>. QED
    BY <2>1, <2>2
<1>12. current_directory_length(path_query) = k
  <2>. HIDE DEF l, D, k
  <2>. QED
    BY <1>6, <1>9
<1>. HIDE DEF k, l
<1>. QED
  BY <1>1, <1>9, <1>10, <1>11, <1>12 DEF l

(* What is kept, by its meaning, is what build_redirect_path puts first.   *)
LEMMA KeptIs ==
  ASSUME NEW path_query \in Seq(Char), TargetOk(path_query),
         NEW rest \in Seq(Char), NEW location \in Seq(Char),
         location # <<>>, location[1] = rest[1]
  PROVE  /\ Kept(path_query, rest) \in Seq(Char)
         /\ build_redirect_path(path_query, location)
              = Kept(path_query, rest) \o location
<1>. DEFINE l == SpanLen(path_query, {"?"})
            P(n) == SubSeq(path_query, 1, n)
            prefixes == {P(n) : n \in 0 .. Len(path_query)}
            plain == {p \in prefixes : \A i \in 1 .. Len(p) : p[i] # "?"}
            folders == {p \in plain : p # <<>> /\ p[Len(p)] = "/"}
<1>1. Head(location) = location[1]
  OBVIOUS
<1>2. Len(path_query) \in Nat /\ l \in 0 .. Len(path_query)
      /\ (\A i \in 1 .. l : path_query[i] # "?")
      /\ (l < Len(path_query) => path_query[l + 1] = "?")
  BY LenProperties, SpanStops
<1>3. \A n \in 0 .. Len(path_query) :
        P(n) \in Seq(Char) /\ Len(P(n)) = n /\ \A i \in 1 .. n : P(n)[i] = path_query[i]
  BY PrefixIs
<1>4. \A n \in 0 .. l : P(n) \in plain
  <2>. HIDE DEF l, P
  <2>. QED
    BY <1>2, <1>3
<1>5. \A p \in plain : \E n \in 0 .. l : p = P(n)
  <2>. HIDE DEF l, P
  <2>. SUFFICES ASSUME NEW n \in 0 .. Len(path_query), P(n) \in plain PROVE n <= l
    BY <1>2
  <2>1. ASSUME l < n PROVE FALSE
    <3>1. l + 1 \in 1 .. n /\ l < Len(path_query)
      BY <1>2, <2>1
    <3>2. P(n)[l + 1] = "?" /\ Len(P(n)) = n
      BY <1>2, <1>3, <3>1
    <3>. QED
      BY <3>1, <3>2
  <2>. QED
    BY <1>2, <2>1
<1>6. CASE location[1] = "/"
  <2>1. Kept(path_query, rest) = CHOOSE p \in {<<>>} : \A q \in {<<>>} : Len(q) <= Len(p)
    BY <1>6, Zenon DEF Kept
  <2>2. Kept(path_query, rest) = <<>>
    BY <2>1
  <2>3. build_redirect_path(path_query, location) = location
    BY <1>1, <1>6 DEF build_redirect_path
  <2>. QED
    BY <2>2, <2>3, ConcatEmptySeq
<1>7. CASE location[1] = "?"
  <2>1. Kept(path_query, rest) = CHOOSE p \in plain : \A q \in plain : Len(q) <= Len(p)
    BY <1>7, Zenon DEF Kept
  <2>2. Kept(path_query, rest) = P(l)
    <3>. HIDE DEF l, plain
    <3>1. P(l) \in plain
      BY <1>2, <1>4
    <3>. QED
      BY <1>2, <1>5, <2>1, <3>1, Longest
  <2>3. build_redirect_path(path_query, location) = P(l) \o location
    BY <1>1, <1>7 DEF build_redirect_path, Before
  <2>. QED
    BY <1>2, <1>3, <2>2, <2>3
<1>8. CASE location[1] \notin {"/", "?"}
  <2>. DEFINE k == current_directory_length(path_query)
  <2>1. Kept(path_query, rest) = CHOOSE p \in folders : \A q \in folders : Len(q) <= Len(p)
    BY <1>8, Zenon DEF Kept
  <2>2. k \in 1 .. l /\ path_query[k] = "/" /\ \A n \in 1 .. l : path_query[n] = "/" => n <= k
    BY DirectoryEnd
  <2>. HIDE DEF k, l, plain
  <2>3. k \in 0 .. Len(path_query) /\ k \in 0 .. l /\ k # 0
    BY <1>2, <2>2
  <2>4. P(k) \in folders
    <3>. HIDE DEF P
    <3>. QED
      BY <1>3, <1>4, <2>2, <2>3, EmptySeq
  <2>5. \A p \in folders : \E n \in 0 .. k : p = P(n)
    <3>. HIDE DEF P
    <3>1. SUFFICES ASSUME NEW p \in folders PROVE \E n \in 0 .. k : p = P(n)
      OBVIOUS
    <3>2. PICK n \in 0 .. l : p = P(n)
      BY <1>5
    <3>3. n \in 0 .. Len(path_query) /\ Len(p) = n
      BY <1>2, <1>3, <3>2
    <3>4. n # 0
      BY <1>3, <3>2, <3>3, EmptySeq
    <3>5. n \in 1 .. n /\ n \in 1 .. l
      BY <1>2, <3>4
    <3>6. path_query[n] = "/"
      BY <1>3, <3>2, <3>3, <3>5
    <3>. QED
      BY <2>2, <2>3, <3>2, <3>5, <3>6
  <2>6. Kept(path_query, rest) = P(k)
    <3>. HIDE DEF folders
    <3>. QED
      BY <2>1, <2>3, <2>4, <2>5, Longest
  <2>7. build_redirect_path(path_query, location) = P(k) \o location
    BY <1>1, <1>8 DEF build_redirect_path, k
  <2>. QED
    BY <1>3, <2>3, <2>6, <2>7
<1>. QED
  BY <1>6, <1>7, <1>8

-----------------------------------------------------------------------------
(* A relative location written out. *)

(* The host and the port of a URL, written with a colon between them. *)
LEMMA AuthorityRead ==
  ASSUME NEW host \in Seq(Char), NEW port \in Seq(Char), HostOk(host), PortOk(port)
  PROVE  LET authority == host \o <<":">> \o port
         IN /\ authority \in Seq(Char)
            /\ ~Has(authority, {"#", "/", "?"})
            /\ HostOf(authority) = host
            /\ PortOf(authority) # <<>>
            /\ Tail(PortOf(authority)) = port
            /\ ValidAuthority(authority)
<1>. DEFINE colon == <<":">>
            authority == host \o colon \o port
            C == {"#", "/", "?"}
<1>1. /\ ":" \in Char
      /\ ":" \notin Plain \cup Barred \cup Blank \cup DOMAIN Digit
  BY CharAssumption DEF Char, Delimiter
<1>2. /\ colon \in Seq(Char)
      /\ Len(colon) = 1
      /\ colon[1] = ":"
      /\ colon # <<>>
  BY <1>1
<1>3. \A i \in 1 .. Len(host) : host[i] \notin Blank \cup Barred \cup Delimiter
  BY CharAssumption DEF HostOk
<1>4. port \in Seq(DOMAIN Digit) /\ port # <<>> /\ validate_port_part(port)
  BY ElementOfSeq DEF PortOk, validate_port_part
<1>5. \A i \in 1 .. Len(port) : port[i] \in DOMAIN Digit
  BY <1>4, ElementOfSeq
<1>6. \A i \in 1 .. Len(port) : port[i] \notin Blank \cup Barred \cup Delimiter
  BY <1>5, CharAssumption
<1>. HIDE DEF colon
<1>7. host \o colon \in Seq(Char) /\ colon \o port \in Seq(Char)
  BY <1>2, ConcatProperties
<1>8. authority \in Seq(Char) /\ authority = host \o (colon \o port)
  BY <1>2, <1>7, ConcatProperties, ConcatAssociative
<1>9. /\ Len(colon \o port) = 1 + Len(port)
      /\ \A i \in 1 .. 1 + Len(port) :
           (colon \o port)[i] = IF i <= 1 THEN colon[i] ELSE port[i - 1]
  <2>1. /\ Len(colon \o port) = Len(colon) + Len(port)
        /\ \A i \in 1 .. Len(colon) + Len(port) :
             (colon \o port)[i] = IF i <= Len(colon) THEN colon[i] ELSE port[i - Len(colon)]
    BY <1>2, ConcatProperties
  <2>. QED
    BY <1>2, <2>1, Zenon
<1>10. Len(host) \in Nat /\ Len(port) \in Nat
  BY LenProperties
<1>11. colon \o port # <<>> /\ (colon \o port)[1] = ":"
  BY <1>2, <1>9, <1>10, EmptySeq
<1>12. Tail(colon \o port) = port
  <2>. DEFINE u == colon \o port
  <2>1. /\ Tail(u) \in Seq(Char)
        /\ Len(Tail(u)) = Len(u) - 1
        /\ \A i \in 1 .. Len(Tail(u)) : Tail(u)[i] = u[i + 1]
    BY <1>7, <1>11, HeadTailProperties
  <2>2. Len(Tail(u)) = Len(port)
    BY <1>9, <1>10, <2>1
  <2>3. \A i \in 1 .. Len(port) : u[i + 1] = port[i]
    BY <1>9, <1>10
  <2>. HIDE DEF u
  <2>4. \A i \in 1 .. Len(Tail(u)) : Tail(u)[i] = port[i]
    BY <2>1, <2>2, <2>3
  <2>5. Tail(u) = port
    BY <2>1, <2>2, <2>4, SeqEqual
  <2>. QED
    BY <2>5 DEF u
<1>13. ~Has(host, {":"})
  BY <1>3 DEF Has, Delimiter
<1>14. HostOf(authority) = host /\ PortOf(authority) = colon \o port
  BY <1>7, <1>8, <1>11, <1>13, Cut DEF HostOf, PortOf
<1>15. ~Has(authority, C) /\ ~Has(authority, Blank)
  <2>1. ~Has(host, C) /\ ~Has(port, C) /\ ~Has(host, Blank) /\ ~Has(port, Blank)
    BY <1>3, <1>6 DEF Has, Delimiter
  <2>2. ~Has(colon, C) /\ ~Has(colon, Blank)
    BY <1>1, <1>2 DEF Has
  <2>3. ~Has(host \o colon, C) /\ ~Has(host \o colon, Blank)
    BY <1>2, <2>1, <2>2, JoinedHas
  <2>. QED
    BY <1>7, <2>1, <2>3, JoinedHas
<1>16. Cardinality({i \in 1 .. Len(authority) : authority[i] = ":"}) <= 1
  <2>. DEFINE A == {i \in 1 .. Len(authority) : authority[i] = ":"}
              k == Len(host) + 1
  <2>1. /\ Len(authority) = Len(host) + Len(colon \o port)
        /\ \A i \in 1 .. Len(host) + Len(colon \o port) :
             authority[i] = IF i <= Len(host) THEN host[i] ELSE (colon \o port)[i - Len(host)]
    BY <1>7, <1>8, ConcatProperties
  <2>2. ASSUME NEW i \in 1 .. Len(authority), authority[i] = ":" PROVE i = k
    <3>1. CASE i <= Len(host)
      BY <1>10, <1>13, <2>1, <2>2, <3>1 DEF Has
    <3>2. CASE i > Len(host) /\ i # k
      <4>1. i - Len(host) \in 1 .. 1 + Len(port) /\ ~(i - Len(host) <= 1)
        BY <1>9, <1>10, <2>1, <3>2
      <4>2. i - Len(host) - 1 \in 1 .. Len(port)
        BY <1>10, <4>1
      <4>3. authority[i] = (colon \o port)[i - Len(host)]
        BY <1>10, <2>1, <3>2
      <4>4. authority[i] = port[i - Len(host) - 1]
        BY <1>9, <4>1, <4>3
      <4>. QED
        BY <1>6, <2>2, <4>2, <4>4 DEF Delimiter
    <3>. QED
      BY <1>10, <3>1, <3>2
  <2>. HIDE DEF k
  <2>3. A \subseteq {k}
    BY <2>2
  <2>. HIDE DEF A
  <2>4. IsFiniteSet({k}) /\ Cardinality({k}) = 1
    BY FS_Singleton
  <2>5. Cardinality(A) <= Cardinality({k})
    BY <2>3, <2>4, FS_Subset
  <2>. QED
    BY <2>4, <2>5 DEF A
<1>17. validate_host_part(host)
  BY <1>3 DEF validate_host_part, HostOk, Has
<1>18. ValidAuthority(authority)
  BY <1>4, <1>12, <1>14, <1>15, <1>16, <1>17, Zenon DEF ValidAuthority
<1>. HIDE DEF authority
<1>19. /\ authority \in Seq(Char)
       /\ ~Has(authority, {"#", "/", "?"})
       /\ HostOf(authority) = host
       /\ PortOf(authority) # <<>>
       /\ Tail(PortOf(authority)) = port
       /\ ValidAuthority(authority)
  BY <1>8, <1>11, <1>12, <1>14, <1>15, <1>18, Zenon
<1>. QED
  BY <1>19 DEF authority, colon

(* Written out and parsed, a relative location gives the URL it resolves to. *)
LEMMA ReadsAsResolved ==
  ASSUME NEW base \in UrlType, UrlOk(base),
         NEW location \in Text, location.scheme = "none", Resolves(location)
  PROVE  LET text == [scheme |-> base.scheme,
                      rest   |-> base.host \o <<":">> \o base.port
                                   \o Kept(base.path_query, location.rest)
                                   \o location.rest]
         IN Parses(text) /\ url_parse(text) = url_resolve_redirect(base, location)
<1>. DEFINE authority == base.host \o <<":">> \o base.port
            kept == Kept(base.path_query, location.rest)
            loc == WithoutFragment(location.rest)
            fragment == From(location.rest, {"#"})
            target == kept \o loc
            text == [scheme |-> base.scheme, rest |-> authority \o kept \o location.rest]
<1>1. /\ base.scheme \in Scheme
      /\ base.host \in Seq(Char) /\ base.port \in Seq(Char) /\ base.path_query \in Seq(Char)
      /\ HostOk(base.host) /\ PortOk(base.port) /\ TargetOk(base.path_query)
      /\ base.use_tls = (base.scheme = "https")
  BY DEF UrlType, UrlOk
<1>2. location.rest \in Seq(Char)
  BY DEF Text
<1>3. loc \in Seq(Char) /\ loc # <<>> /\ ~Has(loc, Blank \cup {"#"})
  BY PartsTyped DEF Resolves, Parses, Scheme, Has
<1>4. loc[1] = location.rest[1]
  <2>1. Len(loc) \in Nat \ {0}
    BY <1>3, EmptySeq
  <2>. QED
    BY <1>2, <2>1, BeforeStops DEF WithoutFragment
<1>5. location.rest = loc \o fragment /\ fragment \in Seq(Char)
      /\ (fragment # <<>> => fragment[1] \in {"#"})
  BY <1>2, Rejoined, FromStarts, Zenon DEF WithoutFragment
<1>6. kept \in Seq(Char) /\ build_redirect_path(base.path_query, loc) = target
  <2>. HIDE DEF loc
  <2>. QED
    BY <1>1, <1>2, <1>3, <1>4, KeptIs
<1>7. target \in Seq(Char) /\ TargetOk(target)
  <2>. HIDE DEF loc
  <2>. QED
    BY <1>1, <1>3, <1>6, RelativePath
<1>8. /\ authority \in Seq(Char)
      /\ ~Has(authority, {"#", "/", "?"})
      /\ HostOf(authority) = base.host
      /\ PortOf(authority) # <<>>
      /\ Tail(PortOf(authority)) = base.port
      /\ ValidAuthority(authority)
  BY <1>1, AuthorityRead
<1>. HIDE DEF authority, kept, loc, fragment
<1>9. text.rest = (authority \o target) \o fragment /\ authority \o target \in Seq(Char)
  <2>1. authority \o kept \in Seq(Char) /\ (authority \o kept) \o loc \in Seq(Char)
    BY <1>3, <1>6, <1>8, ConcatProperties
  <2>2. (authority \o kept) \o (loc \o fragment) = ((authority \o kept) \o loc) \o fragment
    BY <1>3, <1>5, <2>1, Associates, Zenon
  <2>3. (authority \o kept) \o loc = authority \o target
    BY <1>3, <1>6, <1>8, Associates, Zenon DEF target
  <2>. QED
    BY <1>5, <2>1, <2>2, <2>3
<1>10. target # <<>> /\ target[1] = "/" /\ ~Has(target, {"#"}) /\ ~Has(target, Blank)
  BY <1>7 DEF TargetOk, Has
<1>. HIDE DEF target
<1>11. ~Has(authority, {"#"}) /\ ~Has(authority, {"/", "?"})
  BY <1>8 DEF Has
<1>12. WithoutFragment(text.rest) = authority \o target
  <2>1. ~Has(authority \o target, {"#"})
    BY <1>7, <1>8, <1>10, <1>11, JoinedHas
  <2>2. Before((authority \o target) \o fragment, {"#"}) = authority \o target
    BY <1>5, <1>9, <2>1, Cut
  <2>. QED
    BY <1>9, <2>2 DEF WithoutFragment
<1>13. Authority(text) = authority /\ Target(text) = target
  <2>. HIDE DEF text
  <2>1. /\ Before(authority \o target, {"/", "?"}) = authority
        /\ From(authority \o target, {"/", "?"}) = target
    BY <1>7, <1>8, <1>10, <1>11, Cut
  <2>. QED
    BY <1>12, <2>1 DEF Authority, Target
<1>14. build_path_query(target) = target
  <2>1. Head(target) = target[1]
    OBVIOUS
  <2>. QED
    BY <1>10, <2>1 DEF build_path_query
<1>15. text.scheme = base.scheme
  OBVIOUS
<1>16. Parses(text)
  <2>. HIDE DEF text
  <2>. QED
    BY <1>1, <1>8, <1>10, <1>13, <1>15 DEF Parses
<1>17. url_parse(text) = [scheme |-> base.scheme, host |-> base.host, port |-> base.port,
                          path_query |-> target, use_tls |-> base.scheme = "https"]
  <2>. HIDE DEF text
  <2>. QED
    BY <1>8, <1>13, <1>14, <1>15 DEF url_parse
<1>18. url_resolve_redirect(base, location) = [base EXCEPT !.path_query = target]
  BY <1>6 DEF url_resolve_redirect, Scheme, loc, target
<1>19. [base EXCEPT !.path_query = target]
         = [scheme |-> base.scheme, host |-> base.host, port |-> base.port,
            path_query |-> target, use_tls |-> base.scheme = "https"]
  BY <1>1 DEF UrlType
<1>20. Parses(text) /\ url_parse(text) = url_resolve_redirect(base, location)
  BY <1>16, <1>17, <1>18, <1>19
<1>. QED
  BY <1>20 DEF text, authority, kept

-----------------------------------------------------------------------------
(* The inductive invariant: which URL there is at each place. *)

PhaseInv ==
  /\ current_url = NULL <=> pc \in {"parse", "exited"}
  /\ pc = "parse" => redirect_count = 0

IInv == TypeOK /\ WellFormed /\ HeldExactly /\ RequestFits /\ PhaseInv

LEMMA Limit == MAX_REDIRECTS \in Nat
BY ChainAssumption

LEMMA Counted ==
  ASSUME TypeOK
  PROVE  /\ redirect_count \in 0 .. MAX_REDIRECTS
         /\ redirect_count + 1 \in 0 .. MAX_REDIRECTS + 1
         /\ ~TooManyRedirects => redirect_count + 1 \in 0 .. MAX_REDIRECTS
<1>1. redirect_count \in 0 .. MAX_REDIRECTS
  BY Zenon DEF TypeOK
<1>. QED
  BY <1>1, Limit DEF TooManyRedirects

(* The strings of a URL are among those TypeOK allows. *)
LEMMA StringsTyped ==
  ASSUME NEW n \in 0 .. MAX_REDIRECTS
  PROVE  Strings(n) \subseteq (0 .. MAX_REDIRECTS + 1)
                                \X {"host", "port", "path_query", "path"}
BY Limit DEF Strings

LEMMA TextsTyped ==
  /\ NULL \notin UrlType
  /\ \A text \in Originals : text \in Text
  /\ \A response \in Responses :
       response.locations # <<>> => Head(response.locations) \in Text
<1>1. NULL \notin UrlType /\ \A text \in Originals : text \in Text
  BY ChainAssumption
<1>2. ASSUME NEW response \in Responses, response.locations # <<>>
      PROVE  Head(response.locations) \in Text
  <2>1. response.locations \in Seq(Text)
    BY ChainAssumption
  <2>. QED
    BY <1>2, <2>1, HeadTailProperties
<1>. QED
  BY <1>1, <1>2

LEMMA CookieTyped ==
  ASSUME NEW response \in Responses, cookie \in Seq(Char \cup {";"}) \cup {NULL}
  PROVE  ExtractedCookie(response) \in Seq(Char \cup {";"}) \cup {NULL}
<1>. DEFINE T == Char \cup {";"}
<1>1. response.cookies \in Seq(Seq(T))
  BY ChainAssumption
<1>. HIDE DEF T
<1>2. ASSUME response.cookies # <<>> PROVE Before(Head(response.cookies), {";"}) \in Seq(T)
  <2>1. Head(response.cookies) \in Seq(T)
    BY <1>1, <1>2, HeadTailProperties
  <2>. QED
    BY <2>1, BeforeStops
<1>. QED
  BY <1>2 DEF ExtractedCookie, T

LEMMA InitInv == Init => IInv
<1>. SUFFICES ASSUME Init PROVE IInv
  OBVIOUS
<1>. USE DEF Init
<1>1. TypeOK
  BY Limit DEF TypeOK, NoRequest
<1>. QED
  BY <1>1 DEF IInv, WellFormed, HeldExactly, RequestFits, PhaseInv, NoRequest

(* A heap without errors. *)
Clean(strings) == [live |-> strings, faulty |-> FALSE]

LEMMA MallocClean ==
  ASSUME NEW strings, NEW new, strings \cap new = {}
  PROVE  Malloc(Clean(strings), new) = Clean(strings \cup new)
BY DEF Malloc, Clean

LEMMA FreeClean ==
  ASSUME NEW strings, NEW old \in SUBSET strings
  PROVE  Free(Clean(strings), old) = Clean(strings \ old)
BY DEF Free, Clean

(* What is allocated and then freed leaves no trace. *)
LEMMA MallocThenFree ==
  ASSUME NEW strings, NEW new, strings \cap new = {}
  PROVE  Free(Malloc(Clean(strings), new), new) = Clean(strings)
<1>1. new \in SUBSET (strings \cup new) /\ (strings \cup new) \ new = strings
  OBVIOUS
<1>. QED
  BY <1>1, MallocClean, FreeClean

(* Strings of other URLs are other strings. *)
LEMMA StringsApart ==
  ASSUME NEW m \in Nat, NEW n \in Nat, m # n
  PROVE  /\ Strings(m) \cap Strings(n) = {}
         /\ Strings(m) \cap Temporary(n) = {}
         /\ Strings(n) \cap Temporary(n) = {}
         /\ HostAndPort(n) \subseteq Strings(n)
BY DEF Strings, Temporary, HostAndPort

(* Every failing exit of url_parse leaves the heap as it found it. *)
LEMMA ParseFailsClean ==
  ASSUME NEW strings, NEW n, NEW text, strings \cap Strings(n) = {},
         NEW h \in ParseFails(Clean(strings), text, n)
  PROVE  h = Clean(strings)
<1>1. HostAndPort(n) \subseteq Strings(n)
  BY DEF HostAndPort, Strings
<1>2. ASSUME NEW got \in SUBSET HostAndPort(n)
      PROVE  AuthorityFails(Clean(strings), got) = Clean(strings)
  <2>1. strings \cap got = {}
    BY <1>1
  <2>. QED
    BY <2>1, MallocThenFree DEF AuthorityFails
<1>3. PathFails(Clean(strings), n) = Clean(strings)
  BY <1>1, MallocThenFree DEF PathFails
<1>. QED
  BY <1>2, <1>3 DEF ParseFails

(* So does every failing exit of url_resolve_redirect. *)
LEMMA ResolveFailsClean ==
  ASSUME NEW strings, NEW n, NEW text,
         strings \cap Strings(n) = {}, strings \cap Temporary(n) = {},
         NEW h \in ResolveFails(Clean(strings), text, n)
  PROVE  h = Clean(strings)
<1>1. Strings(n) \cap Temporary(n) = {}
  BY DEF Strings, Temporary
<1>2. ASSUME NEW got \in SUBSET Strings(n)
      PROVE  CopyFails(Clean(strings), n, got) = Clean(strings)
  <2>1. Malloc(Clean(strings), Temporary(n)) = Clean(strings \cup Temporary(n))
    BY MallocClean
  <2>2. (strings \cup Temporary(n)) \cap got = {}
    BY <1>1
  <2>3. Free(Malloc(Clean(strings \cup Temporary(n)), got), got)
          = Clean(strings \cup Temporary(n))
    BY <2>2, MallocThenFree
  <2>4. Free(Clean(strings \cup Temporary(n)), Temporary(n)) = Clean(strings)
    BY <2>1, MallocThenFree
  <2>. QED
    BY <2>1, <2>3, <2>4 DEF CopyFails
<1>. QED
  BY <1>2, ParseFailsClean DEF ResolveFails

(* With success there are the three strings of the new URL more. *)
LEMMA ResolvedClean ==
  ASSUME NEW strings, NEW n, NEW text,
         strings \cap Strings(n) = {}, strings \cap Temporary(n) = {}
  PROVE  Resolved(Clean(strings), text, n) = Clean(strings \cup Strings(n))
<1>1. ParseSucceeds(Clean(strings), n) = Clean(strings \cup Strings(n))
  BY MallocClean DEF ParseSucceeds
<1>2. ResolveSucceeds(Clean(strings), n) = Clean(strings \cup Strings(n))
  <2>. DEFINE both == (strings \cup Temporary(n)) \cup Strings(n)
  <2>1. Malloc(Clean(strings), Temporary(n)) = Clean(strings \cup Temporary(n))
    BY MallocClean
  <2>2. (strings \cup Temporary(n)) \cap Strings(n) = {}
    BY DEF Strings, Temporary
  <2>3. Malloc(Clean(strings \cup Temporary(n)), Strings(n)) = Clean(both)
    BY <2>2, MallocClean
  <2>4. Temporary(n) \in SUBSET both /\ both \ Temporary(n) = strings \cup Strings(n)
    BY <2>2
  <2>5. Free(Clean(both), Temporary(n)) = Clean(strings \cup Strings(n))
    BY <2>4, FreeClean
  <2>. QED
    BY <2>1, <2>3, <2>5 DEF ResolveSucceeds
<1>. QED
  BY <1>1, <1>2 DEF Resolved

(* The heap while HeldExactly holds. *)
LEMMA HeldHeap ==
  ASSUME TypeOK, HeldExactly
  PROVE  /\ current_url = NULL => heap = Clean({})
         /\ current_url # NULL => heap = Clean(Strings(redirect_count))
<1>1. heap = [live |-> heap.live, faulty |-> heap.faulty] /\ heap.faulty \in BOOLEAN
  BY DEF TypeOK
<1>. QED
  BY <1>1 DEF HeldExactly, Clean

LEMMA CleanTyped ==
  /\ Clean({}).live = {} /\ ~Clean({}).faulty
  /\ Clean({}) \in [live   : SUBSET ((0 .. MAX_REDIRECTS + 1)
                                       \X {"host", "port", "path_query", "path"}),
                    faulty : BOOLEAN]
  /\ \A n \in 0 .. MAX_REDIRECTS :
       /\ Clean(Strings(n)).live = Strings(n) /\ ~Clean(Strings(n)).faulty
       /\ Clean(Strings(n)) \in [live   : SUBSET ((0 .. MAX_REDIRECTS + 1)
                                                    \X {"host", "port", "path_query", "path"}),
                                 faulty : BOOLEAN]
BY StringsTyped DEF Clean

(* The clean-up frees the URL of the hop, and no URL is left. *)
LEMMA CleanUpHeap ==
  ASSUME NEW n \in 0 .. MAX_REDIRECTS, n = redirect_count, CleanUp(Clean(Strings(n)))
  PROVE  heap' = Clean({})
<1>1. Strings(n) \in SUBSET Strings(n) /\ Strings(n) \ Strings(n) = {}
  OBVIOUS
<1>. QED
  BY <1>1, FreeClean DEF CleanUp

LEMMA ParseOriginalInv ==
  ASSUME IInv, NEW text \in Originals, ParseOriginal(text) PROVE IInv'
<1>. USE DEF IInv, ParseOriginal
<1>1. url_parse(text) \in UrlType /\ UrlOk(url_parse(text))
  BY TextsTyped, ParsedUrl
<1>2. current_url' # NULL /\ current_url' \in UrlType /\ WellFormed'
  BY <1>1, TextsTyped DEF WellFormed
<1>3. heap' = Clean(Strings(0)) /\ redirect_count' = 0 /\ 0 \in 0 .. MAX_REDIRECTS
  <2>1. heap = Clean({})
    BY HeldHeap DEF PhaseInv
  <2>2. {} \cap Strings(0) = {} /\ {} \cup Strings(0) = Strings(0)
    OBVIOUS
  <2>. QED
    BY <2>1, <2>2, MallocClean, Limit DEF ParseSucceeds, PhaseInv
<1>4. HeldExactly'
  BY <1>2, <1>3, CleanTyped DEF HeldExactly
<1>5. TypeOK'
  BY <1>2, <1>3, CleanTyped, Zenon DEF TypeOK
<1>. QED
  BY <1>2, <1>4, <1>5 DEF RequestFits, PhaseInv

LEMMA ParseOriginalFailsInv ==
  ASSUME IInv, NEW text \in Originals, ParseOriginalFails(text) PROVE IInv'
<1>. USE DEF IInv, ParseOriginalFails
<1>1. heap = Clean({}) /\ current_url = NULL
  BY HeldHeap DEF PhaseInv
<1>2. {} \cap Strings(0) = {}
  OBVIOUS
<1>3. heap' = heap
  BY <1>1, <1>2, ParseFailsClean
<1>4. TypeOK'
  BY <1>3, Zenon DEF TypeOK
<1>. QED
  BY <1>1, <1>3, <1>4 DEF WellFormed, HeldExactly, RequestFits, PhaseInv

LEMMA PiecesTyped ==
  /\ \A x \in Nat : 8 + x + 2 \in Nat
  /\ \A k, l, m, n \in Nat : 4 + k + 11 + 6 + l + 2 + 24 + m + n + 2 \in Nat
OBVIOUS

(* The sum of http_build_request is the sum of the pieces it copies. *)
LEMMA SameSum ==
  ASSUME NEW url \in UrlType, NEW c \in Seq(Char \cup {";"}) \cup {NULL}
  PROVE  RequestLen(url, c) \in Nat /\ Copied(url, c) = RequestLen(url, c)
<1>. DEFINE k == Len(url.path_query)
            l == Len(url.host)
            x == Len(c)
            m == IF c = NULL THEN 0 ELSE 8 + x + 2
            n == IF want_metadata THEN 17 ELSE 0
<1>1. k \in Nat /\ l \in Nat /\ (c # NULL => x \in Nat)
  BY LenProperties DEF UrlType
<1>2. m \in Nat /\ n \in Nat
  <2>1. c # NULL => 8 + x + 2 \in Nat
    BY <1>1, PiecesTyped, Zenon
  <2>2. 0 \in Nat /\ 17 \in Nat
    OBVIOUS
  <2>. QED
    BY <2>1, <2>2, Zenon
<1>3. RequestLen(url, c) = 4 + k + 11 + 6 + l + 2 + 24 + m + n + 2
  BY DEF RequestLen
<1>4. Copied(url, c) = 4 + k + 11 + 6 + l + 2 + 24 + m + n + 2
  BY LiteralAssumption DEF Copied
<1>5. k \in Nat /\ l \in Nat
  BY <1>1
<1>. HIDE DEF k, l, m, n
<1>6. 4 + k + 11 + 6 + l + 2 + 24 + m + n + 2 \in Nat
  BY <1>2, <1>5, PiecesTyped, Zenon
<1>. QED
  BY <1>3, <1>4, <1>6

LEMMA BuildRequestInv == ASSUME IInv, BuildRequest PROVE IInv'
<1>. USE DEF IInv, BuildRequest
<1>1. current_url \in UrlType /\ cookie \in Seq(Char \cup {";"}) \cup {NULL}
  BY DEF TypeOK, PhaseInv
<1>2. /\ RequestLen(current_url, cookie) \in Nat
      /\ Copied(current_url, cookie) = RequestLen(current_url, cookie)
  BY <1>1, SameSum
<1>3. TypeOK'
  BY <1>2, Zenon DEF TypeOK
<1>4. RequestFits'
  BY <1>2, Zenon DEF RequestFits
<1>. QED
  BY <1>3, <1>4 DEF WellFormed, HeldExactly, PhaseInv

LEMMA RedirectInv ==
  ASSUME IInv, NEW response \in Responses, Redirect(response) PROVE IInv'
<1>. DEFINE location == Head(response.locations)
<1>. USE DEF IInv, Redirect
<1>1. current_url \in UrlType /\ UrlOk(current_url)
  BY DEF TypeOK, PhaseInv, WellFormed
<1>2. location \in Text /\ Resolves(location)
  BY TextsTyped
<1>3. url_resolve_redirect(current_url, location) \in UrlType
      /\ UrlOk(url_resolve_redirect(current_url, location))
  <2>. HIDE DEF location
  <2>. QED
    BY <1>1, <1>2, ResolvedUrl
<1>4. current_url' # NULL /\ current_url' \in UrlType /\ WellFormed'
  BY <1>3, TextsTyped DEF WellFormed
<1>5. redirect_count' \in 0 .. MAX_REDIRECTS /\ redirect_count' = redirect_count + 1
  BY Counted
<1>6. heap = Clean(Strings(redirect_count))
  BY <1>1, TextsTyped, HeldHeap
<1>7. heap' = Clean(Strings(redirect_count + 1))
  <2>. DEFINE old == Strings(redirect_count)
              new == Strings(redirect_count + 1)
  <2>1. redirect_count \in Nat /\ redirect_count + 1 \in Nat /\ redirect_count + 1 # redirect_count
    BY Counted, Limit
  <2>2. old \cap new = {} /\ old \cap Temporary(redirect_count + 1) = {}
    BY <2>1, StringsApart
  <2>3. Resolved(heap, location, redirect_count + 1) = Clean(old \cup new)
    BY <1>6, <2>2, ResolvedClean
  <2>4. old \in SUBSET (old \cup new) /\ (old \cup new) \ old = new
    BY <2>2
  <2>5. heap' = Free(Clean(old \cup new), old)
    BY <2>3
  <2>. QED
    BY <2>4, <2>5, FreeClean
<1>8. HeldExactly'
  BY <1>4, <1>5, <1>7, CleanTyped DEF HeldExactly
<1>9. cookie' \in Seq(Char \cup {";"}) \cup {NULL}
  BY CookieTyped DEF TypeOK
<1>10. TypeOK'
  BY <1>4, <1>5, <1>7, <1>9, CleanTyped, Zenon DEF TypeOK
<1>. QED
  BY <1>4, <1>8, <1>10 DEF RequestFits, PhaseInv

LEMMA RedirectFailsInv ==
  ASSUME IInv, NEW response \in Responses, RedirectFails(response) PROVE IInv'
<1>. USE DEF IInv, RedirectFails
<1>1. heap = Clean(Strings(redirect_count)) /\ redirect_count \in 0 .. MAX_REDIRECTS
  BY HeldHeap, Counted DEF PhaseInv
<1>2. CleanUp(heap)
  <2>1. redirect_count \in Nat /\ redirect_count + 1 \in Nat /\ redirect_count + 1 # redirect_count
    BY Counted, Limit
  <2>2. /\ Strings(redirect_count) \cap Strings(redirect_count + 1) = {}
        /\ Strings(redirect_count) \cap Temporary(redirect_count + 1) = {}
    BY <2>1, StringsApart
  <2>3. \A h \in ResolveFails(heap, Head(response.locations), redirect_count + 1) : h = heap
    BY <1>1, <2>2, ResolveFailsClean
  <2>. QED
    BY <2>3
<1>3. heap' = Clean({}) /\ current_url' = NULL /\ cookie' = NULL
  BY <1>1, <1>2, CleanUpHeap DEF CleanUp
<1>4. TypeOK'
  BY <1>3, CleanTyped, Zenon DEF TypeOK
<1>. QED
  BY <1>3, <1>4, CleanTyped DEF WellFormed, HeldExactly, RequestFits, PhaseInv

LEMMA EndAttemptInv == ASSUME IInv, EndAttempt PROVE IInv'
<1>. USE DEF IInv, EndAttempt
<1>1. heap' = Clean({}) /\ current_url' = NULL /\ cookie' = NULL
  <2>1. heap = Clean(Strings(redirect_count)) /\ redirect_count \in 0 .. MAX_REDIRECTS
    BY HeldHeap, Counted DEF PhaseInv
  <2>. QED
    BY <2>1, CleanUpHeap DEF CleanUp
<1>2. TypeOK'
  <2>1. 0 \in 0 .. MAX_REDIRECTS /\ request'.request_len \in Nat
    BY Limit DEF NoRequest
  <2>2. pc' \in {"parse", "build", "sent", "exited"}
    OBVIOUS
  <2>. QED
    BY <1>1, <2>1, <2>2, CleanTyped, Zenon DEF TypeOK
<1>. QED
  BY <1>1, <1>2, CleanTyped DEF WellFormed, HeldExactly, RequestFits, NoRequest, PhaseInv

LEMMA NextInv == IInv /\ [Next]_vars => IInv'
<1>. SUFFICES ASSUME IInv, [Next]_vars PROVE IInv'
  OBVIOUS
<1>1. CASE UNCHANGED vars
  BY <1>1 DEF vars, IInv, TypeOK, WellFormed, HeldExactly, RequestFits, PhaseInv
<1>. QED
  BY <1>1, ParseOriginalInv, ParseOriginalFailsInv, BuildRequestInv, RedirectInv,
     RedirectFailsInv, EndAttemptInv DEF Next

LEMMA Invariant == Spec => []IInv
BY InitInv, NextInv, PTL DEF Spec

(* Every variable keeps its type, and no attempt follows more redirects    *)
(* than allowed (client.c:121).                                            *)
THEOREM TypeCorrect == Spec => []TypeOK
<1>1. IInv => TypeOK
  BY DEF IInv
<1>. QED
  BY <1>1, Invariant, PTL

(* The URL the client acts on is well formed after any chain of absolute   *)
(* and relative redirects, whatever the texts (url.c:423-440).             *)
THEOREM AlwaysWellFormed == Spec => []WellFormed
<1>1. IInv => WellFormed
  BY DEF IInv
<1>. QED
  BY <1>1, Invariant, PTL

(* Whichever exit a call takes and however many hops there are, its own    *)
(* frees leave the strings of the current URL, and none after an exit; no  *)
(* string is freed twice or lost (url.c:352, 499, 505, 550, 554).          *)
THEOREM AlwaysHeldExactly == Spec => []HeldExactly
<1>1. IInv => HeldExactly
  BY DEF IInv
<1>. QED
  BY <1>1, Invariant, PTL

(* What http_build_request copies is what it allocated, for every URL and  *)
(* cookie of any length (http.c:182-229).                                  *)
THEOREM RequestAlwaysFits == Spec => []RequestFits
<1>1. IInv => RequestFits
  BY DEF IInv
<1>. QED
  BY <1>1, Invariant, PTL

(* A relative location resolves as the written-out URL would parse, in any *)
(* hop and whatever the location (url.c:415-440, url.c:518-557).           *)
THEOREM AlwaysResolvesAsText == Spec => []ResolvesAsText
<1>1. IInv => ResolvesAsText
  <2>. SUFFICES ASSUME TypeOK, WellFormed, current_url # NULL,
                       NEW response \in Responses,
                       NEW n \in 1 .. Len(response.locations),
                       response.locations[n].scheme = "none",
                       Resolves(response.locations[n])
                PROVE  LET location == response.locations[n]
                           text == [scheme |-> current_url.scheme,
                                    rest   |-> current_url.host \o <<":">> \o current_url.port
                                                 \o Kept(current_url.path_query, location.rest)
                                                 \o location.rest]
                       IN Parses(text) /\ url_parse(text) = url_resolve_redirect(current_url, location)
    BY Zenon DEF IInv, ResolvesAsText
  <2>1. current_url \in UrlType /\ UrlOk(current_url)
    BY DEF TypeOK, WellFormed
  <2>2. response.locations[n] \in Text
    BY ChainAssumption, ElementOfSeq
  <2>. QED
    BY <2>1, <2>2, ReadsAsResolved, Zenon
<1>. QED
  BY <1>1, Invariant, PTL
=============================================================================
