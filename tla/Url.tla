--------------------------------- MODULE Url ---------------------------------
(***************************************************************************)
(* What url_parse and url_resolve_redirect of src/url.c accept and what    *)
(* they return.  A text is its prefix, "http", "https" or "none", and the  *)
(* characters after it; characters are told apart as far as url.c does.    *)
(***************************************************************************)
EXTENDS Texts

CONSTANTS
  Plain,       \* characters no rule mentions
  Barred,      \* "@", "[" and "]", refused in a host only
  Blank,       \* whitespace and control characters
  Digit,       \* the digits: a function to their values
  MaxPort,     \* 65535
  DefaultPort  \* by scheme

Delimiter == {"/", "?", "#", ":"}
Char      == Plain \cup Barred \cup Blank \cup DOMAIN Digit \cup Delimiter
Scheme    == {"http", "https"}
Text      == [scheme : Scheme \cup {"none"}, rest : Seq(Char)]
UrlType   == [scheme : Scheme, host : Seq(Char), port : Seq(Char),
              path_query : Seq(Char), use_tls : BOOLEAN]

ASSUME CharAssumption ==
  /\ Plain \cap (Barred \cup Blank \cup DOMAIN Digit \cup Delimiter) = {}
  /\ Barred \cap (Blank \cup DOMAIN Digit \cup Delimiter) = {}
  /\ Blank \cap (DOMAIN Digit \cup Delimiter) = {}
  /\ DOMAIN Digit \cap Delimiter = {}
  /\ Digit \in [DOMAIN Digit -> 0 .. 9]
ASSUME PortAssumption ==
  MaxPort \in Nat /\ DefaultPort \in [Scheme -> Seq(DOMAIN Digit)]

-----------------------------------------------------------------------------
(* Faulty variants, used by the mutation checks of the README.             *)

BareTarget(target) == IF target = <<>> THEN <<"/">> ELSE target

LastSlash(path_query) ==
  Cardinality({n \in 1 .. Len(path_query) :
                 \E i \in n .. Len(path_query) : path_query[i] = "/"})

-----------------------------------------------------------------------------
(* url_parse. *)

WithoutFragment(s) == Before(s, {"#"})

Authority(text) == Before(WithoutFragment(text.rest), {"/", "?"})
Target(text)    == From(WithoutFragment(text.rest), {"/", "?"})

(* The host, and the port with its colon, of an authority. *)
HostOf(authority) == Before(authority, {":"})
PortOf(authority) == From(authority, {":"})

validate_host_part(host) == host # <<>> /\ ~Has(host, Blank \cup Barred \cup Delimiter)

validate_port_part(port) ==
  /\ port # <<>>
  /\ \A i \in 1 .. Len(port) : port[i] \in DOMAIN Digit
  /\ DecimalValue(port, Digit) \in 1 .. MaxPort

ASSUME DefaultPortAssumption == \A s \in Scheme : validate_port_part(DefaultPort[s])

ValidAuthority(authority) ==
  /\ Cardinality({i \in 1 .. Len(authority) : authority[i] = ":"}) <= 1
  /\ ~Has(authority, Blank)
  /\ validate_host_part(HostOf(authority))
  /\ PortOf(authority) # <<>> => validate_port_part(Tail(PortOf(authority)))

build_path_query(target) ==
  IF target = <<>> THEN <<"/">>
  ELSE IF Head(target) = "?" THEN <<"/">> \o target ELSE target

Parses(text) ==
  /\ text.scheme \in Scheme
  /\ ValidAuthority(Authority(text))
  /\ ~Has(Target(text), Blank)

url_parse(text) ==
  LET authority == Authority(text) IN
  [scheme     |-> text.scheme,
   host       |-> HostOf(authority),
   port       |-> IF PortOf(authority) = <<>> THEN DefaultPort[text.scheme]
                                              ELSE Tail(PortOf(authority)),
   path_query |-> build_path_query(Target(text)),
   use_tls    |-> text.scheme = "https"]

-----------------------------------------------------------------------------
(* url_resolve_redirect. *)

(* Up to the last slash of the path. *)
current_directory_length(path_query) ==
  LET path == Before(path_query, {"?"})
      len  == Cardinality({n \in 1 .. Len(path) :
                             \E i \in n .. Len(path) : path[i] = "/"})
  IN IF len = 0 THEN 1 ELSE len

build_redirect_path(path_query, location) ==
  CASE Head(location) = "/" -> location
    [] Head(location) = "?" -> Before(path_query, {"?"}) \o location
    [] OTHER -> SubSeq(path_query, 1, current_directory_length(path_query))
                  \o location

Resolves(text) ==
  \/ Parses(text)
  \/ /\ text.scheme = "none"
     /\ WithoutFragment(text.rest) # <<>>
     /\ ~Has(WithoutFragment(text.rest), Blank)

url_resolve_redirect(base, text) ==
  IF text.scheme \in Scheme THEN url_parse(text)
  ELSE [base EXCEPT !.path_query =
          build_redirect_path(@, WithoutFragment(text.rest))]
=============================================================================
