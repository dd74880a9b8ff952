---------------------------- MODULE RedirectChain ----------------------------
(***************************************************************************)
(* The URLs, cookies and requests of one attempt of client_run: url_parse, *)
(* then http_build_request and url_resolve_redirect hop after hop, with    *)
(* the strings they allocate.  How the client goes on from attempt to      *)
(* attempt is in ClientRun.  String <<n, p>> is part p of the n-th URL.    *)
(***************************************************************************)
EXTENDS Url

CONSTANTS
  MAX_REDIRECTS,
  Originals,  \* texts given as -u
  Responses,  \* redirects: the values of Location and of Set-Cookie, in order
  NULL

ASSUME ChainAssumption ==
  /\ MAX_REDIRECTS \in Nat
  /\ Originals \subseteq Text
  /\ Responses \subseteq [locations : Seq(Text), cookies : Seq(Seq(Char \cup {";"}))]
  /\ NULL \notin UrlType \cup Seq(Char \cup {";"})

(* The lengths of the literals of a request, of which the proof system     *)
(* knows nothing; TLC evaluates them.                                      *)
ASSUME LiteralAssumption ==
  /\ Len("GET ") = 4 /\ Len(" HTTP/1.1\r\n") = 11
  /\ Len("Host: ") = 6 /\ Len("\r\n") = 2
  /\ Len("Connection: Keep-Alive\r\n") = 24
  /\ Len("Cookie: ") = 8 /\ Len("Icy-MetaData: 1\r\n") = 17

VARIABLES
  pc,             \* "parse", "build", "sent", "exited"
  want_metadata,  \* config->want_metadata
  current_url,    \* NULL or the URL of the hop
  cookie,         \* NULL or the cookie to send
  redirect_count, \* redirects followed in this attempt
  request,        \* the size of the request and the bytes copied to it
  heap            \* the strings of URLs, and the errors with them

vars == <<pc, want_metadata, current_url, cookie, redirect_count, request, heap>>

NoRequest == [request_len |-> 0, pos |-> 0]

Init ==
  /\ pc = "parse"
  /\ want_metadata \in BOOLEAN
  /\ current_url = NULL
  /\ cookie = NULL
  /\ redirect_count = 0
  /\ request = NoRequest
  /\ heap = [live |-> {}, faulty |-> FALSE]

-----------------------------------------------------------------------------
(* Faulty variants, used by the mutation checks of the README.             *)

LateLimit == redirect_count > MAX_REDIRECTS
ForgetPath(h, n, got) ==
  [live |-> h.live \cup {<<n, "path">>}, faulty |-> h.faulty]
LengthWithoutCRLF(url, c) ==
  4 + Len(url.path_query) + 11 + 6 + Len(url.host) + 2 + 24
    + (IF c = NULL THEN 0 ELSE 8 + Len(c)) + (IF want_metadata THEN 17 ELSE 0) + 2

-----------------------------------------------------------------------------
(* Helpers. *)

Strings(n) == {n} \X {"host", "port", "path_query"}

(* malloc of strings and free of them.  The heap is faulty from when the   *)
(* only pointer to a string is overwritten or a string is freed that does  *)
(* not live.  (free takes NULL too: what was not allocated is not freed.)  *)
Malloc(h, strings) ==
  [live |-> h.live \cup strings, faulty |-> h.faulty \/ h.live \cap strings # {}]
Free(h, strings) ==
  [live |-> h.live \ strings, faulty |-> h.faulty \/ ~ (strings \subseteq h.live)]

HostAndPort(n) == {n} \X {"host", "port"}

(* The new path that build_url_from_base copies once more. *)
Temporary(n) == {<<n, "path">>}

TooManyRedirects == redirect_count = MAX_REDIRECTS

(* http_build_request: the size of the buffer, and the pieces copied to it. *)
RequestLen(url, c) ==
  4 + Len(url.path_query) + 11 + 6 + Len(url.host) + 2 + 24
    + (IF c = NULL THEN 0 ELSE 8 + Len(c) + 2) + (IF want_metadata THEN 17 ELSE 0) + 2

Copied(url, c) ==
  Len("GET ") + Len(url.path_query) + Len(" HTTP/1.1\r\n")
    + Len("Host: ") + Len(url.host) + Len("\r\n")
    + Len("Connection: Keep-Alive\r\n")
    + (IF c = NULL THEN 0 ELSE Len("Cookie: ") + Len(c) + Len("\r\n"))
    + (IF want_metadata THEN Len("Icy-MetaData: 1\r\n") ELSE 0)
    + Len("\r\n")

(* http_extract_cookie: the first Set-Cookie up to its first ";". *)
ExtractedCookie(response) ==
  IF response.cookies = <<>> THEN cookie ELSE Before(Head(response.cookies), {";"})

(* url_parse of URL n gets its three strings. *)
ParseSucceeds(h, n) == Malloc(h, Strings(n))

(* Only some of host and port can be copied: url_free(&parsed), line 499.  *)
AuthorityFails(h, got) == Free(Malloc(h, got), got)

(* The path is refused, or cannot be copied: url_free(&parsed), line 505.  *)
PathFails(h, n) == Free(Malloc(h, HostAndPort(n)), HostAndPort(n))

(* What the exits of url_parse make of the heap: those before the copies,  *)
(* and those after.                                                        *)
ParseFails(h, text, n) ==
  {h} \cup IF text.scheme \in Scheme /\ ValidAuthority(Authority(text))
           THEN {AuthorityFails(h, got) : got \in SUBSET HostAndPort(n) \ {HostAndPort(n)}}
                  \cup {PathFails(h, n)}
           ELSE {}

(* url_resolve_redirect of a relative location: the path is built, copied  *)
(* with the rest of the URL, and freed in line 554.                        *)
ResolveSucceeds(h, n) ==
  Free(Malloc(Malloc(h, Temporary(n)), Strings(n)), Temporary(n))

(* Only some of the copies can be made: url_free(&resolved) in line 352,   *)
(* then free(path_query) in line 550.                                      *)
CopyFails(h, n, got) ==
  Free(Free(Malloc(Malloc(h, Temporary(n)), got), got), Temporary(n))

Resolved(h, text, n) ==
  IF text.scheme \in Scheme THEN ParseSucceeds(h, n) ELSE ResolveSucceeds(h, n)

ResolveFails(h, text, n) ==
  IF text.scheme \in Scheme THEN ParseFails(h, text, n)
  ELSE {h} \cup IF Resolves(text)
                THEN {CopyFails(h, n, got) : got \in SUBSET Strings(n) \ {Strings(n)}}
                ELSE {}

(* The clean-up of client_run: url_free(&current_url), line 187.           *)
CleanUp(h) ==
  /\ heap' = Free(h, Strings(redirect_count))
  /\ current_url' = NULL
  /\ cookie' = NULL

-----------------------------------------------------------------------------
ParseOriginal(text) ==
  /\ pc = "parse"
  /\ Parses(text)
  /\ current_url' = url_parse(text)
  /\ heap' = ParseSucceeds(heap, 0)
  /\ pc' = "build"
  /\ UNCHANGED <<want_metadata, cookie, redirect_count, request>>

(* The text is refused or memory runs out: client_run returns, with no URL *)
(* to free.                                                                *)
ParseOriginalFails(text) ==
  /\ pc = "parse"
  /\ heap' \in ParseFails(heap, text, 0)
  /\ pc' = "exited"
  /\ cookie' = NULL
  /\ UNCHANGED <<want_metadata, current_url, redirect_count, request>>

BuildRequest ==
  /\ pc = "build"
  /\ request' = [request_len |-> RequestLen(current_url, cookie),
                 pos         |-> Copied(current_url, cookie)]
  /\ pc' = "sent"
  /\ UNCHANGED <<want_metadata, current_url, cookie, redirect_count, heap>>

(* The new URL is resolved before the old one is freed, client.c:147. *)
Redirect(response) ==
  /\ pc = "sent"
  /\ ~TooManyRedirects
  /\ response.locations # <<>>
  /\ Resolves(Head(response.locations))
  /\ cookie' = ExtractedCookie(response)
  /\ current_url' = url_resolve_redirect(current_url, Head(response.locations))
  /\ heap' = Free(Resolved(heap, Head(response.locations), redirect_count + 1),
                  Strings(redirect_count))
  /\ redirect_count' = redirect_count + 1
  /\ pc' = "build"
  /\ UNCHANGED <<want_metadata, request>>

(* One redirect too many, no Location, a bad one, or no memory for one.    *)
RedirectFails(response) ==
  /\ pc = "sent"
  /\ IF TooManyRedirects \/ response.locations = <<>>
     THEN CleanUp(heap)
     ELSE \E h \in ResolveFails(heap, Head(response.locations), redirect_count + 1) :
            CleanUp(h)
  /\ pc' = "exited"
  /\ UNCHANGED <<want_metadata, redirect_count, request>>

(* Any other end of the attempt: a final answer, an error, or a timeout of *)
(* what was sent for, after which the next one starts from the original.   *)
EndAttempt ==
  /\ pc \in {"build", "sent"}
  /\ pc' = "exited" \/ (pc = "sent" /\ pc' = "parse")
  /\ CleanUp(heap)
  /\ redirect_count' = 0
  /\ request' = NoRequest
  /\ UNCHANGED want_metadata

Next ==
  \/ \E text \in Originals : ParseOriginal(text) \/ ParseOriginalFails(text)
  \/ BuildRequest
  \/ \E response \in Responses : Redirect(response) \/ RedirectFails(response)
  \/ EndAttempt

Spec == Init /\ [][Next]_vars

-----------------------------------------------------------------------------
(* Type invariant; the bound on redirect_count is the one of client.c:121. *)
TypeOK ==
  /\ pc \in {"parse", "build", "sent", "exited"}
  /\ want_metadata \in BOOLEAN
  /\ current_url \in UrlType \cup {NULL}
  /\ cookie \in Seq(Char \cup {";"}) \cup {NULL}
  /\ redirect_count \in 0 .. MAX_REDIRECTS
  /\ request.request_len \in Nat
  /\ heap \in [live   : SUBSET ((0 .. MAX_REDIRECTS + 1)
                                  \X {"host", "port", "path_query", "path"}),
               faulty : BOOLEAN]

HostOk(host) == host # <<>> /\ \A i \in 1 .. Len(host) : host[i] \in Plain \cup DOMAIN Digit

PortOk(port) ==
  port \in Seq(DOMAIN Digit) /\ port # <<>> /\ DecimalValue(port, Digit) \in 1 .. MaxPort

(* No fragment, nothing that would end the request line, and a slash first. *)
TargetOk(path_query) ==
  path_query # <<>> /\ path_query[1] = "/" /\ ~Has(path_query, Blank \cup {"#"})

UrlOk(url) ==
  /\ HostOk(url.host)
  /\ PortOk(url.port)
  /\ TargetOk(url.path_query)
  /\ url.use_tls <=> url.scheme = "https"

(* After any chain of redirects the client connects to a host and port it  *)
(* would have accepted, asks for a target that starts with a slash and has *)
(* no blank, control character or fragment, and uses TLS for https only.   *)
(* url_resolve_redirect only looks at the new part: the rest rests on what *)
(* the hops before it left (url.c:423-440).                                *)
WellFormed == current_url # NULL => UrlOk(current_url)

(* What a relative location keeps of the current target, by its meaning:   *)
(* nothing, all but the query, or the longest directory prefix.            *)
Kept(path_query, location) ==
  LET prefixes == {SubSeq(path_query, 1, n) : n \in 0 .. Len(path_query)}
      plain    == {p \in prefixes : \A i \in 1 .. Len(p) : p[i] # "?"}
      allowed  == CASE location[1] = "/" -> {<<>>}
                    [] location[1] = "?" -> plain
                    [] OTHER -> {p \in plain : p # <<>> /\ p[Len(p)] = "/"}
  IN CHOOSE p \in allowed : \A q \in allowed : Len(q) <= Len(p)

(* Resolving a relative location and writing out the whole URL and parsing *)
(* it are the same: in every hop, whatever the location, the fields agree, *)
(* so the validation that a relative location by-passes loses nothing.     *)
ResolvesAsText ==
  current_url # NULL =>
    \A response \in Responses :
      \A n \in 1 .. Len(response.locations) :
        LET location == response.locations[n]
            text == [scheme |-> current_url.scheme,
                     rest   |-> current_url.host \o <<":">> \o current_url.port
                                  \o Kept(current_url.path_query, location.rest)
                                  \o location.rest]
        IN location.scheme = "none" /\ Resolves(location)
             => Parses(text) /\ url_parse(text) = url_resolve_redirect(current_url, location)

(* The strings that live are exactly those of the current URL, and none    *)
(* was freed twice or lost on the way: each exit of url_parse and          *)
(* url_resolve_redirect frees itself what it had got by then, the success  *)
(* its temporary path, and a redirect the URL it leaves (url.c:352, 499,   *)
(* 505, 550, 554, client.c:147, 187).                                      *)
HeldExactly ==
  /\ heap.live = IF current_url = NULL THEN {} ELSE Strings(redirect_count)
  /\ ~heap.faulty

(* http_build_request counts its buffer in one expression and fills it     *)
(* piece by piece: what it copies is what it counted (http.c:182-229).     *)
RequestFits == request.pos = request.request_len
=============================================================================
