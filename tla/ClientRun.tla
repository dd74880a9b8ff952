------------------------------ MODULE ClientRun ------------------------------
(***************************************************************************)
(* client_run of src/client.c: attempts that start at the configured URL,  *)
(* hops along redirects inside an attempt, and the clean-up of every exit. *)
(*                                                                         *)
(* An owning pointer is "NULL", "freed" (it dangles) or live; faults is    *)
(* the ledger of what went wrong with it.  The calls into url.c, net.c and *)
(* http.c are single steps that return any result their code can return.   *)
(* Of stream_receive there is what becomes of one line, quit, that reaches *)
(* stdin in pieces at any time: poll reports no timeout while a piece is   *)
(* unread, and the line buffer is emptied by every call (stream.c:194), so *)
(* that a line of which an earlier call read a part is not recognised.     *)
(***************************************************************************)
EXTENDS Integers

CONSTANTS
  MAX_REDIRECTS,  \* redirects followed in one attempt
  Cookies,        \* values of Set-Cookie
  Locations,      \* URLs a redirect may lead to
  QuitPieces,     \* pieces in which the line quit reaches stdin
  UseTls          \* whether a server may be spoken to over TLS

ASSUME RedirectsAssumption == MAX_REDIRECTS \in Nat
ASSUME ValuesAssumption ==
  /\ Cookies \cap {"NULL", "freed"} = {}
  /\ Locations \cap {"NULL", "freed", "original"} = {}
ASSUME UserAssumption == QuitPieces \in Nat \ {0} /\ UseTls \in BOOLEAN

VARIABLES
  pc,                     \* where client_run is
  request,                \* the request bytes
  response,               \* the strings of the response: "NULL" or "live"
  current_url,            \* the strings of the URL: "NULL" or the URL
  next_url,               \* the URL of a redirect, until it is the current one
  cookie,                 \* the cookie to send
  conn,                   \* "closed" or "open"
  redirect_count,         \* the local of that name
  restart_from_original,  \* the local of that name
  status,                 \* the exit status so far
  answer,                 \* what the response says
  typed,                  \* pieces of the line quit that the user has typed
  read,                   \* pieces of it that stream_receive has read
  line_start,             \* of these, the ones read by earlier calls
  stuck,                  \* an SSL call waits for a server that has stopped for
                          \* good within a handshake or a record
  wanted,                 \* history: where the last redirect of this attempt
                          \* leads, or the configured URL
  issued,                 \* history: the last cookie of this attempt
  hops,                   \* history: requests of this attempt
  cause,                  \* history: what ended the attempt, "none" before
  faults                  \* history: memory and descriptor errors

pointers == <<request, response, current_url, next_url, cookie, conn>>
locals   == <<redirect_count, restart_from_original, status>>
stdin    == <<typed, read, line_start>>
history  == <<wanted, issued, hops>>
vars     == <<pc, pointers, locals, answer, stdin, stuck, history, cause, faults>>

Redirects == [kind : {"redirect"}, cookie : Cookies \cup {"NULL"},
              location : Locations \cup {"missing", "invalid"}]
Finals    == [kind : {"200", "other"}]
NoAnswer  == [kind |-> "none"]

Init ==
  /\ pc = "attempt"
  /\ request = "NULL"
  /\ response = "NULL"
  /\ current_url = "NULL"
  /\ next_url = "NULL"
  /\ cookie = "NULL"
  /\ conn = "closed"
  /\ redirect_count = 0
  /\ restart_from_original = FALSE
  /\ status = 1
  /\ answer = NoAnswer
  /\ typed = 0
  /\ read = 0
  /\ line_start = 0
  /\ stuck = FALSE
  /\ wanted = "original"
  /\ issued = "NULL"
  /\ hops = 0
  /\ cause = "none"
  /\ faults = {}

-----------------------------------------------------------------------------
(* The ledger. *)

Live(p) == p \notin {"NULL", "freed"}

(* free(p): what becomes of the pointer and what is wrong with it. *)
Freed(p)     == IF p = "NULL" THEN "NULL" ELSE "freed"
FreeFault(p) == IF p = "freed" THEN {"double_free"} ELSE {}

(* A use of what p points to, when p may be NULL and when it may not.      *)
UseFault(p)  == IF p = "freed" THEN {"use_after_free"} ELSE {}
NeedFault(p) == IF Live(p) THEN {} ELSE {"use_after_free"}

(* The last copy of p is overwritten. *)
DropFault(p)    == IF Live(p) THEN {"leak"} ELSE {}
CloseFault(c)   == IF c = "open" THEN {"leak"} ELSE {}

Blame(fs) == faults' = faults \cup fs

-----------------------------------------------------------------------------
(* Faulty variants, used by the mutation checks of the README.             *)

KeepRequest == Freed(request)
LateLimit == redirect_count > MAX_REDIRECTS
KeepCookie == cookie
RestartWhenClosed(result) == result \in {"STREAM_TIMEOUT", "STREAM_SERVER_CLOSED"}
PollConnectionOnly == TRUE

-----------------------------------------------------------------------------
(* client_run is at a place and not inside a call that never returns.      *)
At(place) == pc = place /\ ~stuck

(* Line 104, after the free of line 103. *)
RequestAfterSend == "NULL"

(* Line 121. *)
TooManyRedirects == redirect_count = MAX_REDIRECTS

(* Line 149. *)
NextCount == redirect_count + 1

(* Line 191, after the free of line 190. *)
CookieAfterRestart == "NULL"

(* Lines 172-179. *)
Restarts(result) == result = "STREAM_TIMEOUT"

(* What the results of stream_receive stand for. *)
CauseOf(result) ==
  CASE result = "STREAM_TIMEOUT"       -> "silence"
    [] result = "STREAM_QUIT"          -> "quit"
    [] result = "STREAM_SERVER_CLOSED" -> "closed"
    [] result = "STREAM_ERROR"         -> "failure"

(* Lines 57-66: an attempt starts with empty locals. *)
StartAttempt ==
  /\ At("attempt")
  /\ pc' = "parse"
  /\ redirect_count' = 0
  /\ restart_from_original' = FALSE
  /\ request' = "NULL"
  /\ response' = "NULL"
  /\ current_url' = "NULL"
  /\ conn' = "closed"
  /\ Blame(DropFault(request) \cup DropFault(response)
           \cup DropFault(current_url) \cup CloseFault(conn))
  /\ wanted' = "original"
  /\ issued' = "NULL"
  /\ hops' = 0
  /\ UNCHANGED <<next_url, cookie, status, answer, stdin, stuck, cause>>

ParseUrl ==
  /\ At("parse")
  /\ pc' = "hop"
  /\ current_url' = "original"
  /\ UNCHANGED <<request, response, next_url, cookie, conn, locals, answer, stdin,
                 stuck, history, cause, faults>>

(* Lines 68-72: the URL is invalid or memory is exhausted. *)
ParseUrlFails ==
  /\ At("parse")
  /\ pc' = "exited"
  /\ cookie' = Freed(cookie)
  /\ status' = 1
  /\ cause' = "failure"
  /\ Blame(FreeFault(cookie))
  /\ UNCHANGED <<request, response, current_url, next_url, conn, redirect_count,
                 restart_from_original, answer, stdin, stuck, history>>

(* Lines 75-81: a hop starts with an empty connection, response, request. *)
StartHop ==
  /\ At("hop")
  /\ pc' = "open"
  /\ conn' = "closed"
  /\ response' = "NULL"
  /\ request' = "NULL"
  /\ answer' = NoAnswer
  /\ Blame(DropFault(request) \cup DropFault(response) \cup CloseFault(conn))
  /\ UNCHANGED <<current_url, next_url, cookie, locals, stdin, stuck, history, cause>>

OpenConn ==
  /\ At("open")
  /\ pc' = "build"
  /\ conn' = "open"
  /\ Blame(NeedFault(current_url))
  /\ UNCHANGED <<request, response, current_url, next_url, cookie, locals, answer,
                 stdin, stuck, history, cause>>

BuildRequest ==
  /\ At("build")
  /\ pc' = "send"
  /\ request' = "live"
  /\ Blame(DropFault(request) \cup UseFault(cookie) \cup NeedFault(current_url))
  /\ hops' = IF hops > MAX_REDIRECTS + 1 THEN hops ELSE hops + 1
  /\ UNCHANGED <<response, current_url, next_url, cookie, conn, locals, answer,
                 stdin, stuck, wanted, issued, cause>>

(* Lines 99-104. *)
SendRequest ==
  /\ At("send")
  /\ pc' = "response"
  /\ request' = RequestAfterSend
  /\ Blame(NeedFault(request) \cup FreeFault(request))
  /\ UNCHANGED <<response, current_url, next_url, cookie, conn, locals, answer,
                 stdin, stuck, history, cause>>

(* With a 200 stream_receive is called, which starts with an empty line.   *)
ReadResponse ==
  /\ At("response")
  /\ answer' \in Redirects \cup Finals
  /\ response' = "live"
  /\ Blame(DropFault(response))
  /\ pc' = CASE answer'.kind = "redirect" -> "redirect"
             [] answer'.kind = "200"      -> "stream"
             [] answer'.kind = "other"    -> "cleanup"
  /\ line_start' = IF answer'.kind = "200" THEN read ELSE line_start
  /\ cause' = IF answer'.kind = "other" THEN "failure" ELSE cause
  /\ UNCHANGED <<request, current_url, next_url, cookie, conn, locals, typed, read,
                 stuck, history>>

(* Lines 107-112: the server was silent for a whole timeout. *)
ResponseTimesOut ==
  /\ At("response")
  /\ restart_from_original' = TRUE
  /\ cause' = "silence"
  /\ pc' = "cleanup"
  /\ UNCHANGED <<pointers, redirect_count, status, answer, stdin, stuck, history,
                 faults>>

(* A call of the hop fails, or the redirect cannot be followed. *)
HopFails ==
  /\ \/ \E place \in {"open", "build", "send", "response"} : At(place)
     \/ At("redirect") /\ TooManyRedirects
     \/ At("location") /\ answer.location \in {"missing", "invalid"}
  /\ cause' = "failure"
  /\ pc' = "cleanup"
  /\ UNCHANGED <<pointers, locals, answer, stdin, stuck, history, faults>>

(* Lines 126-129: http_extract_cookie frees the old cookie only when the   *)
(* response has a new one and it could be copied.                          *)
ExtractCookie ==
  /\ At("redirect")
  /\ ~TooManyRedirects
  /\ IF answer.cookie = "NULL"
     THEN UNCHANGED <<cookie, issued, faults>>
     ELSE /\ cookie' = answer.cookie
          /\ issued' = answer.cookie
          /\ Blame(FreeFault(cookie) \cup NeedFault(response))
  /\ pc' = "location"
  /\ UNCHANGED <<request, response, current_url, next_url, conn, locals, answer,
                 stdin, stuck, wanted, hops, cause>>

ExtractCookieFails ==
  /\ At("redirect")
  /\ ~TooManyRedirects
  /\ answer.cookie # "NULL"
  /\ cause' = "failure"
  /\ pc' = "cleanup"
  /\ UNCHANGED <<pointers, locals, answer, stdin, stuck, history, faults>>

(* Lines 131-143: location points into the response, and what a relative   *)
(* one leaves out comes from the current URL.                              *)
ResolveRedirect ==
  /\ At("location")
  /\ answer.location \in Locations
  /\ next_url' = answer.location
  /\ wanted' = answer.location
  /\ Blame(NeedFault(response) \cup NeedFault(current_url) \cup DropFault(next_url))
  /\ pc' = "follow"
  /\ UNCHANGED <<request, response, current_url, cookie, conn, locals, answer,
                 stdin, stuck, issued, hops, cause>>

(* Lines 145-150. *)
FollowRedirect ==
  /\ At("follow")
  /\ pc' = "hop"
  /\ response' = "NULL"
  /\ conn' = "closed"
  /\ current_url' = next_url
  /\ next_url' = "NULL"
  /\ redirect_count' = NextCount
  /\ Blame(FreeFault(response) \cup FreeFault(current_url))
  /\ UNCHANGED <<request, cookie, restart_from_original, status, answer, stdin,
                 stuck, history, cause>>

(* Lines 170-181. *)
StreamReturns(result) ==
  /\ restart_from_original' = Restarts(result)
  /\ status' = IF result \in {"STREAM_QUIT", "STREAM_SERVER_CLOSED"}
               THEN 0 ELSE status
  /\ cause' = CauseOf(result)
  /\ pc' = "cleanup"

(* poll returns 0 only if stdin has nothing to read either (stream.c:257). *)
NothingToRead == read = typed

(* The stream ends by itself, after its body prefix was read. *)
StreamEnds ==
  /\ At("stream")
  /\ \E result \in {"STREAM_TIMEOUT", "STREAM_SERVER_CLOSED", "STREAM_ERROR"} :
       /\ result = "STREAM_TIMEOUT" => NothingToRead
       /\ StreamReturns(result)
  /\ Blame(NeedFault(response))
  /\ UNCHANGED <<pointers, redirect_count, answer, stdin, stuck, history>>

(* stdin_read_ready: a read takes some of the pieces.  With the last one   *)
(* the line is complete; it says quit if this call has read all of it.     *)
ReadStdin ==
  /\ At("stream")
  /\ ~NothingToRead
  /\ read' \in read + 1 .. typed
  /\ IF read' = QuitPieces /\ line_start = 0
     THEN StreamReturns("STREAM_QUIT")
     ELSE UNCHANGED <<pc, restart_from_original, status, cause>>
  /\ UNCHANGED <<pointers, redirect_count, answer, typed, line_start, stuck,
                 history, faults>>

(* Lines 184-198. *)
CleanUp ==
  /\ At("cleanup")
  /\ request' = Freed(request)
  /\ response' = "NULL"
  /\ conn' = "closed"
  /\ current_url' = "NULL"
  /\ IF restart_from_original
     THEN cookie' = CookieAfterRestart /\ pc' = "attempt" /\ cause' = "none"
     ELSE cookie' = Freed(cookie) /\ pc' = "exited" /\ UNCHANGED cause
  /\ Blame(FreeFault(request) \cup FreeFault(response)
           \cup FreeFault(current_url) \cup FreeFault(cookie))
  /\ UNCHANGED <<next_url, locals, answer, stdin, stuck, history>>

ClientStep ==
  \/ StartAttempt \/ ParseUrl \/ ParseUrlFails \/ StartHop \/ OpenConn
  \/ BuildRequest \/ SendRequest \/ ReadResponse \/ ResponseTimesOut \/ HopFails
  \/ ExtractCookie \/ ExtractCookieFails \/ ResolveRedirect \/ FollowRedirect
  \/ StreamEnds \/ ReadStdin \/ CleanUp

TypePiece ==
  /\ pc # "exited"
  /\ typed < QuitPieces
  /\ typed' = typed + 1
  /\ UNCHANGED <<pc, pointers, locals, answer, read, line_start, stuck, history,
                 cause, faults>>

(* SSL_connect or SSL_read waits on a blocking socket (net.c:140, 285) and *)
(* the server sends nothing more.                                          *)
ServerStops ==
  /\ UseTls
  /\ \E place \in {"open", "response", "stream"} : At(place)
  /\ stuck' = TRUE
  /\ UNCHANGED <<pc, pointers, locals, answer, stdin, history, cause, faults>>

Next == ClientStep \/ TypePiece \/ ServerStops

Spec == Init /\ [][Next]_vars

(* Every call that client_run makes returns, except where it is stuck. *)
FairSpec == Spec /\ WF_vars(ClientStep)

-----------------------------------------------------------------------------
(* The types of the locals; redirect_count never passes its limit.         *)
TypeOK ==
  /\ pc \in {"attempt", "parse", "hop", "open", "build", "send", "response",
             "redirect", "location", "follow", "stream", "cleanup", "exited"}
  /\ request \in {"NULL", "freed", "live"}
  /\ response \in {"NULL", "live"}
  /\ current_url \in {"NULL", "original"} \cup Locations
  /\ next_url \in {"NULL"} \cup Locations
  /\ cookie \in {"NULL", "freed"} \cup Cookies
  /\ conn \in {"closed", "open"}
  /\ redirect_count \in 0 .. MAX_REDIRECTS
  /\ restart_from_original \in BOOLEAN
  /\ status \in {0, 1}
  /\ answer \in Redirects \cup Finals \cup {NoAnswer}
  /\ typed \in 0 .. QuitPieces
  /\ read \in 0 .. typed
  /\ line_start \in 0 .. read
  /\ stuck \in BOOLEAN
  /\ wanted \in {"original"} \cup Locations
  /\ issued \in {"NULL"} \cup Cookies
  /\ hops \in 0 .. MAX_REDIRECTS + 2
  /\ cause \in {"none", "silence", "quit", "closed", "failure"}
  /\ faults \subseteq {"double_free", "use_after_free", "leak"}

(* On every path through attempts, hops, failures and restarts each block  *)
(* and the connection is freed exactly once and never used afterwards (the *)
(* header a redirect is read from before the response is freed), and       *)
(* client_run returns without leaving one behind.                          *)
NoMemoryFault ==
  /\ faults = {}
  /\ pc = "exited" =>
       ~Live(request) /\ ~Live(response) /\ ~Live(current_url) /\ ~Live(next_url)
       /\ ~Live(cookie) /\ conn = "closed"

(* Every request goes where the last redirect of this attempt pointed and  *)
(* carries the last cookie of this attempt: the first request after a      *)
(* timeout goes to the configured URL and carries none.                    *)
RequestMatches ==
  pc = "send" =>
    /\ current_url = wanted
    /\ cookie = issued
    /\ hops = 1 => wanted = "original" /\ issued = "NULL"

(* A server, or several, cannot lead the client in circles: an attempt     *)
(* sends at most MAX_REDIRECTS + 1 requests.                               *)
HopsBounded == hops <= MAX_REDIRECTS + 1

(* The line quit has been typed, and no earlier call has read a part of it. *)
QuitWaits == pc = "stream" /\ typed = QuitPieces /\ line_start = 0

(* quit typed before or while the stream plays, in whatever pieces, ends   *)
(* the program, also when the server falls silent, closes or fails at the  *)
(* same time.  Excepted are a line of which the stream before a restart    *)
(* had read a part, and an SSL call that never returns.                    *)
QuitWhileStreaming == QuitWaits ~> pc = "exited" \/ stuck

(* The session that client_run conducts, as seen from outside. *)
SessionPhase ==
  CASE pc = "exited"  -> IF status = 0 THEN "succeeded" ELSE "failed"
    [] pc = "cleanup" -> "ending"
    [] pc = "stream"  -> "playing"
    [] OTHER          -> "connecting"

SessionUrl ==
  CASE pc = "exited"                -> "none"
    [] pc \in {"attempt", "parse"} -> "original"
    [] OTHER                        -> current_url

SessionFollowed == IF pc = "attempt" THEN 0 ELSE redirect_count

ClientSession == INSTANCE Session WITH
  phase <- SessionPhase, url <- SessionUrl, followed <- SessionFollowed,
  quit_typed <- typed = QuitPieces

(* Through every redirect, failure, timeout and restart client_run keeps   *)
(* to that session: what it does after an attempt follows from what ended  *)
(* it.  Silence, and nothing else, starts over, from the configured URL    *)
(* with all redirects forgotten; the end of a stream or quit exits 0;      *)
(* every failure exits 1 (client.c:107-112, 153-197).                      *)
ImplementsSession == ClientSession!Spec

(* README, "Stopping the Program": the user stops the client by typing     *)
(* quit.  The response headers are awaited without looking at stdin.       *)
QuitStops == typed = QuitPieces ~> pc = "exited"
=============================================================================
