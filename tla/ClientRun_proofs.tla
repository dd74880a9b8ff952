--------------------------- MODULE ClientRun_proofs ---------------------------
(***************************************************************************)
(* client_run for every redirect limit and any cookies and locations: no   *)
(* memory fault on any path, requests that match the redirects of their    *)
(* own attempt, and no endless redirection.                                *)
(***************************************************************************)
EXTENDS ClientRun, TLAPS

USE RedirectsAssumption, ValuesAssumption, UserAssumption

(* Who owns what at each point of an attempt. *)
OwnerInv ==
  /\ faults = {}
  /\ pc # "exited" => cookie # "freed"
  /\ pc \in {"attempt", "exited"} => request # "live"
  /\ pc \notin {"attempt", "exited"} => request # "freed"
  /\ pc \notin {"attempt", "exited", "send", "cleanup"} => request = "NULL"
  /\ pc = "send" => request = "live"
  /\ response = "live" => pc \in {"redirect", "location", "follow", "stream", "cleanup"}
  /\ pc \in {"redirect", "location", "follow", "stream"} => response = "live"
  /\ conn = "open" => pc \notin {"attempt", "parse", "hop", "open", "exited"}
  /\ pc \in {"attempt", "parse", "exited"} => current_url = "NULL"
  /\ pc \notin {"attempt", "parse", "cleanup", "exited"} => current_url # "NULL"
  /\ next_url # "NULL" <=> pc = "follow"
  /\ pc = "attempt" => cookie = "NULL"
  /\ pc = "exited" => ~Live(cookie)

(* How far an attempt has come: its requests are counted by the redirects  *)
(* it has followed, and before the first of these nothing is remembered.   *)
CourseInv ==
  /\ pc = "parse" =>
       /\ wanted = "original" /\ issued = "NULL" /\ cookie = "NULL"
       /\ hops = 0 /\ redirect_count = 0
  /\ pc \in {"hop", "open", "build", "send", "response", "redirect", "location",
             "stream"} =>
       current_url = wanted
  /\ pc \in {"hop", "open", "build", "send", "response", "redirect", "location",
             "follow", "stream"} =>
       cookie = issued
  /\ pc = "follow" => next_url = wanted
  /\ pc \in {"hop", "open", "build"} => hops = redirect_count
  /\ pc \in {"send", "response", "redirect", "location", "follow", "stream"} =>
       hops = redirect_count + 1
  /\ pc \in {"hop", "open", "build", "send", "response"} /\ redirect_count = 0 =>
       wanted = "original" /\ issued = "NULL"
  /\ pc = "redirect" => issued \in {"NULL"} \cup Cookies
  /\ pc \in {"location", "follow"} => redirect_count < MAX_REDIRECTS
  /\ pc \in {"redirect", "location"} => answer \in Redirects

IInv ==
  /\ TypeOK
  /\ NoMemoryFault
  /\ RequestMatches
  /\ HopsBounded
  /\ OwnerInv
  /\ CourseInv

(* The program starts in the invariant. *)
LEMMA InitInv == Init => IInv
<1>. SUFFICES ASSUME Init PROVE IInv
  OBVIOUS
<1>1. TypeOK
  <2>1. /\ redirect_count \in 0 .. MAX_REDIRECTS /\ hops \in 0 .. MAX_REDIRECTS + 2
        /\ typed \in 0 .. QuitPieces /\ read \in 0 .. typed /\ line_start \in 0 .. read
    BY DEF Init
  <2>2. restart_from_original \in BOOLEAN /\ stuck \in BOOLEAN
    BY DEF Init
  <2>. QED
    BY <2>1, <2>2 DEF Init, TypeOK
<1>. QED
  BY <1>1 DEF Init, IInv, NoMemoryFault, RequestMatches, HopsBounded, OwnerInv,
              CourseInv, Live

(* Starting an attempt keeps the invariant. *)
LEMMA StartAttemptInv == ASSUME IInv, StartAttempt PROVE IInv'
<1>. USE DEF StartAttempt, Blame, DropFault, CloseFault, Live, At, pointers, locals, stdin, history
<1>1. TypeOK'
  <2>1. /\ redirect_count' \in 0 .. MAX_REDIRECTS
        /\ hops' \in 0 .. MAX_REDIRECTS + 2
    OBVIOUS
  <2>2. faults' \subseteq {"double_free", "use_after_free", "leak"}
    BY DEF IInv, TypeOK
  <2>. QED
    BY <2>1, <2>2 DEF IInv, TypeOK
<1>2. OwnerInv'
  BY DEF IInv, TypeOK, OwnerInv
<1>3. CourseInv'
  BY DEF IInv, TypeOK, OwnerInv, CourseInv
<1>4. (NoMemoryFault /\ RequestMatches /\ HopsBounded)'
  BY <1>1, <1>2, <1>3
  DEF IInv, TypeOK, NoMemoryFault, RequestMatches, HopsBounded, OwnerInv,
      CourseInv
<1>. QED
  BY <1>1, <1>2, <1>3, <1>4 DEF IInv

(* Parsing the URL keeps the invariant. *)
LEMMA ParseUrlInv == ASSUME IInv, ParseUrl PROVE IInv'
<1>. USE DEF ParseUrl, Live, At, pointers, locals, stdin, history
<1>1. TypeOK'
  BY DEF IInv, TypeOK, OwnerInv, CourseInv, NoAnswer
<1>2. OwnerInv'
  BY DEF IInv, TypeOK, OwnerInv
<1>3. CourseInv'
  BY DEF IInv, TypeOK, OwnerInv, CourseInv
<1>4. (NoMemoryFault /\ RequestMatches /\ HopsBounded)'
  BY <1>1, <1>2, <1>3
  DEF IInv, TypeOK, NoMemoryFault, RequestMatches, HopsBounded, OwnerInv,
      CourseInv
<1>. QED
  BY <1>1, <1>2, <1>3, <1>4 DEF IInv

(* A URL that cannot be parsed keeps the invariant. *)
LEMMA ParseUrlFailsInv == ASSUME IInv, ParseUrlFails PROVE IInv'
<1>. USE DEF ParseUrlFails, Blame, Freed, FreeFault, Live, At, pointers, locals, stdin, history
<1>1. TypeOK'
  BY DEF IInv, TypeOK, OwnerInv, CourseInv, NoAnswer
<1>2. OwnerInv'
  BY DEF IInv, TypeOK, OwnerInv
<1>3. CourseInv'
  BY DEF IInv, TypeOK, OwnerInv, CourseInv
<1>4. (NoMemoryFault /\ RequestMatches /\ HopsBounded)'
  BY <1>1, <1>2, <1>3
  DEF IInv, TypeOK, NoMemoryFault, RequestMatches, HopsBounded, OwnerInv,
      CourseInv
<1>. QED
  BY <1>1, <1>2, <1>3, <1>4 DEF IInv

(* Starting a hop keeps the invariant. *)
LEMMA StartHopInv == ASSUME IInv, StartHop PROVE IInv'
<1>. USE DEF StartHop, Blame, DropFault, CloseFault, Live, At, pointers, locals, stdin, history
<1>1. TypeOK'
  BY DEF IInv, TypeOK, OwnerInv, CourseInv, NoAnswer
<1>2. OwnerInv'
  BY DEF IInv, TypeOK, OwnerInv
<1>3. CourseInv'
  BY DEF IInv, TypeOK, OwnerInv, CourseInv
<1>4. (NoMemoryFault /\ RequestMatches /\ HopsBounded)'
  BY <1>1, <1>2, <1>3
  DEF IInv, TypeOK, NoMemoryFault, RequestMatches, HopsBounded, OwnerInv,
      CourseInv
<1>. QED
  BY <1>1, <1>2, <1>3, <1>4 DEF IInv

(* Opening the connection keeps the invariant. *)
LEMMA OpenConnInv == ASSUME IInv, OpenConn PROVE IInv'
<1>. USE DEF OpenConn, Blame, NeedFault, Live, At, pointers, locals, stdin, history
<1>1. TypeOK'
  BY DEF IInv, TypeOK, OwnerInv, CourseInv, NoAnswer
<1>2. OwnerInv'
  BY DEF IInv, TypeOK, OwnerInv
<1>3. CourseInv'
  BY DEF IInv, TypeOK, OwnerInv, CourseInv
<1>4. (NoMemoryFault /\ RequestMatches /\ HopsBounded)'
  BY <1>1, <1>2, <1>3
  DEF IInv, TypeOK, NoMemoryFault, RequestMatches, HopsBounded, OwnerInv,
      CourseInv
<1>. QED
  BY <1>1, <1>2, <1>3, <1>4 DEF IInv

(* Building the request keeps the invariant. *)
LEMMA BuildRequestInv == ASSUME IInv, BuildRequest PROVE IInv'
<1>. USE DEF BuildRequest, Blame, DropFault, UseFault, NeedFault, Live, At, pointers, locals, stdin, history
<1>1. TypeOK'
  BY DEF IInv, TypeOK, OwnerInv, CourseInv, NoAnswer
<1>2. OwnerInv'
  BY DEF IInv, TypeOK, OwnerInv
<1>3. CourseInv'
  BY DEF IInv, TypeOK, OwnerInv, CourseInv
<1>4. (NoMemoryFault /\ RequestMatches /\ HopsBounded)'
  BY <1>1, <1>2, <1>3
  DEF IInv, TypeOK, NoMemoryFault, RequestMatches, HopsBounded, OwnerInv,
      CourseInv
<1>. QED
  BY <1>1, <1>2, <1>3, <1>4 DEF IInv

(* Sending and freeing the request keeps the invariant. *)
LEMMA SendRequestInv == ASSUME IInv, SendRequest PROVE IInv'
<1>. USE DEF SendRequest, Blame, NeedFault, FreeFault, RequestAfterSend, Live, At, pointers, locals, stdin, history
<1>1. TypeOK'
  BY DEF IInv, TypeOK, OwnerInv, CourseInv, NoAnswer
<1>2. OwnerInv'
  BY DEF IInv, TypeOK, OwnerInv
<1>3. CourseInv'
  BY DEF IInv, TypeOK, OwnerInv, CourseInv
<1>4. (NoMemoryFault /\ RequestMatches /\ HopsBounded)'
  BY <1>1, <1>2, <1>3
  DEF IInv, TypeOK, NoMemoryFault, RequestMatches, HopsBounded, OwnerInv,
      CourseInv
<1>. QED
  BY <1>1, <1>2, <1>3, <1>4 DEF IInv

(* Reading the response keeps the invariant. *)
LEMMA ReadResponseInv == ASSUME IInv, ReadResponse PROVE IInv'
<1>. USE DEF ReadResponse, Blame, DropFault, Live, Finals, Redirects, At, pointers, locals, stdin, history
<1>1. TypeOK'
  BY DEF IInv, TypeOK, OwnerInv, CourseInv, NoAnswer
<1>2. OwnerInv'
  BY DEF IInv, TypeOK, OwnerInv
<1>3. CourseInv'
  BY DEF IInv, TypeOK, OwnerInv, CourseInv
<1>4. (NoMemoryFault /\ RequestMatches /\ HopsBounded)'
  BY <1>1, <1>2, <1>3
  DEF IInv, TypeOK, NoMemoryFault, RequestMatches, HopsBounded, OwnerInv,
      CourseInv
<1>. QED
  BY <1>1, <1>2, <1>3, <1>4 DEF IInv

(* A response that times out keeps the invariant. *)
LEMMA ResponseTimesOutInv == ASSUME IInv, ResponseTimesOut PROVE IInv'
<1>. USE DEF ResponseTimesOut, Live, At, pointers, locals, stdin, history
<1>1. TypeOK'
  BY DEF IInv, TypeOK, OwnerInv, CourseInv, NoAnswer
<1>2. OwnerInv'
  BY DEF IInv, TypeOK, OwnerInv
<1>3. CourseInv'
  BY DEF IInv, TypeOK, OwnerInv, CourseInv
<1>4. (NoMemoryFault /\ RequestMatches /\ HopsBounded)'
  BY <1>1, <1>2, <1>3
  DEF IInv, TypeOK, NoMemoryFault, RequestMatches, HopsBounded, OwnerInv,
      CourseInv
<1>. QED
  BY <1>1, <1>2, <1>3, <1>4 DEF IInv

(* A failed call keeps the invariant. *)
LEMMA HopFailsInv == ASSUME IInv, HopFails PROVE IInv'
<1>. USE DEF HopFails, TooManyRedirects, Live, At, pointers, locals, stdin, history
<1>1. TypeOK'
  BY DEF IInv, TypeOK, OwnerInv, CourseInv, NoAnswer
<1>2. OwnerInv'
  BY DEF IInv, TypeOK, OwnerInv
<1>3. CourseInv'
  BY DEF IInv, TypeOK, OwnerInv, CourseInv
<1>4. (NoMemoryFault /\ RequestMatches /\ HopsBounded)'
  BY <1>1, <1>2, <1>3
  DEF IInv, TypeOK, NoMemoryFault, RequestMatches, HopsBounded, OwnerInv,
      CourseInv
<1>. QED
  BY <1>1, <1>2, <1>3, <1>4 DEF IInv

(* Taking the cookie keeps the invariant. *)
LEMMA ExtractCookieInv == ASSUME IInv, ExtractCookie PROVE IInv'
<1>. USE DEF ExtractCookie, Blame, FreeFault, NeedFault, TooManyRedirects, Redirects, Live, At, pointers, locals, stdin, history
<1>1. TypeOK'
  BY DEF IInv, TypeOK, OwnerInv, CourseInv, NoAnswer
<1>2. OwnerInv'
  <2>1. faults' = {}
    BY DEF IInv, TypeOK, OwnerInv
  <2>2. cookie' # "freed"
    <3>1. answer.cookie \in Cookies \cup {"NULL"}
      BY DEF IInv, CourseInv
    <3>. QED
      BY <3>1 DEF IInv, OwnerInv
  <2>. QED
    BY <2>1, <2>2 DEF IInv, TypeOK, OwnerInv
<1>3. CourseInv'
  BY DEF IInv, TypeOK, OwnerInv, CourseInv
<1>4. (NoMemoryFault /\ RequestMatches /\ HopsBounded)'
  BY <1>1, <1>2, <1>3
  DEF IInv, TypeOK, NoMemoryFault, RequestMatches, HopsBounded, OwnerInv,
      CourseInv
<1>. QED
  BY <1>1, <1>2, <1>3, <1>4 DEF IInv

(* A cookie that cannot be copied keeps the invariant. *)
LEMMA ExtractCookieFailsInv == ASSUME IInv, ExtractCookieFails PROVE IInv'
<1>. USE DEF ExtractCookieFails, Live, At, pointers, locals, stdin, history
<1>1. TypeOK'
  BY DEF IInv, TypeOK, OwnerInv, CourseInv, NoAnswer
<1>2. OwnerInv'
  BY DEF IInv, TypeOK, OwnerInv
<1>3. CourseInv'
  BY DEF IInv, TypeOK, OwnerInv, CourseInv
<1>4. (NoMemoryFault /\ RequestMatches /\ HopsBounded)'
  BY <1>1, <1>2, <1>3
  DEF IInv, TypeOK, NoMemoryFault, RequestMatches, HopsBounded, OwnerInv,
      CourseInv
<1>. QED
  BY <1>1, <1>2, <1>3, <1>4 DEF IInv

(* Resolving a redirect keeps the invariant. *)
LEMMA ResolveRedirectInv == ASSUME IInv, ResolveRedirect PROVE IInv'
<1>. USE DEF ResolveRedirect, Blame, NeedFault, DropFault, Live, At, pointers, locals, stdin, history
<1>1. TypeOK'
  BY DEF IInv, TypeOK, OwnerInv, CourseInv, NoAnswer
<1>2. OwnerInv'
  BY DEF IInv, TypeOK, OwnerInv
<1>3. CourseInv'
  BY DEF IInv, TypeOK, OwnerInv, CourseInv
<1>4. (NoMemoryFault /\ RequestMatches /\ HopsBounded)'
  BY <1>1, <1>2, <1>3
  DEF IInv, TypeOK, NoMemoryFault, RequestMatches, HopsBounded, OwnerInv,
      CourseInv
<1>. QED
  BY <1>1, <1>2, <1>3, <1>4 DEF IInv

(* Following a redirect keeps the invariant. *)
LEMMA FollowRedirectInv == ASSUME IInv, FollowRedirect PROVE IInv'
<1>. USE DEF FollowRedirect, Blame, FreeFault, NextCount, Live, At, pointers, locals, stdin, history
<1>1. TypeOK'
  BY DEF IInv, TypeOK, OwnerInv, CourseInv, NoAnswer
<1>2. OwnerInv'
  BY DEF IInv, TypeOK, OwnerInv
<1>3. CourseInv'
  BY DEF IInv, TypeOK, OwnerInv, CourseInv
<1>4. (NoMemoryFault /\ RequestMatches /\ HopsBounded)'
  BY <1>1, <1>2, <1>3
  DEF IInv, TypeOK, NoMemoryFault, RequestMatches, HopsBounded, OwnerInv,
      CourseInv
<1>. QED
  BY <1>1, <1>2, <1>3, <1>4 DEF IInv

(* The end of the stream keeps the invariant. *)
LEMMA StreamEndsInv == ASSUME IInv, StreamEnds PROVE IInv'
<1>. USE DEF StreamEnds, StreamReturns, CauseOf, Blame, NeedFault, Restarts, Live, At, pointers, locals, stdin, history
<1>1. TypeOK'
  BY DEF IInv, TypeOK, OwnerInv, CourseInv, NoAnswer
<1>2. OwnerInv'
  BY DEF IInv, TypeOK, OwnerInv
<1>3. CourseInv'
  BY DEF IInv, TypeOK, OwnerInv, CourseInv
<1>4. (NoMemoryFault /\ RequestMatches /\ HopsBounded)'
  BY <1>1, <1>2, <1>3
  DEF IInv, TypeOK, NoMemoryFault, RequestMatches, HopsBounded, OwnerInv,
      CourseInv
<1>. QED
  BY <1>1, <1>2, <1>3, <1>4 DEF IInv

(* Reading stdin keeps the invariant. *)
LEMMA ReadStdinInv == ASSUME IInv, ReadStdin PROVE IInv'
<1>. USE DEF ReadStdin, NothingToRead, StreamReturns, CauseOf, Restarts, Live, At, pointers, locals, stdin, history
<1>1. TypeOK'
  BY DEF IInv, TypeOK, OwnerInv, CourseInv, NoAnswer
<1>2. OwnerInv'
  BY DEF IInv, TypeOK, OwnerInv
<1>3. CourseInv'
  BY DEF IInv, TypeOK, OwnerInv, CourseInv
<1>4. (NoMemoryFault /\ RequestMatches /\ HopsBounded)'
  BY <1>1, <1>2, <1>3
  DEF IInv, TypeOK, NoMemoryFault, RequestMatches, HopsBounded, OwnerInv,
      CourseInv
<1>. QED
  BY <1>1, <1>2, <1>3, <1>4 DEF IInv

(* The clean-up keeps the invariant. *)
LEMMA CleanUpInv == ASSUME IInv, CleanUp PROVE IInv'
<1>. USE DEF CleanUp, Blame, Freed, FreeFault, CookieAfterRestart, Live, At, pointers, locals, stdin, history
<1>1. TypeOK'
  BY DEF IInv, TypeOK, OwnerInv, CourseInv, NoAnswer
<1>2. OwnerInv'
  BY DEF IInv, TypeOK, OwnerInv
<1>3. CourseInv'
  BY DEF IInv, TypeOK, OwnerInv, CourseInv
<1>4. (NoMemoryFault /\ RequestMatches /\ HopsBounded)'
  BY <1>1, <1>2, <1>3
  DEF IInv, TypeOK, NoMemoryFault, RequestMatches, HopsBounded, OwnerInv,
      CourseInv
<1>. QED
  BY <1>1, <1>2, <1>3, <1>4 DEF IInv

(* Every step keeps the invariant. *)
LEMMA InvStep == ASSUME IInv, [Next]_vars PROVE IInv'
<1>1. CASE ClientStep
  BY <1>1, StartAttemptInv, ParseUrlInv, ParseUrlFailsInv, StartHopInv, OpenConnInv, BuildRequestInv, SendRequestInv, ReadResponseInv, ResponseTimesOutInv, HopFailsInv, ExtractCookieInv, ExtractCookieFailsInv, ResolveRedirectInv, FollowRedirectInv, StreamEndsInv, ReadStdinInv, CleanUpInv
  DEF ClientStep
<1>2. CASE TypePiece \/ ServerStops \/ UNCHANGED vars
  <2>1. /\ typed' \in 0 .. QuitPieces /\ read' \in 0 .. typed' /\ line_start' \in 0 .. read'
        /\ stuck' \in BOOLEAN
        /\ UNCHANGED <<pc, pointers, locals, answer, history, cause, faults>>
    <3>. USE UserAssumption DEF IInv, TypeOK
    <3>1. CASE TypePiece
      BY <3>1 DEF TypePiece
    <3>2. CASE ServerStops
      BY <3>2 DEF ServerStops, stdin
    <3>3. CASE UNCHANGED vars
      BY <3>3 DEF vars, stdin
    <3>. QED
      BY <1>2, <3>1, <3>2, <3>3
  <2>. QED
    BY <2>1
    DEF IInv, TypeOK, NoMemoryFault, RequestMatches, HopsBounded, OwnerInv,
        CourseInv, Live, pointers, locals, history
<1>. QED
  BY <1>1, <1>2 DEF Next

(* The inductive invariant of client_run. *)
THEOREM Invariance == Spec => []IInv
<1>. QED
  BY InitInv, InvStep, PTL DEF Spec

-----------------------------------------------------------------------------
(* The locals keep their types; redirect_count stays within its limit.     *)
THEOREM TypeCorrect == Spec => []TypeOK
<1>1. IInv => TypeOK
  BY DEF IInv
<1>. QED
  BY <1>1, Invariance, PTL

(* client_run frees everything once, uses nothing it has freed and returns *)
(* with nothing left, whatever fails and however often it restarts.        *)
THEOREM MemoryIsClean == Spec => []NoMemoryFault
<1>1. IInv => NoMemoryFault
  BY DEF IInv
<1>. QED
  BY <1>1, Invariance, PTL

(* A request goes to the target, and with the cookie, of its own attempt.  *)
THEOREM RequestsMatch == Spec => []RequestMatches
<1>1. IInv => RequestMatches
  BY DEF IInv
<1>. QED
  BY <1>1, Invariance, PTL

(* No attempt sends more than MAX_REDIRECTS + 1 requests. *)
THEOREM RedirectsEnd == Spec => []HopsBounded
<1>1. IInv => HopsBounded
  BY DEF IInv
<1>. QED
  BY <1>1, Invariance, PTL

-----------------------------------------------------------------------------
(* The session is a function of these; a step that leaves it alone is a    *)
(* stutter of it.                                                          *)
LEMMA SameSession ==
  ASSUME SessionPhase' = SessionPhase, SessionUrl' = SessionUrl,
         SessionFollowed' = SessionFollowed, cause' = cause,
         (typed = QuitPieces)' = (typed = QuitPieces)
  PROVE  UNCHANGED ClientSession!vars
BY DEF ClientSession!vars

LEMMA InitSession == Init => ClientSession!Init
BY DEF Init, ClientSession!Init, SessionPhase, SessionUrl, SessionFollowed

(* The steps of an attempt that only prepare, build, send and extract. *)
LEMMA QuietSteps ==
  ASSUME IInv, \/ StartAttempt \/ ParseUrl \/ StartHop \/ OpenConn \/ BuildRequest
               \/ SendRequest \/ ExtractCookie \/ ResolveRedirect \/ ServerStops
  PROVE  UNCHANGED ClientSession!vars
<1>. USE DEF SessionPhase, SessionUrl, SessionFollowed, At, pointers, locals, stdin
<1>1. CASE StartAttempt
  BY <1>1, SameSession DEF StartAttempt
<1>2. CASE ParseUrl
  BY <1>2, SameSession DEF ParseUrl, IInv, CourseInv
<1>3. CASE StartHop
  BY <1>3, SameSession DEF StartHop
<1>4. CASE OpenConn
  BY <1>4, SameSession DEF OpenConn
<1>5. CASE BuildRequest
  BY <1>5, SameSession DEF BuildRequest
<1>6. CASE SendRequest
  BY <1>6, SameSession DEF SendRequest
<1>7. CASE ExtractCookie
  BY <1>7, SameSession DEF ExtractCookie
<1>8. CASE ResolveRedirect
  BY <1>8, SameSession DEF ResolveRedirect
<1>9. CASE ServerStops
  BY <1>9, SameSession DEF ServerStops
<1>. QED
  BY <1>1, <1>2, <1>3, <1>4, <1>5, <1>6, <1>7, <1>8, <1>9

(* What the session's end rests on: when the clean-up starts, the restart  *)
(* flag and the exit status say what ended the attempt; before, neither    *)
(* says anything.                                                          *)
DecidedInv ==
  /\ pc = "cleanup" =>
       /\ cause # "none"
       /\ restart_from_original <=> cause = "silence"
       /\ status = 0 <=> cause \in {"closed", "quit"}
  /\ pc \notin {"cleanup", "exited"} => cause = "none" /\ status = 1
  /\ restart_from_original => pc \in {"cleanup", "attempt"}

LEMMA DecidedStep == ASSUME IInv, DecidedInv, [Next]_vars PROVE DecidedInv'
<1>. USE DEF DecidedInv, At, locals
<1>1. status \in {0, 1} /\ restart_from_original \in BOOLEAN
  BY DEF IInv, TypeOK
<1>2. CASE StartAttempt \/ ParseUrl \/ ParseUrlFails \/ StartHop \/ OpenConn
  BY <1>1, <1>2 DEF StartAttempt, ParseUrl, ParseUrlFails, StartHop, OpenConn
<1>3. CASE BuildRequest \/ SendRequest \/ ResponseTimesOut \/ HopFails
  BY <1>1, <1>3 DEF BuildRequest, SendRequest, ResponseTimesOut, HopFails
<1>4. CASE ReadResponse
  BY <1>1, <1>4 DEF ReadResponse, Redirects, Finals
<1>5. CASE ExtractCookie \/ ExtractCookieFails \/ ResolveRedirect \/ FollowRedirect
  BY <1>1, <1>5 DEF ExtractCookie, ExtractCookieFails, ResolveRedirect, FollowRedirect
<1>6. CASE StreamEnds
  <2>1. pc = "stream" /\ status = 1 /\ pc' = "cleanup"
    BY <1>6 DEF StreamEnds, StreamReturns
  <2>2. PICK result \in {"STREAM_TIMEOUT", "STREAM_SERVER_CLOSED", "STREAM_ERROR"} :
          StreamReturns(result)
    BY <1>6 DEF StreamEnds
  <2>3. CASE result = "STREAM_TIMEOUT"
    <3>1. restart_from_original' /\ cause' = "silence" /\ status' = 1
      BY <2>1, <2>2, <2>3 DEF StreamReturns, Restarts, CauseOf
    <3>. QED
      BY <2>1, <3>1
  <2>4. CASE result = "STREAM_SERVER_CLOSED"
    <3>1. ~restart_from_original' /\ cause' = "closed" /\ status' = 0
      BY <2>1, <2>2, <2>4 DEF StreamReturns, Restarts, CauseOf
    <3>. QED
      BY <2>1, <3>1
  <2>5. CASE result = "STREAM_ERROR"
    <3>1. ~restart_from_original' /\ cause' = "failure" /\ status' = 1
      BY <2>1, <2>2, <2>5 DEF StreamReturns, Restarts, CauseOf
    <3>. QED
      BY <2>1, <3>1
  <2>. QED
    BY <2>2, <2>3, <2>4, <2>5
<1>7. CASE ReadStdin
  BY <1>1, <1>7 DEF ReadStdin, StreamReturns, Restarts, CauseOf
<1>8. CASE CleanUp
  BY <1>1, <1>8 DEF CleanUp
<1>9. CASE TypePiece \/ ServerStops \/ UNCHANGED vars
  BY <1>1, <1>9 DEF TypePiece, ServerStops, vars
<1>. QED
  BY <1>2, <1>3, <1>4, <1>5, <1>6, <1>7, <1>8, <1>9 DEF Next, ClientStep

(* The steps that end an attempt interrupt the session for their cause.    *)
LEMMA Interruptions ==
  ASSUME IInv, DecidedInv,
         \/ ReadResponse /\ answer'.kind = "other"
         \/ ResponseTimesOut \/ HopFails \/ ExtractCookieFails \/ StreamEnds
         \/ ReadStdin /\ pc' = "cleanup"
  PROVE  ClientSession!Next
<1>. USE DEF SessionPhase, SessionUrl, SessionFollowed, At, pointers, locals, stdin
<1>1. CASE ReadResponse /\ answer'.kind = "other"
  <2>1. ClientSession!Interrupt("failure")
    BY <1>1 DEF ReadResponse, ClientSession!Interrupt
  <2>. QED
    BY <2>1 DEF ClientSession!Next
<1>2. CASE ResponseTimesOut
  <2>1. ClientSession!Interrupt("silence")
    BY <1>2 DEF ResponseTimesOut, ClientSession!Interrupt
  <2>. QED
    BY <2>1 DEF ClientSession!Next
<1>3. CASE HopFails \/ ExtractCookieFails
  <2>1. pc \in {"open", "build", "send", "response", "redirect", "location"}
        /\ pc' = "cleanup" /\ cause' = "failure"
        /\ UNCHANGED <<current_url, redirect_count, typed>>
    BY <1>3 DEF HopFails, ExtractCookieFails
  <2>2. ClientSession!Interrupt("failure")
    BY <2>1 DEF ClientSession!Interrupt
  <2>. QED
    BY <2>2 DEF ClientSession!Next
<1>4. CASE StreamEnds
  <2>1. PICK result \in {"STREAM_TIMEOUT", "STREAM_SERVER_CLOSED", "STREAM_ERROR"} :
          StreamReturns(result)
    BY <1>4 DEF StreamEnds
  <2>2. pc = "stream" /\ UNCHANGED <<current_url, redirect_count, typed>>
    BY <1>4 DEF StreamEnds
  <2>3. pc' = "cleanup" /\ cause' \in {"silence", "closed", "failure"}
    BY <2>1 DEF StreamReturns, CauseOf
  <2>4. ClientSession!Interrupt(cause')
    BY <2>2, <2>3 DEF ClientSession!Interrupt
  <2>. QED
    BY <2>3, <2>4 DEF ClientSession!Next
<1>5. CASE ReadStdin /\ pc' = "cleanup"
  <2>1. pc = "stream" /\ UNCHANGED <<current_url, redirect_count, typed>>
    BY <1>5 DEF ReadStdin
  <2>2. read' = QuitPieces /\ StreamReturns("STREAM_QUIT")
    BY <1>5 DEF ReadStdin
  <2>3. typed = QuitPieces
    BY <1>5, <2>2 DEF ReadStdin, IInv, TypeOK
  <2>4. cause' = "quit"
    BY <2>2 DEF StreamReturns, CauseOf
  <2>5. ClientSession!Interrupt("quit")
    BY <1>5, <2>1, <2>3, <2>4 DEF ClientSession!Interrupt
  <2>. QED
    BY <2>5 DEF ClientSession!Next
<1>. QED
  BY <1>1, <1>2, <1>3, <1>4, <1>5

(* The clean-up does what the cause demands. *)
LEMMA CleanUpSession == ASSUME IInv, DecidedInv, CleanUp PROVE ClientSession!Next
<1>. USE DEF SessionPhase, SessionUrl, SessionFollowed, At, locals, stdin, CleanUp, DecidedInv
<1>0. /\ cause \in {"none", "silence", "quit", "closed", "failure"}
      /\ status \in {0, 1}
  BY DEF IInv, TypeOK
<1>1. CASE restart_from_original
  <2>1. ClientSession!StartOver
    BY <1>1 DEF ClientSession!StartOver
  <2>. QED
    BY <2>1 DEF ClientSession!Next
<1>2. CASE ~restart_from_original /\ status = 0
  <2>1. ClientSession!Succeed
    BY <1>2 DEF ClientSession!Succeed
  <2>. QED
    BY <2>1 DEF ClientSession!Next
<1>3. CASE ~restart_from_original /\ status = 1
  <2>1. ClientSession!Fail
    BY <1>0, <1>3 DEF ClientSession!Fail
  <2>. QED
    BY <2>1 DEF ClientSession!Next
<1>. QED
  BY <1>0, <1>1, <1>2, <1>3

(* The steps that the session sees. *)
LEMMA EventSteps ==
  ASSUME IInv, DecidedInv, [Next]_vars
  PROVE  [ClientSession!Next]_(ClientSession!vars)
<1>. USE DEF SessionPhase, SessionUrl, SessionFollowed, At, pointers, locals, stdin
<1>1. CASE ParseUrlFails
  <2>1. ClientSession!Refuse
    BY <1>1 DEF ParseUrlFails, ClientSession!Refuse, IInv, CourseInv
  <2>. QED
    BY <2>1 DEF ClientSession!Next
<1>2. CASE ReadResponse
  <2>1. CASE answer'.kind = "redirect"
    BY <1>2, <2>1, SameSession DEF ReadResponse
  <2>2. CASE answer'.kind = "200"
    <3>1. ClientSession!Play
      BY <1>2, <2>2 DEF ReadResponse, ClientSession!Play
    <3>. QED
      BY <3>1 DEF ClientSession!Next
  <2>3. CASE answer'.kind = "other"
    BY <1>2, <2>3, Interruptions
  <2>. QED
    BY <1>2, <2>1, <2>2, <2>3 DEF ReadResponse, Redirects, Finals
<1>3. CASE FollowRedirect
  <2>1. redirect_count < MAX_REDIRECTS /\ next_url \in Locations
    BY <1>3 DEF FollowRedirect, IInv, CourseInv, OwnerInv, TypeOK
  <2>2. ClientSession!Follow(next_url)
    BY <1>3, <2>1 DEF FollowRedirect, NextCount, ClientSession!Follow
  <2>. QED
    BY <2>1, <2>2 DEF ClientSession!Next
<1>4. CASE ReadStdin
  <2>1. CASE pc' = "cleanup"
    BY <1>4, <2>1, Interruptions
  <2>2. CASE pc' # "cleanup"
    BY <1>4, <2>2, SameSession DEF ReadStdin, StreamReturns
  <2>. QED
    BY <2>1, <2>2
<1>5. CASE TypePiece
  <2>1. CASE typed' = QuitPieces
    <3>1. ClientSession!TypeQuit
      BY <1>5, <2>1 DEF TypePiece, ClientSession!TypeQuit
    <3>. QED
      BY <3>1 DEF ClientSession!Next
  <2>2. CASE typed' # QuitPieces
    <3>1. typed # QuitPieces
      BY <1>5 DEF TypePiece, IInv, TypeOK
    <3>. QED
      BY <1>5, <2>2, <3>1, SameSession DEF TypePiece
  <2>. QED
    BY <2>1, <2>2
<1>6. CASE UNCHANGED vars
  BY <1>6, SameSession DEF vars
<1>. QED
  BY <1>1, <1>2, <1>3, <1>4, <1>5, <1>6, QuietSteps, Interruptions, CleanUpSession
  DEF Next, ClientStep

(* Every run of client_run is a session: what happens after an attempt     *)
(* follows from what ended it.  Only silence starts over, only the end of  *)
(* a playing stream or quit exits 0, every failure exits 1, redirects are  *)
(* bounded (client.c:107-112, 117-197).                                    *)
THEOREM SessionImplemented == Spec => ImplementsSession
<1>1. Init => DecidedInv
  BY DEF Init, DecidedInv
<1>2. IInv /\ DecidedInv /\ [Next]_vars => DecidedInv'
  BY DecidedStep
<1>3. IInv /\ DecidedInv /\ [Next]_vars => [ClientSession!Next]_(ClientSession!vars)
  BY EventSteps
<1>. QED
  BY <1>1, <1>2, <1>3, InitSession, Invariance, PTL DEF Spec, ImplementsSession, ClientSession!Spec
=============================================================================
