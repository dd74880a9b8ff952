------------------------------ MODULE Session ------------------------------
(***************************************************************************)
(* What client_run promises whoever starts it.  It connects, along at most *)
(* MAX_REDIRECTS redirects, and plays, until something ends the attempt;   *)
(* what that was decides what happens next.                                *)
(***************************************************************************)
EXTENDS Integers

CONSTANTS MAX_REDIRECTS, Locations

VARIABLES
  phase,      \* "connecting", "playing", "ending", "succeeded", "failed"
  url,        \* where the client is; "none" after its end
  followed,   \* redirects that led there
  cause,      \* what ended the attempt: "none" as long as it goes on
  quit_typed  \* the user has typed quit

vars == <<phase, url, followed, cause, quit_typed>>

Init ==
  /\ phase = "connecting"
  /\ url = "original"
  /\ followed = 0
  /\ cause = "none"
  /\ quit_typed = FALSE

Follow(location) ==
  /\ phase = "connecting"
  /\ followed < MAX_REDIRECTS
  /\ url' = location
  /\ followed' = followed + 1
  /\ UNCHANGED <<phase, cause, quit_typed>>

Play ==
  /\ phase = "connecting"
  /\ phase' = "playing"
  /\ UNCHANGED <<url, followed, cause, quit_typed>>

(* The server is silent for a timeout, or something fails.  A stream that  *)
(* plays can also be closed by the server or stopped by the user.          *)
Interrupt(c) ==
  /\ \/ phase = "connecting" /\ c \in {"silence", "failure"}
     \/ phase = "playing" /\ c \in {"silence", "failure", "closed"}
     \/ phase = "playing" /\ c = "quit" /\ quit_typed
  /\ phase' = "ending"
  /\ cause' = c
  /\ UNCHANGED <<url, followed, quit_typed>>

StartOver ==
  /\ phase = "ending"
  /\ cause = "silence"
  /\ phase' = "connecting"
  /\ url' = "original"
  /\ followed' = 0
  /\ cause' = "none"
  /\ UNCHANGED quit_typed

Succeed ==
  /\ phase = "ending"
  /\ cause \in {"closed", "quit"}
  /\ phase' = "succeeded"
  /\ url' = "none"
  /\ UNCHANGED <<followed, cause, quit_typed>>

Fail ==
  /\ phase = "ending"
  /\ cause = "failure"
  /\ phase' = "failed"
  /\ url' = "none"
  /\ UNCHANGED <<followed, cause, quit_typed>>

(* The configured URL is no URL. *)
Refuse ==
  /\ phase = "connecting"
  /\ url = "original"
  /\ followed = 0
  /\ phase' = "failed"
  /\ url' = "none"
  /\ cause' = "failure"
  /\ UNCHANGED <<followed, quit_typed>>

TypeQuit ==
  /\ quit_typed' = TRUE
  /\ UNCHANGED <<phase, url, followed, cause>>

Next ==
  \/ \E location \in Locations : Follow(location)
  \/ Play
  \/ \E c \in {"silence", "closed", "quit", "failure"} : Interrupt(c)
  \/ StartOver \/ Succeed \/ Fail \/ Refuse
  \/ TypeQuit

Spec == Init /\ [][Next]_vars
=============================================================================
