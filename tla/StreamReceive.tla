---------------------------- MODULE StreamReceive ----------------------------
(***************************************************************************)
(* stream_receive of src/stream.c: the loop that multiplexes the server's  *)
(* connection, stdin and the receive timeout, with conn_read of src/net.c, *)
(* the kernel's socket buffer, OpenSSL's buffer, the peer and the user.    *)
(*                                                                         *)
(* Time is counted in ticks.  Bytes are not modelled: a segment is "data"  *)
(* (it yields audio) or "frag" (TLS bytes that yield none: the beginning   *)
(* of a record, or a record of the protocol itself); a chunk of stdin is   *)
(* "quit" when it completes a line that reads quit, else "text" (StdinLine *)
(* models the bytes of a line, IcyDemux those of the stream).              *)
(***************************************************************************)
EXTENDS Integers, Sequences

CONSTANTS
  Timeout,      \* config->timeout_ms, in ticks
  TlsChoices,   \* the values of conn->use_tls considered
  Segments,     \* the segments the server may send
  StdinKinds,   \* what stdin may be when the loop starts
  MaxNet,       \* bound: segments in the socket buffer
  MaxPending,   \* bound: further reads one TLS record can serve
  MaxTyped,     \* bound: chunks waiting on stdin
  MaxEintr      \* bound: system calls interrupted by a signal

ASSUME TimeoutAssumption == Timeout \in Nat \ {0}
ASSUME ChoicesAssumption ==
  /\ TlsChoices \subseteq BOOLEAN
  /\ Segments \subseteq {"data", "frag"}
  /\ StdinKinds \subseteq {"open", "eof", "endless", "invalid"}
ASSUME BoundsAssumption ==
  /\ MaxNet \in Nat
  /\ MaxPending \in Nat
  /\ MaxTyped \in Nat
  /\ MaxEintr \in Nat

VARIABLES
  pc,           \* where stream_receive is
  result,       \* its stream_result_t, "none" until it returns
  conn_ready,   \* the local of that name
  stdin_ready,  \* the local of that name
  watch_stdin,  \* the local of that name
  idle,         \* ticks since the sample in last_data_ms (up to Timeout + 1)
  timeout_ms,   \* the timeout handed to poll
  left,         \* ticks until that poll expires
  use_tls,      \* conn->use_tls
  net,          \* segments in the socket buffer
  pending,      \* reads that OpenSSL can serve without the socket
  peer,         \* "open", "closed" or "reset"
  typed,        \* chunks waiting on stdin
  stdin,        \* "open", "eof", "endless" (a pipe always full), "invalid"
  eintr,        \* interrupted system calls so far
  silence,      \* history: ticks since the last server bytes were read, the
                \* time spent writing them to stdout not counted
  overlooked    \* history: reads of server bytes since stdin, which has
                \* input, was last turned to

locals == <<conn_ready, stdin_ready, watch_stdin>>
clock  == <<idle, timeout_ms, left, silence>>
server == <<net, pending, peer>>
user   == <<typed, stdin>>
vars   == <<pc, result, locals, clock, use_tls, server, user, eintr, overlooked>>

Min(a, b) == IF a < b THEN a ELSE b

(* Lines 184-224: body bytes received with the headers are written first.  *)
Init ==
  /\ pc \in {"top", "write"}
  /\ result = "none"
  /\ conn_ready = FALSE
  /\ stdin_ready = FALSE
  /\ watch_stdin = TRUE
  /\ idle = 0
  /\ timeout_ms = 0
  /\ left = 0
  /\ silence = 0
  /\ use_tls \in TlsChoices
  /\ net = <<>>
  /\ pending = 0
  /\ peer = "open"
  /\ typed = <<>>
  /\ stdin \in StdinKinds
  /\ eintr = 0
  /\ overlooked = 0

-----------------------------------------------------------------------------
(* Faulty variants, used by the mutation checks of the README.             *)

NeverPending == FALSE
UnclampedRemaining == Timeout - idle
NoPeek == "read"
AnyReady == TRUE
AudioFirst == "top"
KeepWatching == watch_stdin

-----------------------------------------------------------------------------
(* Helpers of the loop. *)

HasQuit(chunks) == \E i \in 1 .. Len(chunks) : chunks[i] = "quit"

(* What poll reports of the two descriptors. *)
ConnReadable  == net # <<>> \/ peer # "open"
StdinReadable == typed # <<>> \/ stdin \in {"eof", "endless"}
StdinWakes    == watch_stdin /\ (StdinReadable \/ stdin = "invalid")

conn_has_pending_data == use_tls /\ pending > 0

remaining_timeout_ms == IF idle >= Timeout THEN 0 ELSE Timeout - idle

(* With decrypted bytes at hand stdin is polled without waiting. *)
AfterPending == IF watch_stdin THEN "peek" ELSE "read"

ConnReadyAfterPoll == ConnReadable

AfterAudio == IF stdin_ready THEN "stdin" ELSE "top"

WatchAfterEof == FALSE

Return(r) == pc' = "done" /\ result' = r

-----------------------------------------------------------------------------
(* The loop. *)

Top ==
  /\ pc = "top"
  /\ conn_ready' = conn_has_pending_data
  /\ stdin_ready' = FALSE
  /\ IF conn_has_pending_data
     THEN pc' = AfterPending /\ UNCHANGED <<timeout_ms, left>>
     ELSE /\ pc' = "poll"
          /\ timeout_ms' = remaining_timeout_ms
          /\ left' = remaining_timeout_ms
  /\ UNCHANGED <<result, watch_stdin, idle, silence, use_tls, server, user,
                 eintr, overlooked>>

PollWakes ==
  /\ pc = "poll"
  /\ ConnReadable \/ StdinWakes
  /\ conn_ready' = ConnReadyAfterPoll
  /\ stdin_ready' = (watch_stdin /\ StdinReadable)
  /\ watch_stdin' = (watch_stdin /\ stdin # "invalid")
  /\ pc' = IF conn_ready' THEN "read"
           ELSE IF stdin_ready' THEN "stdin" ELSE "top"
  /\ UNCHANGED <<result, clock, use_tls, server, user, eintr, overlooked>>

PollTimesOut ==
  /\ pc = "poll"
  /\ left = 0
  /\ ~ConnReadable
  /\ ~StdinWakes
  /\ Return("STREAM_TIMEOUT")
  /\ UNCHANGED <<locals, clock, use_tls, server, user, eintr, overlooked>>

(* EINTR: the poll is repeated with the timeout it started with. *)
PollInterrupted ==
  /\ pc = "poll"
  /\ eintr < MaxEintr
  /\ eintr' = eintr + 1
  /\ left' = timeout_ms
  /\ UNCHANGED <<pc, result, locals, idle, timeout_ms, silence, use_tls, server,
                 user, overlooked>>

Peek ==
  /\ pc = "peek"
  /\ stdin_ready' = StdinReadable
  /\ watch_stdin' = (stdin # "invalid")
  /\ pc' = "read"
  /\ UNCHANGED <<result, conn_ready, clock, use_tls, server, user, eintr,
                 overlooked>>

(* Server bytes are in buf; the next thing is to write them. *)
GotData ==
  /\ pc' = "write"
  /\ silence' = 0
  /\ overlooked' = IF watch_stdin /\ StdinReadable
                   THEN Min(overlooked + 1, 3) ELSE 0
  /\ UNCHANGED <<result, locals, idle, timeout_ms, left, use_tls, peer, user,
                 eintr>>

ReadPlain ==
  /\ pc = "read"
  /\ ~use_tls
  /\ \E k \in 1 .. Len(net) : net' = SubSeq(net, k + 1, Len(net))
  /\ UNCHANGED pending
  /\ GotData

(* SSL_read serves buffered bytes first. *)
ReadPending ==
  /\ pc = "read"
  /\ use_tls
  /\ pending > 0
  /\ pending' \in 0 .. pending - 1
  /\ UNCHANGED net
  /\ GotData

(* SSL_read skips fragments until a record yields data.  While there is    *)
(* none it waits for the socket, and no action is enabled.                 *)
ReadRecord ==
  /\ pc = "read"
  /\ use_tls
  /\ pending = 0
  /\ \E i \in 1 .. Len(net) :
       /\ net[i] = "data"
       /\ \A j \in 1 .. i - 1 : net[j] = "frag"
       /\ net' = SubSeq(net, i + 1, Len(net))
  /\ pending' \in 0 .. MaxPending
  /\ GotData

(* The connection has ended and its data has been read.  A TLS stream cut  *)
(* inside a record is an end or an error, as the OpenSSL version has it.   *)
ReadEnd ==
  /\ pc = "read"
  /\ pending = 0
  /\ \A i \in 1 .. Len(net) : use_tls /\ net[i] = "frag"
  /\ \/ peer = "closed" /\ Return("STREAM_SERVER_CLOSED")
     \/ /\ peer = "reset" \/ (peer = "closed" /\ net # <<>>)
        /\ Return("STREAM_ERROR")
  /\ UNCHANGED <<locals, clock, use_tls, server, user, eintr, overlooked>>

(* EINTR in read: the whole iteration is repeated. *)
ReadInterrupted ==
  /\ pc = "read"
  /\ ~use_tls
  /\ eintr < MaxEintr
  /\ eintr' = eintr + 1
  /\ pc' = "top"
  /\ UNCHANGED <<result, locals, clock, use_tls, server, user, overlooked>>

(* The audio is written; last_data_ms is sampled after that. *)
WriteDone ==
  /\ pc = "write"
  /\ idle' = 0
  /\ pc' = AfterAudio
  /\ UNCHANGED <<result, locals, timeout_ms, left, silence, use_tls, server,
                 user, eintr, overlooked>>

ReadStdin ==
  /\ pc = "stdin"
  /\ overlooked' = 0
  /\ IF typed # <<>>
     THEN \E k \in 1 .. Len(typed) :
            /\ typed' = SubSeq(typed, k + 1, Len(typed))
            /\ IF HasQuit(SubSeq(typed, 1, k))
               THEN Return("STREAM_QUIT")
               ELSE pc' = "top" /\ UNCHANGED result
            /\ UNCHANGED watch_stdin
     ELSE /\ watch_stdin' = IF stdin = "eof" THEN WatchAfterEof
                                             ELSE watch_stdin
          /\ pc' = "top"
          /\ UNCHANGED <<result, typed>>
  /\ UNCHANGED <<conn_ready, stdin_ready, clock, use_tls, server, stdin, eintr>>

(* EINTR in the read of stdin: its bytes are read in a later iteration.    *)
StdinInterrupted ==
  /\ pc = "stdin"
  /\ eintr < MaxEintr
  /\ eintr' = eintr + 1
  /\ overlooked' = 0
  /\ pc' = "top"
  /\ UNCHANGED <<result, locals, clock, use_tls, server, user>>

(* poll, a read, a write, icy_feed or clock_gettime reports an error. *)
Fails ==
  /\ pc \in {"top", "poll", "peek", "read", "write", "stdin"}
  /\ Return("STREAM_ERROR")
  /\ UNCHANGED <<locals, clock, use_tls, server, user, eintr, overlooked>>

LoopStep ==
  \/ Top \/ PollWakes \/ PollTimesOut \/ Peek
  \/ ReadPlain \/ ReadPending \/ ReadRecord \/ ReadEnd
  \/ WriteDone \/ ReadStdin

Mishap == PollInterrupted \/ ReadInterrupted \/ StdinInterrupted \/ Fails

-----------------------------------------------------------------------------
(* The server, the user and the clock, while stream_receive runs. *)

program == <<pc, result, locals, use_tls, eintr, overlooked>>

Deliver ==
  /\ pc # "done"
  /\ peer = "open"
  /\ Len(net) < MaxNet
  /\ \E segment \in Segments : net' = Append(net, segment)
  /\ UNCHANGED <<program, clock, pending, peer, user>>

EndConnection ==
  /\ pc # "done"
  /\ peer = "open"
  /\ peer' \in {"closed", "reset"}
  /\ UNCHANGED <<program, clock, net, pending, user>>

TypeChunk ==
  /\ pc # "done"
  /\ stdin = "open"
  /\ Len(typed) < MaxTyped
  /\ \E chunk \in {"text", "quit"} : typed' = Append(typed, chunk)
  /\ UNCHANGED <<program, clock, server, stdin>>

EndStdin ==
  /\ pc # "done"
  /\ stdin = "open"
  /\ stdin' = "eof"
  /\ UNCHANGED <<program, clock, server, typed>>

Tick ==
  /\ pc # "done"
  /\ idle' = Min(idle + 1, Timeout + 1)
  /\ silence' = IF pc = "write" THEN silence ELSE Min(silence + 1, Timeout)
  /\ left' = IF pc = "poll" /\ left > 0 THEN left - 1 ELSE left
  /\ UNCHANGED <<program, timeout_ms, server, user>>

Next ==
  \/ LoopStep \/ Mishap
  \/ Deliver \/ EndConnection \/ TypeChunk \/ EndStdin \/ Tick

Spec == Init /\ [][Next]_vars

(* The process is scheduled, stdout is drained, time passes.  Nothing is   *)
(* assumed of the server, of the user or of signals.                       *)
FairSpec == Spec /\ WF_vars(LoopStep) /\ WF_vars(Tick)

-----------------------------------------------------------------------------
(* The types of the locals, of the timeout handed to poll (a negative one  *)
(* would wait for ever) and of the environment.                            *)
TypeOK ==
  /\ pc \in {"top", "poll", "peek", "read", "write", "stdin", "done"}
  /\ result \in {"none", "STREAM_SERVER_CLOSED", "STREAM_TIMEOUT",
                 "STREAM_QUIT", "STREAM_ERROR"}
  /\ conn_ready \in BOOLEAN
  /\ stdin_ready \in BOOLEAN
  /\ watch_stdin \in BOOLEAN
  /\ idle \in 0 .. Timeout + 1
  /\ timeout_ms \in 0 .. Timeout
  /\ left \in 0 .. Timeout
  /\ silence \in 0 .. Timeout
  /\ use_tls \in BOOLEAN
  /\ net \in Seq({"data", "frag"})
  /\ pending \in 0 .. MaxPending
  /\ peer \in {"open", "closed", "reset"}
  /\ typed \in Seq({"text", "quit"})
  /\ stdin \in {"open", "eof", "endless", "invalid"}
  /\ eintr \in 0 .. MaxEintr
  /\ overlooked \in 0 .. 3

(* SSL_read waits for the rest of a record that may never come. *)
WaitsForRecord ==
  /\ pc = "read"
  /\ use_tls
  /\ pending = 0
  /\ peer = "open"
  /\ \A i \in 1 .. Len(net) : net[i] = "frag"

(* The read of the connection returns without waiting for the server. *)
ReadReturns ==
  \/ peer # "open"
  \/ ~use_tls /\ net # <<>>
  \/ use_tls /\ (pending > 0 \/ \E i \in 1 .. Len(net) : net[i] = "data")

(* The answer of poll still holds at the read that trusts it, and each     *)
(* descriptor is read on its own answer: the read of stdin finds input and *)
(* the read of a plain connection returns at once.  Over TLS a read may    *)
(* wait, but only inside a record of which a part has come: the server     *)
(* must have gone silent in mid-record for it to hold up the user.         *)
ReadsFindInput ==
  /\ pc = "read" => ReadReturns \/ (WaitsForRecord /\ net # <<>>)
  /\ pc = "stdin" => StdinReadable

(* A timeout is reported only after the server was silent for the whole    *)
(* timeout, however long stdout blocked, poll was interrupted or the user  *)
(* typed meanwhile, and never while server bytes (in the socket or in      *)
(* OpenSSL) or input on a watched stdin wait to be handled.                *)
TimeoutJustified ==
  [][result' = "STREAM_TIMEOUT" =>
       /\ silence = Timeout
       /\ net = <<>> /\ pending = 0 /\ peer = "open"
       /\ watch_stdin => typed = <<>>]_vars

(* Input on stdin waits for at most two reads of the server's bytes: the   *)
(* one in progress and the one of the iteration that sees the input.       *)
StdinHeard == overlooked <= 2

(* quit ends the stream, whatever the server sends meanwhile.  Refuted for *)
(* a server that stops inside a record (README of the program: "You type:  *)
(* quit").                                                                 *)
QuitObeyed == HasQuit(typed) ~> (pc = "done")

(* quit ends the stream, whatever the server sends meanwhile, unless it    *)
(* leaves SSL_read for ever inside a record.                               *)
QuitUnlessCut == QuitObeyed \/ <>[]WaitsForRecord

(* A server that stops sending is noticed: the stream ends, unless the     *)
(* user or an endless pipe keeps stdin busy, or it stopped inside a record.*)
SilenceEnds ==
  \/ []<><<Deliver>>_vars
  \/ []<><<TypeChunk>>_vars \/ stdin = "endless"
  \/ <>[]WaitsForRecord
  \/ <>(pc = "done")
=============================================================================
