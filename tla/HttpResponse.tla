----------------------------- MODULE HttpResponse -----------------------------
(***************************************************************************)
(* http_read_response of src/http.c: bytes are collected until the headers *)
(* are complete, what follows them is kept for the stream, and the header  *)
(* lines become owned strings.                                             *)
(*                                                                         *)
(* A byte is CR, LF or any other one.  Whether a nonempty line is a valid  *)
(* status or header line depends on bytes that are not told apart, so each *)
(* may be.  Offsets count from 0 as in the code: byte k of s is s[k + 1].  *)
(* A read returns what has arrived, as read() does on a TCP socket; how    *)
(* SSL_read differs is modelled in StreamReceive.                          *)
(***************************************************************************)
EXTENDS Integers, Sequences

CONSTANTS
  CR, LF, Other,      \* the bytes
  MAX_HEADER_BYTES,   \* the size of raw
  AllocFails,         \* the allocations that may fail
  Pieces,             \* what the server sends at a time
  MaxSent             \* bound: once so much is sent, the server sends no more

Byte == {CR, LF, Other}

ASSUME LimitAssumption == MAX_HEADER_BYTES \in Nat /\ MaxSent \in Nat
ASSUME PiecesAssumption == Pieces \subseteq Seq(Byte)
ASSUME AllocAssumption ==
  AllocFails \subseteq {"raw", "body", "status", "headers", "both", "string"}

VARIABLES
  pc,            \* where http_read_response is; "ok" and "failed" are its ends
  error,         \* why it failed
  raw,           \* raw[0 .. raw_len - 1]
  has_raw,       \* raw is allocated
  header_end,    \* index of the terminator, -1 while there is none
  line,          \* offset of the header line at hand
  status_line,   \* parsed.status_line is allocated
  body_prefix,   \* parsed.body_prefix, <<>> when it is not allocated
  headers,       \* parsed.headers is allocated
  header_count,  \* parsed.header_count
  strings,       \* header names and values allocated
  net,           \* bytes in the socket or in OpenSSL
  peer,          \* "open", "closed" or "reset"
  sent           \* history: the bytes of the server so far

reader == <<raw, has_raw, header_end, line>>
parsed == <<status_line, body_prefix, headers, header_count, strings>>
world  == <<net, peer, sent>>
vars   == <<pc, error, reader, parsed, world>>

Min(a, b) == IF a < b THEN a ELSE b

Init ==
  /\ pc = "start"
  /\ error = "none"
  /\ raw = <<>>
  /\ has_raw = FALSE
  /\ header_end = -1
  /\ line = 0
  /\ status_line = FALSE
  /\ body_prefix = <<>>
  /\ headers = FALSE
  /\ header_count = 0
  /\ strings = 0
  /\ net = <<>>
  /\ peer = "open"
  /\ sent = <<>>

-----------------------------------------------------------------------------
(* Faulty variants, used by the mutation checks of the README.             *)

WholeSocket == Len(net)
FullTooSoon == Len(raw) >= MAX_HEADER_BYTES - 1
AfterBlankLine == header_end + 3
NamesOnly == strings - header_count
PollAgain == "wait"

-----------------------------------------------------------------------------
(* Helpers. *)

CrlfAt(s, k) == k + 2 <= Len(s) /\ s[k + 1] = CR /\ s[k + 2] = LF

(* Offsets of "\r\n\r\n" in s, and the first of them. *)
Terminators(s) == {k \in 0 .. Len(s) : CrlfAt(s, k) /\ CrlfAt(s, k + 2)}

find_header_end(s) ==
  IF Terminators(s) = {} THEN -1
  ELSE CHOOSE k \in Terminators(s) : \A j \in Terminators(s) : k <= j

(* strstr(line, "\r\n"): there is one at the latest at header_end. *)
NextCrlf(from) ==
  CHOOSE k \in from .. Len(raw) :
    CrlfAt(raw, k) /\ \A j \in from .. k - 1 : ~CrlfAt(raw, j)

(* What one conn_read can return: the free part of raw limits it.          *)
Available == Min(Len(net), MAX_HEADER_BYTES - Len(raw))

RawFull == Len(raw) = MAX_HEADER_BYTES

body_start == header_end + 4

AfterTimeout == "failed"

(* http_response_free releases the strings of the counted headers. *)
StringsAfterFree == strings - 2 * header_count

FreeResponse ==
  /\ status_line' = FALSE
  /\ body_prefix' = <<>>
  /\ headers' = FALSE
  /\ header_count' = 0
  /\ strings' = StringsAfterFree

(* The failure paths of the read loop free raw; those of the parser free   *)
(* raw and the response.                                                   *)
ReadFails(reason) ==
  /\ pc' = "failed"
  /\ error' = reason
  /\ has_raw' = FALSE
  /\ UNCHANGED <<raw, header_end, line, parsed, world>>

ParseFails(reason) ==
  /\ pc' = "failed"
  /\ error' = reason
  /\ has_raw' = FALSE
  /\ FreeResponse
  /\ UNCHANGED <<raw, header_end, line, world>>

-----------------------------------------------------------------------------
(* Lines 261-326: collecting bytes. *)

AllocRaw ==
  /\ pc = "start"
  /\ pc' = "wait"
  /\ has_raw' = TRUE
  /\ UNCHANGED <<error, raw, header_end, line, parsed, world>>

AllocRawFails ==
  /\ pc = "start"
  /\ "raw" \in AllocFails
  /\ ReadFails("memory")

(* SSL_pending or poll reports something to read. *)
Wakes ==
  /\ pc = "wait"
  /\ net # <<>> \/ peer # "open"
  /\ pc' = "read"
  /\ UNCHANGED <<error, reader, parsed, world>>

(* Nothing arrived for a whole timeout. *)
TimesOut ==
  /\ pc = "wait"
  /\ net = <<>>
  /\ peer = "open"
  /\ pc' = AfterTimeout
  /\ IF AfterTimeout = "failed"
     THEN error' = "timeout" /\ has_raw' = FALSE
     ELSE UNCHANGED <<error, has_raw>>
  /\ UNCHANGED <<raw, header_end, line, parsed, world>>

(* poll fails, or conn_read does (EINTR included). *)
IoFails ==
  /\ pc \in {"wait", "read"}
  /\ pc = "read" => ~RawFull
  /\ ReadFails("reading")

TooLarge ==
  /\ pc = "read"
  /\ RawFull
  /\ ReadFails("too large")

Read ==
  /\ pc = "read"
  /\ ~RawFull
  /\ \E k \in 1 .. Available :
       /\ raw' = raw \o SubSeq(net, 1, k)
       /\ net' = SubSeq(net, k + 1, Len(net))
  /\ header_end' = find_header_end(raw')
  /\ pc' = IF header_end' = -1 THEN "wait" ELSE "body"
  /\ UNCHANGED <<error, has_raw, line, parsed, peer, sent>>

ReadEnd ==
  /\ pc = "read"
  /\ ~RawFull
  /\ net = <<>>
  /\ \/ peer = "closed" /\ ReadFails("closed")
     \/ peer = "reset" /\ ReadFails("reading")

-----------------------------------------------------------------------------
(* Lines 328-364: the body bytes at hand and the status line. *)

KeepBody ==
  /\ pc = "body"
  /\ body_prefix' = SubSeq(raw, body_start + 1, Len(raw))
  /\ pc' = "status"
  /\ UNCHANGED <<error, reader, status_line, headers, header_count, strings,
                 world>>

KeepBodyFails ==
  /\ pc = "body"
  /\ "body" \in AllocFails
  /\ Len(raw) > body_start
  /\ ReadFails("memory")

(* The status line is copied and parsed. *)
StatusLine ==
  /\ pc = "status"
  /\ NextCrlf(0) > 0
  /\ status_line' = TRUE
  /\ line' = NextCrlf(0) + 2
  /\ pc' = "header"
  /\ UNCHANGED <<error, raw, has_raw, header_end, body_prefix, headers,
                 header_count, strings, world>>

BadStatusLine ==
  /\ pc = "status"
  /\ ParseFails("status")

StatusLineFails ==
  /\ pc = "status"
  /\ "status" \in AllocFails
  /\ ParseFails("memory")

-----------------------------------------------------------------------------
(* Lines 366-426: one iteration per header line. *)

InHeaders == pc = "header" /\ line < header_end

AddHeader ==
  /\ InHeaders
  /\ NextCrlf(line) > line
  /\ headers' = TRUE
  /\ strings' = strings + 2
  /\ header_count' = header_count + 1
  /\ line' = NextCrlf(line) + 2
  /\ UNCHANGED <<pc, error, raw, has_raw, header_end, status_line, body_prefix,
                 world>>

(* No colon, nothing before it, or a NUL byte that hides the line's end.   *)
BadHeader ==
  /\ InHeaders
  /\ ParseFails("header")

GrowHeadersFails ==
  /\ InHeaders
  /\ "headers" \in AllocFails
  /\ ParseFails("memory")

(* Neither the name nor the value can be copied. *)
CopyHeaderFails ==
  /\ InHeaders
  /\ "both" \in AllocFails
  /\ ParseFails("memory")

(* Only one of the two is copied.  header_count does not count the new     *)
(* entry yet, so the copy that succeeded is not freed.                     *)
CopyHalfFails ==
  /\ InHeaders
  /\ "string" \in AllocFails
  /\ pc' = "failed"
  /\ error' = "memory"
  /\ has_raw' = FALSE
  /\ status_line' = FALSE
  /\ body_prefix' = <<>>
  /\ headers' = FALSE
  /\ header_count' = 0
  /\ strings' = StringsAfterFree + 1
  /\ UNCHANGED <<raw, header_end, line, world>>

Finish ==
  /\ pc = "header"
  /\ line >= header_end
  /\ pc' = "ok"
  /\ has_raw' = FALSE
  /\ UNCHANGED <<error, raw, header_end, line, parsed, world>>

ReaderStep ==
  \/ AllocRaw \/ AllocRawFails
  \/ Wakes \/ TimesOut \/ TooLarge \/ Read \/ ReadEnd
  \/ KeepBody \/ KeepBodyFails \/ StatusLine \/ BadStatusLine \/ StatusLineFails
  \/ AddHeader \/ BadHeader \/ GrowHeadersFails \/ CopyHeaderFails
  \/ CopyHalfFails \/ Finish

-----------------------------------------------------------------------------
(* The server. *)

Send ==
  /\ pc \notin {"ok", "failed"}
  /\ peer = "open"
  /\ Len(sent) < MaxSent
  /\ \E p \in Pieces : net' = net \o p /\ sent' = sent \o p
  /\ UNCHANGED <<pc, error, reader, parsed, peer>>

EndConnection ==
  /\ pc \notin {"ok", "failed"}
  /\ peer = "open"
  /\ peer' \in {"closed", "reset"}
  /\ UNCHANGED <<pc, error, reader, parsed, net, sent>>

Next == ReaderStep \/ IoFails \/ Send \/ EndConnection

Spec == Init /\ [][Next]_vars

(* The process runs, and a timeout that has expired is taken. *)
FairSpec == Spec /\ WF_vars(ReaderStep)

-----------------------------------------------------------------------------
(* The types of the locals; raw never outgrows its allocation.             *)
TypeOK ==
  /\ pc \in {"start", "wait", "read", "body", "status", "header", "ok", "failed"}
  /\ error \in {"none", "memory", "timeout", "reading", "too large", "closed",
                "status", "header"}
  /\ raw \in Seq(Byte)
  /\ Len(raw) <= MAX_HEADER_BYTES
  /\ has_raw \in BOOLEAN
  /\ header_end \in -1 .. MAX_HEADER_BYTES
  /\ line \in 0 .. MAX_HEADER_BYTES
  /\ status_line \in BOOLEAN
  /\ body_prefix \in Seq(Byte)
  /\ headers \in BOOLEAN
  /\ header_count \in 0 .. MAX_HEADER_BYTES
  /\ strings \in 0 .. 2 * MAX_HEADER_BYTES
  /\ net \in Seq(Byte)
  /\ peer \in {"open", "closed", "reset"}
  /\ sent \in Seq(Byte)

(* However the network cuts the response, also inside the blank line: the  *)
(* headers end at the first blank line the server sent, and the bytes kept *)
(* for the stream with those not yet read are what follows it: no audio is *)
(* lost, doubled or taken for a header.                                    *)
BodyKept ==
  pc = "ok" =>
    LET end == find_header_end(sent) IN
    /\ end # -1
    /\ body_prefix \o net = SubSeq(sent, end + 5, Len(sent))

(* The limit and the end of the headers are judged by the same bytes: a    *)
(* response is accepted only if its headers end within MAX_HEADER_BYTES,   *)
(* refused as too large only if that many bytes came without the end, and  *)
(* given up for silence or for the end of the connection only if all it    *)
(* sent was looked at and the end was not there.  A full raw is never      *)
(* handed to a read of zero bytes, whose 0 would pass for a close.  (Which *)
(* refusal it is may depend on time: MAX_HEADER_BYTES bytes and silence    *)
(* are a timeout, and too large only when one more byte comes or the       *)
(* connection ends, as poll precedes the check: http.c:285, 306.)          *)
LimitKept ==
  LET end == find_header_end(SubSeq(sent, 1, Min(Len(sent), MAX_HEADER_BYTES))) IN
  /\ pc = "ok" => end # -1
  /\ error \in {"too large", "timeout", "closed"} => end = -1
  /\ error = "too large" => Len(sent) >= MAX_HEADER_BYTES
  /\ error = "timeout" => Len(sent) <= MAX_HEADER_BYTES
  /\ error = "closed" => Len(sent) < MAX_HEADER_BYTES

(* On every exit raw is freed, however far the parser came; a failure      *)
(* leaves nothing of the response and a success two strings for every      *)
(* counted header.  Only memory running out may leave a string behind, and *)
(* then a single one.                                                      *)
Released ==
  pc \in {"ok", "failed"} =>
    /\ ~has_raw
    /\ strings - 2 * header_count \in IF error = "memory" THEN {0, 1} ELSE {0}
    /\ pc = "failed" =>
         ~status_line /\ body_prefix = <<>> /\ ~headers /\ header_count = 0

(* What the comment of http_response_free says: it "frees all dynamically  *)
(* owned response fields", so that a failure leaves no string behind.      *)
NothingLeaks == pc = "failed" => strings = 0

(* Over plain TCP no server can hold the client in the headers for ever:   *)
(* silence is timed out and bytes run into the limit, however slowly they  *)
(* come.  (TLS, where the read itself can block, is StreamReceive's.)      *)
HeadersEnd == <>(pc \in {"ok", "failed"})
=============================================================================
