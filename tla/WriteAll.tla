------------------------------ MODULE WriteAll ------------------------------
(***************************************************************************)
(* The two loops that write a whole buffer: write_all_fd of src/io.c, and  *)
(* conn_write_all of src/net.c, which is the same over TCP and calls       *)
(* SSL_write over TLS.  A caller writes one buffer after another, and none *)
(* after a failure: audio and requests are written so.  What is logged to  *)
(* stderr after a failed write of it is left out.                          *)
(***************************************************************************)
EXTENDS Integers, Sequences

CONSTANTS
  Byte,        \* the bytes
  TlsChoices,  \* the values of conn->use_tls considered
  INT_MAX,     \* the largest SSL_write
  MaxLen,      \* bound: bytes of a buffer
  MaxOut,      \* bound: no call starts with so many bytes out
  MaxRetries   \* bound: writes interrupted or to be repeated

ASSUME ChoicesAssumption == TlsChoices \subseteq BOOLEAN
ASSUME BoundAssumption ==
  /\ INT_MAX \in Nat \ {0}
  /\ MaxLen \in Nat
  /\ MaxOut \in Nat
  /\ MaxRetries \in Nat

VARIABLES
  pc,       \* "idle", "loop" in the loop, "failed" after a call returned -1
  use_tls,  \* which loop
  buf,      \* the buffer of the call
  written,  \* the local of that name
  out,      \* history: bytes the kernel or OpenSSL has taken
  retries,  \* writes interrupted or to be repeated so far
  wanted    \* offset and length of the SSL_write to be repeated, or <<>>

vars == <<pc, use_tls, buf, written, out, retries, wanted>>

Buffers == UNION {[1 .. n -> Byte] : n \in 0 .. MaxLen}

Min(a, b) == IF a < b THEN a ELSE b

Init ==
  /\ pc = "idle"
  /\ use_tls \in TlsChoices
  /\ buf = <<>>
  /\ written = 0
  /\ out = <<>>
  /\ retries = 0
  /\ wanted = <<>>

-----------------------------------------------------------------------------
(* Faulty variants, used by the mutation checks of the README.             *)

FromStart(k) == SubSeq(buf, 1, k)
CountAnyway == written + 1
WholeBuffer == Len(buf)

-----------------------------------------------------------------------------
(* Helpers. *)

(* What is left to write, and how much of it one SSL_write is given. *)
remaining == Len(buf) - written

chunk == Min(remaining, INT_MAX)

(* The bytes of a write of k bytes that is given buf + written. *)
Given(k) == SubSeq(buf, written + 1, written + k)

(* written after a write that has to be repeated. *)
AfterRetry == written

InLoop == pc = "loop" /\ written < Len(buf)

(* A write takes k bytes. *)
Takes(k) ==
  /\ out' = out \o Given(k)
  /\ written' = written + k
  /\ UNCHANGED <<pc, use_tls, buf, retries>>

-----------------------------------------------------------------------------
Call(bytes) ==
  /\ pc = "idle"
  /\ Len(out) < MaxOut
  /\ buf' = bytes
  /\ written' = 0
  /\ pc' = "loop"
  /\ UNCHANGED <<use_tls, out, retries, wanted>>

(* write takes at least one byte. *)
Write ==
  /\ InLoop
  /\ ~use_tls
  /\ \E k \in 1 .. remaining : Takes(k)
  /\ UNCHANGED wanted

Interrupted ==
  /\ InLoop
  /\ ~use_tls
  /\ retries < MaxRetries
  /\ retries' = retries + 1
  /\ written' = AfterRetry
  /\ UNCHANGED <<pc, use_tls, buf, out, wanted>>

(* SSL_write takes all it is given: partial writes are not enabled. *)
SslWrite ==
  /\ InLoop
  /\ use_tls
  /\ Takes(chunk)
  /\ wanted' = <<>>

(* SSL_ERROR_WANT_READ or SSL_ERROR_WANT_WRITE. *)
SslWants ==
  /\ InLoop
  /\ use_tls
  /\ retries < MaxRetries
  /\ retries' = retries + 1
  /\ wanted' = <<written, chunk>>
  /\ written' = AfterRetry
  /\ UNCHANGED <<pc, use_tls, buf, out>>

(* An error, or a write of no bytes. *)
WriteFails ==
  /\ InLoop
  /\ pc' = "failed"
  /\ UNCHANGED <<use_tls, buf, written, out, retries, wanted>>

Return ==
  /\ pc = "loop"
  /\ written >= Len(buf)
  /\ pc' = "idle"
  /\ UNCHANGED <<use_tls, buf, written, out, retries, wanted>>

Next ==
  \/ \E bytes \in Buffers : Call(bytes)
  \/ Write \/ Interrupted \/ SslWrite \/ SslWants \/ WriteFails \/ Return

Spec == Init /\ [][Next]_vars

-----------------------------------------------------------------------------
(* The locals; written never passes the end of the buffer.                 *)
TypeOK ==
  /\ pc \in {"idle", "loop", "failed"}
  /\ use_tls \in BOOLEAN
  /\ buf \in Seq(Byte)
  /\ written \in 0 .. Len(buf)
  /\ out \in Seq(Byte)
  /\ retries \in 0 .. MaxRetries
  /\ wanted = <<>> \/ wanted \in Nat \X (1 .. INT_MAX)

(* OpenSSL demands that an SSL_write that reported WANT_READ or WANT_WRITE *)
(* be repeated with the same bytes.  The arguments are computed anew, and  *)
(* are the same.                                                           *)
RetryRepeats ==
  InLoop /\ wanted # <<>> => wanted = <<written, chunk>>

(* However the kernel splits the writes, interrupts or refuses them: bytes *)
(* go out once, in order and all of them, or the call fails after a first  *)
(* part.                                                                   *)
Stream == INSTANCE OutputStream WITH
  status  <- CASE pc = "idle" -> "idle" [] pc = "loop" -> "busy"
               [] OTHER -> "failed",
  pending <- SubSeq(buf, written + 1, Len(buf))

ImplementsStream == Stream!Init /\ [][Stream!Next]_(Stream!vars)
=============================================================================
