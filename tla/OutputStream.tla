---------------------------- MODULE OutputStream ----------------------------
(***************************************************************************)
(* What write_all_fd and conn_write_all promise their callers: the bytes   *)
(* of a call go out once, in order and all of them, or the call fails      *)
(* after a first part of them and is the last one.                         *)
(***************************************************************************)
EXTENDS Integers, Sequences

CONSTANT Buffers  \* what a call may be given

VARIABLES
  status,   \* "idle", "busy" in a call, "failed" after one that failed
  pending,  \* bytes of the call that are not out yet
  out       \* bytes out

vars == <<status, pending, out>>

Init ==
  /\ status = "idle"
  /\ pending = <<>>
  /\ out = <<>>

Call(bytes) ==
  /\ status = "idle"
  /\ status' = "busy"
  /\ pending' = bytes
  /\ UNCHANGED out

Emit(k) ==
  /\ status = "busy"
  /\ out' = out \o SubSeq(pending, 1, k)
  /\ pending' = SubSeq(pending, k + 1, Len(pending))
  /\ UNCHANGED status

Return ==
  /\ status = "busy"
  /\ pending = <<>>
  /\ status' = "idle"
  /\ UNCHANGED <<pending, out>>

Fail ==
  /\ status = "busy"
  /\ pending # <<>>
  /\ status' = "failed"
  /\ UNCHANGED <<pending, out>>

Next ==
  \/ \E bytes \in Buffers : Call(bytes)
  \/ \E k \in 1 .. Len(pending) : Emit(k)
  \/ Return
  \/ Fail

Spec == Init /\ [][Next]_vars
=============================================================================
