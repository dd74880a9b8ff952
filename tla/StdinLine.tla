------------------------------ MODULE StdinLine ------------------------------
(***************************************************************************)
(* The command line of the user: stdin_consume_bytes of src/stream.c, one  *)
(* action per branch of its loop, called by stdin_read_ready with whatever *)
(* bytes a read returns, in one stream_receive after another.              *)
(***************************************************************************)
EXTENDS Integers, Sequences

CONSTANTS
  QuitWord,   \* the bytes of quit
  NL,         \* '\n'
  CR,         \* '\r'
  Other,      \* the other bytes the user may type
  LineCap,    \* STDIN_LINE_BUFFER_SIZE
  MaxRead,    \* STDIN_READ_BUFFER_SIZE
  MaxConsumed \* bound: bytes consumed in all

Letters == {QuitWord[k] : k \in 1 .. Len(QuitWord)}
Char    == Letters \cup Other \cup {NL, CR}

ASSUME LineAssumption ==
  /\ QuitWord \in Seq(Letters)
  /\ NL # CR
  /\ NL \notin Letters \cup Other
  /\ CR \notin Letters
  /\ LineCap \in Nat /\ LineCap > Len(QuitWord)
  /\ MaxRead \in Nat /\ MaxConsumed \in Nat

VARIABLES
  line_buf,       \* line_buf[0 .. line_len - 1], as a sequence
  line_overflow,  \* *line_overflow
  call,           \* "idle", "consuming", "quit" (it returned 1)
  buf,            \* the bytes of the read
  i,              \* index of the next byte, as in the code
  session,        \* history: bytes consumed by this stream_receive
  consumed        \* how many bytes were consumed since the program started

line == <<line_buf, line_overflow>>
lineVars == <<line, call, buf, i, session, consumed>>

LineInit ==
  /\ line_buf = <<>>
  /\ line_overflow = FALSE
  /\ call = "idle"
  /\ buf = <<>>
  /\ i = 0
  /\ session = <<>>
  /\ consumed = 0

-----------------------------------------------------------------------------
(* Faulty variants, used by the mutation checks of the README.             *)

KeepCR(s) == s
KeepOverflow == line_overflow
NoCap == TRUE

-----------------------------------------------------------------------------
StripCR(s) == IF s # <<>> /\ s[Len(s)] = CR THEN SubSeq(s, 1, Len(s) - 1) ELSE s

OverflowAfterLine == FALSE

HasRoom == Len(line_buf) < LineCap

Read(bytes) ==
  /\ call = "idle"
  /\ consumed + Len(bytes) <= MaxConsumed
  /\ call' = "consuming"
  /\ buf' = bytes
  /\ i' = 0
  /\ UNCHANGED <<line, session, consumed>>

(* One iteration looks at ch. *)
Take(ch) ==
  /\ call = "consuming"
  /\ i < Len(buf)
  /\ ch = buf[i + 1]
  /\ i' = i + 1
  /\ session' = Append(session, ch)
  /\ consumed' = consumed + 1
  /\ UNCHANGED buf

IsQuit == ~line_overflow /\ StripCR(line_buf) = QuitWord

QuitLine ==
  /\ Take(NL)
  /\ IsQuit
  /\ call' = "quit"
  /\ UNCHANGED line

OtherLine ==
  /\ Take(NL)
  /\ ~IsQuit
  /\ line_buf' = <<>>
  /\ line_overflow' = OverflowAfterLine
  /\ UNCHANGED call

Store(ch) ==
  /\ Take(ch)
  /\ ch # NL
  /\ ~line_overflow
  /\ HasRoom
  /\ line_buf' = Append(line_buf, ch)
  /\ UNCHANGED <<line_overflow, call>>

Overflow(ch) ==
  /\ Take(ch)
  /\ ch # NL
  /\ ~line_overflow
  /\ ~HasRoom
  /\ line_overflow' = TRUE
  /\ UNCHANGED <<line_buf, call>>

Skip(ch) ==
  /\ Take(ch)
  /\ ch # NL
  /\ line_overflow
  /\ UNCHANGED <<line, call>>

ReadReturn ==
  /\ call = "consuming"
  /\ i = Len(buf)
  /\ call' = "idle"
  /\ buf' = <<>>
  /\ i' = 0
  /\ UNCHANGED <<line, session, consumed>>

(* A timeout ends stream_receive; its successor starts with an empty line. *)
Reconnect ==
  /\ call = "idle"
  /\ line_buf' = <<>>
  /\ line_overflow' = FALSE
  /\ session' = <<>>
  /\ UNCHANGED <<call, buf, i, consumed>>

LineNext ==
  \/ \E n \in 1 .. MaxRead : \E bytes \in [1 .. n -> Char] : Read(bytes)
  \/ QuitLine \/ OtherLine
  \/ \E ch \in Char : Store(ch) \/ Overflow(ch) \/ Skip(ch)
  \/ ReadReturn
  \/ Reconnect

LineSpec == LineInit /\ [][LineNext]_lineVars

-----------------------------------------------------------------------------
(* The types of the line buffer and of the call in progress; the buffer    *)
(* never holds more than its capacity.                                     *)
LineTypeOK ==
  /\ line_buf \in Seq(Char)
  /\ Len(line_buf) <= LineCap
  /\ line_overflow \in BOOLEAN
  /\ call \in {"idle", "consuming", "quit"}
  /\ buf \in Seq(Char)
  /\ i \in 0 .. Len(buf)
  /\ session \in Seq(Char)
  /\ consumed \in 0 .. MaxConsumed

Newlines(s) == {k \in 1 .. Len(s) : s[k] = NL}

(* The lines completed in s: the pairs of the positions around each.       *)
LinesOf(s) ==
  {l \in ({0} \cup Newlines(s)) \X Newlines(s) :
     l[1] < l[2] /\ \A k \in Newlines(s) : k <= l[1] \/ k >= l[2]}

QuitTyped(s) ==
  \E l \in LinesOf(s) :
    SubSeq(s, l[1] + 1, l[2] - 1) \in {QuitWord, Append(QuitWord, CR)}

(* In one stream_receive the command is recognised when, and only when, a  *)
(* complete line reads quit: not its beginning, not a longer line, not two *)
(* lines, and never too late.  A session begins with a reconnection, which *)
(* cuts a line in progress: its rest then counts as a line.                *)
QuitExact == call = "quit" <=> QuitTyped(session)
=============================================================================
