------------------------------- MODULE Options -------------------------------
(***************************************************************************)
(* config_parse of src/config.c with the helpers it calls, and what main   *)
(* does with the result.  argv leaves out the program's name.              *)
(***************************************************************************)
EXTENDS Texts, SequencesExt

CONSTANTS
  Blank,           \* the characters of isspace
  Digit,           \* the digits: a function to their values
  Letter,          \* characters without a meaning to config_parse
  CommandLines,    \* sequences of arguments
  DEFAULT_TIMEOUT_MS, MIN_TIMEOUT_MS, MAX_TIMEOUT_MS,
  DEFAULT_VERBOSITY, MIN_VERBOSITY, MAX_VERBOSITY,
  NULL

Flag   == {"m", "4", "6", "q"}
Valued == {"u", "t", "v"}
Char   == Blank \cup DOMAIN Digit \cup Letter \cup Flag \cup Valued \cup {"-", "+"}
Sign   == {"-", "+"}

ASSUME CharAssumption ==
  /\ CommandLines \subseteq Seq(Seq(Char))
  /\ Digit \in [DOMAIN Digit -> 0 .. 9]
  /\ NULL \notin Seq(Char)
ASSUME RangeAssumption ==
  /\ MIN_TIMEOUT_MS \in Int /\ MAX_TIMEOUT_MS \in Int
  /\ MIN_VERBOSITY \in Int /\ MAX_VERBOSITY \in Int
  /\ DEFAULT_TIMEOUT_MS \in MIN_TIMEOUT_MS .. MAX_TIMEOUT_MS
  /\ {0, DEFAULT_VERBOSITY} \subseteq MIN_VERBOSITY .. MAX_VERBOSITY

VARIABLES
  argv,    \* the arguments
  pc,      \* "argument", "group", "client", "exited", "refused"
  index,   \* the argument read next or being read
  pos,     \* the character of it
  config,  \* parsed, and out once client_run is called
  saw,     \* saw_ipv4 and saw_ipv6: which of "4" and "6" were given
  copies,  \* copies of URLs allocated and not freed
  seen     \* history: the options read, with their text and its value

vars == <<argv, pc, index, pos, config, saw, copies, seen>>

config_init ==
  [url |-> NULL, want_metadata |-> FALSE, timeout_ms |-> DEFAULT_TIMEOUT_MS,
   verbosity |-> DEFAULT_VERBOSITY, ip_mode |-> "AUTO"]

Init ==
  /\ argv \in CommandLines
  /\ pc = "argument"
  /\ index = 1
  /\ pos = 1
  /\ config = config_init
  /\ saw = {}
  /\ copies = 0
  /\ seen = <<>>

-----------------------------------------------------------------------------
(* Helpers. *)

arg == argv[index]

Dashed(text) == text # <<>> /\ Head(text) = "-"

(* Faulty variants, used by the mutation checks of the README.             *)
SameIndex(i) == i
KeepPrevious(url) == 0
QuietOnce(letter) ==
  IF letter = "q" /\ config.verbosity = DEFAULT_VERBOSITY THEN 0 ELSE config.verbosity

(* *index += 1, for a value in an argument of its own.                     *)
ValueIndex(i) == i + 1

(* consume_option_value: the rest of the argument, or the next one.        *)
Attached == pos < Len(arg)
HasValue == Attached \/ (index < Len(argv) /\ ~Dashed(argv[index + 1]))
OptionValue == IF Attached THEN SubSeq(arg, pos + 1, Len(arg)) ELSE argv[index + 1]
LastIndex   == IF Attached THEN index ELSE ValueIndex(index)

(* strtol: blanks, a sign, digits; parse_bounded_int wants nothing after.  *)
Unsigned(text) ==
  LET body == From(text, Char \ Blank) IN
  IF body # <<>> /\ Head(body) \in Sign THEN Tail(body) ELSE body

IsNumber(text) ==
  /\ Unsigned(text) # <<>>
  /\ \A i \in 1 .. Len(Unsigned(text)) : Unsigned(text)[i] \in DOMAIN Digit

NumberValue(text) ==
  LET value == DecimalValue(Unsigned(text), Digit) IN
  IF Head(From(text, Char \ Blank)) = "-" THEN -value ELSE value

(* A faulty variant: only the lower bound. *)
FromMinimum(text, min_value, max_value) == IsNumber(text) /\ NumberValue(text) >= min_value

(* A number beyond a long or an int is out of range either way.            *)
parse_bounded_int(text, min_value, max_value) ==
  IsNumber(text) /\ NumberValue(text) \in min_value .. max_value

GoodTimeout(text)   == parse_bounded_int(text, MIN_TIMEOUT_MS, MAX_TIMEOUT_MS)
GoodVerbosity(text) == parse_bounded_int(text, MIN_VERBOSITY, MAX_VERBOSITY)

(* free(config->url): how many copies it gives back.                       *)
Returned(url) == IF url = NULL THEN 0 ELSE 1

(* The case of "q"; other flags leave verbosity alone.                     *)
VerbosityAfter(letter) == IF letter = "q" THEN 0 ELSE config.verbosity

Read(letter, text, value) ==
  seen' = Append(seen, [option |-> letter, text |-> text, value |-> value])

(* config_free, by config_parse when it fails and by main at the end.      *)
FreeConfig ==
  /\ copies' = copies - Returned(config.url)
  /\ config' = config_init

-----------------------------------------------------------------------------
(* config_parse. *)

StartGroup ==
  /\ pc = "argument"
  /\ index <= Len(argv)
  /\ Dashed(arg) /\ Len(arg) > 1
  /\ pos' = 2
  /\ pc' = "group"
  /\ UNCHANGED <<argv, index, config, saw, copies, seen>>

EndGroup ==
  /\ pc = "group"
  /\ pos > Len(arg)
  /\ index' = index + 1
  /\ pc' = "argument"
  /\ UNCHANGED <<argv, pos, config, saw, copies, seen>>

ReadFlag ==
  /\ pc = "group"
  /\ pos <= Len(arg)
  /\ arg[pos] \in Flag
  /\ config' = [config EXCEPT !.want_metadata = @ \/ arg[pos] = "m",
                              !.verbosity = VerbosityAfter(arg[pos])]
  /\ saw' = saw \cup ({arg[pos]} \cap {"4", "6"})
  /\ Read(arg[pos], <<>>, 0)
  /\ pos' = pos + 1
  /\ UNCHANGED <<argv, pc, index, copies>>

(* What the cases of "u", "t" and "v" share: their value ends the group.   *)
AtOption(letter) ==
  pc = "group" /\ pos <= Len(arg) /\ arg[pos] = letter /\ HasValue

TakeValue(letter, value) ==
  /\ Read(letter, OptionValue, value)
  /\ index' = LastIndex + 1
  /\ pc' = "argument"
  /\ UNCHANGED <<argv, pos, saw>>

(* config_set_url: the copy is made before the previous one is freed.      *)
ReadUrl ==
  /\ AtOption("u")
  /\ TakeValue("u", OptionValue)
  /\ copies' = copies + 1 - Returned(config.url)
  /\ config' = [config EXCEPT !.url = OptionValue]

ReadTimeout ==
  /\ AtOption("t")
  /\ GoodTimeout(OptionValue)
  /\ TakeValue("t", NumberValue(OptionValue))
  /\ config' = [config EXCEPT !.timeout_ms = NumberValue(OptionValue)]
  /\ UNCHANGED copies

ReadVerbosity ==
  /\ AtOption("v")
  /\ GoodVerbosity(OptionValue)
  /\ TakeValue("v", NumberValue(OptionValue))
  /\ config' = [config EXCEPT !.verbosity = NumberValue(OptionValue)]
  /\ UNCHANGED copies

(* What is wrong with the argument, the option or its value; a URL can     *)
(* always fail to be copied.                                               *)
BadArgument == ~(Dashed(arg) /\ Len(arg) > 1)
BadOption ==
  \/ arg[pos] \notin Flag \cup Valued
  \/ arg[pos] \in Valued /\ ~HasValue
  \/ AtOption("u")
  \/ AtOption("t") /\ ~GoodTimeout(OptionValue)
  \/ AtOption("v") /\ ~GoodVerbosity(OptionValue)

Refuse ==
  /\ \/ pc = "argument" /\ index <= Len(argv) /\ BadArgument
     \/ pc = "argument" /\ index > Len(argv) /\ config.url = NULL
     \/ pc = "group" /\ pos <= Len(arg) /\ BadOption
  /\ FreeConfig
  /\ pc' = "refused"
  /\ UNCHANGED <<argv, index, pos, saw, seen>>

(* finalize_ip_mode, and main goes on to client_run.                       *)
Accept ==
  /\ pc = "argument"
  /\ index > Len(argv)
  /\ config.url # NULL
  /\ config' = [config EXCEPT !.ip_mode = CASE saw = {"4"} -> "IPV4"
                                            [] saw = {"6"} -> "IPV6"
                                            [] OTHER       -> "AUTO"]
  /\ pc' = "client"
  /\ UNCHANGED <<argv, index, pos, saw, copies, seen>>

(* client_run returns and main frees the configuration.                    *)
ClientReturns ==
  /\ pc = "client"
  /\ FreeConfig
  /\ pc' = "exited"
  /\ UNCHANGED <<argv, index, pos, saw, seen>>

Next ==
  \/ StartGroup \/ EndGroup
  \/ ReadFlag \/ ReadUrl \/ ReadTimeout \/ ReadVerbosity
  \/ Refuse \/ Accept
  \/ ClientReturns

Spec == Init /\ [][Next]_vars

-----------------------------------------------------------------------------
(* Type invariant; a timeout or a verbosity out of its range never gets    *)
(* into the configuration (config.c:136-146).                              *)
TypeOK ==
  /\ argv \in Seq(Seq(Char))
  /\ pc \in {"argument", "group", "client", "exited", "refused"}
  /\ index \in Nat \ {0}
  /\ pos \in Nat \ {0}
  /\ config \in [url : Seq(Char) \cup {NULL},
                 want_metadata : BOOLEAN,
                 timeout_ms : MIN_TIMEOUT_MS .. MAX_TIMEOUT_MS,
                 verbosity : MIN_VERBOSITY .. MAX_VERBOSITY,
                 ip_mode : {"AUTO", "IPV4", "IPV6"}]
  /\ saw \subseteq {"4", "6"}
  /\ copies \in Nat

(* The option of letters that comes last in s has this value, or s has     *)
(* none of them and it is the default.                                     *)
IsLast(s, letters, value, default) ==
  \/ \E i \in 1 .. Len(s) :
       /\ s[i].option \in letters
       /\ s[i].value = value
       /\ \A j \in i + 1 .. Len(s) : s[j].option \notin letters
  \/ /\ \A i \in 1 .. Len(s) : s[i].option \notin letters
     /\ value = default

Given(s) == {s[i].option : i \in 1 .. Len(s)}

(* The project's rules for repeated and contradicting options, over the    *)
(* whole command line: the last -u, the last -t, the last of -v and -q     *)
(* count, a single -m is enough, and -4 with -6 is neither                 *)
(* (config.c:193-198).                                                     *)
LastWins ==
  pc \in {"argument", "group", "client"} =>
    /\ IsLast(seen, {"u"}, config.url, NULL)
    /\ IsLast(seen, {"t"}, config.timeout_ms, DEFAULT_TIMEOUT_MS)
    /\ IsLast(seen, {"v", "q"}, config.verbosity, DEFAULT_VERBOSITY)
    /\ config.want_metadata <=> "m" \in Given(seen)
    /\ pc = "client" =>
         /\ config.ip_mode = "IPV4" <=> Given(seen) \cap {"4", "6"} = {"4"}
         /\ config.ip_mode = "IPV6" <=> Given(seen) \cap {"4", "6"} = {"6"}

(* However often -u is given and wherever parsing stops, one copy of a URL *)
(* is held while there is one, and none is left when main returns          *)
(* (config.c:80-87, config.c:304-323, main.c:31-37).                       *)
UrlHeld ==
  /\ copies = IF config.url = NULL THEN 0 ELSE 1
  /\ pc \in {"exited", "refused"} => copies = 0

(* A command line without the dashes that begin its groups. *)
Undashed(text) == IF Dashed(text) THEN Tail(text) ELSE text
Flat(args) == FlattenSeq([i \in 1 .. Len(args) |-> Undashed(args[i])])

(* Options, written one after the other. *)
Spelled(s) == FlattenSeq([i \in 1 .. Len(s) |-> <<s[i].option>> \o s[i].text])

(* Grouping, attached and separate values: each character of the arguments *)
(* read so far belongs to exactly one option or its value, in order, so    *)
(* none is skipped and no value is read again as an argument               *)
(* (config.c:103-117, config.c:301-318).                                   *)
NothingSkipped ==
  /\ pc \in {"argument", "client"} => Spelled(seen) = Flat(SubSeq(argv, 1, index - 1))
  /\ pc = "group" =>
       Spelled(seen) = Flat(SubSeq(argv, 1, index - 1)) \o SubSeq(arg, 2, pos - 1)
=============================================================================
