\* Every command line of up to four of fifteen arguments.
SPECIFICATION Spec
CONSTANTS
  Blank = {" "}
  Digit <- MCDigit
  Letter = {"x"}
  CommandLines <- MCCommandLines
  DEFAULT_TIMEOUT_MS = 5
  MIN_TIMEOUT_MS = 1
  MAX_TIMEOUT_MS = 8
  DEFAULT_VERBOSITY = 2
  MIN_VERBOSITY = 0
  MAX_VERBOSITY = 4
  NULL = NULL
INVARIANT TypeOK
INVARIANT LastWins
INVARIANT UrlHeld
INVARIANT NothingSkipped
\* The program exits.
CHECK_DEADLOCK FALSE
