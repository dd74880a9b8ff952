\* Chains of up to two redirects, every failure on the way, and restarts.
SPECIFICATION Spec
CONSTANTS
  Plain = {"x"}
  Barred = {"@"}
  Blank = {" "}
  Digit <- MCDigit
  MaxPort = 70
  DefaultPort <- MCDefaultPort
  MAX_REDIRECTS = 2
  Originals <- MCOriginals
  Responses <- MCResponses
  NULL = NULL
INVARIANT TypeOK
INVARIANT WellFormed
INVARIANT ResolvesAsText
INVARIANT HeldExactly
INVARIANT RequestFits
\* The client exits.
CHECK_DEADLOCK FALSE
