\* Memory runs out between the two copies of a header line.
SPECIFICATION FairSpec
CONSTANTS
  CR = "cr"
  LF = "lf"
  Other = "x"
  MAX_HEADER_BYTES = 11
  AllocFails = {"string"}
  MaxSent = 11
  Pieces <- MCPieces
INVARIANT NothingLeaks
\* http_read_response returns.
CHECK_DEADLOCK FALSE
