\* Every response of pieces of MCPieces, cut in every way.
SPECIFICATION FairSpec
CONSTANTS
  CR = "cr"
  LF = "lf"
  Other = "x"
  MAX_HEADER_BYTES = 11
  AllocFails = {"raw", "body", "status", "headers", "both", "string"}
  MaxSent = 11
  Pieces <- MCPieces
INVARIANT TypeOK
INVARIANT BodyKept
INVARIANT LimitKept
INVARIANT Released
PROPERTY HeadersEnd
\* http_read_response returns.
CHECK_DEADLOCK FALSE
