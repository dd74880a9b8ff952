\* Attempts of up to three hops, restarts without end, a quit typed in two
\* pieces at any time, and servers that stop.
SPECIFICATION FairSpec
CONSTANTS
  MAX_REDIRECTS = 2
  Cookies = {"c1", "c2"}
  Locations = {"u1", "u2"}
  QuitPieces = 2
  UseTls = TRUE
INVARIANT TypeOK
INVARIANT NoMemoryFault
INVARIANT RequestMatches
PROPERTY QuitWhileStreaming
PROPERTY ImplementsSession
\* client_run returns.
CHECK_DEADLOCK FALSE
