\* quit typed at once to a client whose server never completes its headers.
SPECIFICATION FairSpec
CONSTANTS
  MAX_REDIRECTS = 1
  Cookies = {"c1"}
  Locations = {"u1"}
  QuitPieces = 1
  UseTls = FALSE
PROPERTY QuitStops
CHECK_DEADLOCK FALSE
