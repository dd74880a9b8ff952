\* The server stops in the middle of a TLS record.
SPECIFICATION FairSpec
CONSTANTS
  Timeout = 2
  TlsChoices = {TRUE}
  Segments = {"data", "frag"}
  StdinKinds = {"open"}
  MaxNet = 1
  MaxPending = 2
  MaxTyped = 2
  MaxEintr = 0
PROPERTY QuitObeyed
CHECK_DEADLOCK FALSE
