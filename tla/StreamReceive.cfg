\* The receive loop, plain and TLS, with fragmented records, every kind of
\* stdin, and signals.
SPECIFICATION FairSpec
CONSTANTS
  Timeout = 2
  TlsChoices = {TRUE, FALSE}
  Segments = {"data", "frag"}
  StdinKinds = {"open", "eof", "endless", "invalid"}
  MaxNet = 2
  MaxPending = 1
  MaxTyped = 2
  MaxEintr = 1
INVARIANT TypeOK
INVARIANT ReadsFindInput
INVARIANT StdinHeard
PROPERTY TimeoutJustified
PROPERTY QuitUnlessCut
PROPERTY SilenceEnds
\* stream_receive returns.
CHECK_DEADLOCK FALSE
