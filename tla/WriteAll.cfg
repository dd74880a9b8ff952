\* Calls with buffers of up to three bytes, over plain descriptors and TLS.
SPECIFICATION Spec
CONSTANTS
  Byte = {1, 2}
  TlsChoices = {TRUE, FALSE}
  INT_MAX = 2
  MaxLen = 3
  MaxOut = 4
  MaxRetries = 2
INVARIANT TypeOK
INVARIANT RetryRepeats
PROPERTY ImplementsStream
\* No call follows one that failed.
CHECK_DEADLOCK FALSE
