\* Names with up to three addresses, TCP and TLS, opened again and again.
SPECIFICATION FairSpec
CONSTANTS
  TlsChoices = {TRUE, FALSE}
  MaxAddrs = 3
INVARIANT TypeOK
INVARIANT NothingHeld
INVARIANT FirstInOrder
PROPERTY OpenReturns
