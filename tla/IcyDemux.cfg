\* icy_feed on every stream of up to MaxInput bytes cut in every way.
SPECIFICATION FairSpec
CONSTANTS
  MetaInt = 2
  Unit = 1
  MaxByte = 2
  MaxChunk = 3
  MaxInput = 9
  Garbage = garbage
INVARIANT TypeOK
INVARIANT BlockFits
INVARIANT BlockWritten
INVARIANT Delivered
PROPERTY ImplementsFraming
PROPERTY FeedReturns
\* The demuxer is freed once and used no more.
CHECK_DEADLOCK FALSE
