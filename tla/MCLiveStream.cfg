SPECIFICATION FairSpec
CONSTANTS
  Readers = {r1, r2}
  Capacity = 2
  MaxLineBytes = 3
  Texts <- MCTexts
  MaxConnections = 2
  Null = Null
INVARIANTS
  StreamTypeOK
  LinesExact
  OneLineAfterShutdown
PROPERTIES
  FeedSpec
  CatchesUp
CHECK_DEADLOCK FALSE
