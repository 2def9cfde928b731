SPECIFICATION FairSpec
CONSTANTS
  Streams = {s1}
  Programs = {1}
  Titles = {1}
  Suffixes = {0}
  Seconds = {0, 1, 2}
  Lines <- MCLines
  MaxLines = 2
  Null = Null
  Title <- MCTitle
  MaxStall = 1
  MaxHeard = 2
  MaxFaults = 1
  Retention = 2
INVARIANTS
  ActiveNeverCollected
  StaleRowsOwed
PROPERTIES
  EventuallyIndexed
  StaleRowsGo
