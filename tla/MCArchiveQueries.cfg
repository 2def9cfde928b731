SPECIFICATION QuerySpec
CONSTANTS
  Streams = {s1}
  Programs = {1, 2}
  Titles = {1, 2}
  Suffixes = {0}
  Seconds = {0, 1}
  Lines <- MCLines
  MaxLines = 3
  MaxWritten = 3
  MaxRemoved = 1
  Recorded <- MCRecorded
  Null = Null
  Invalid = Invalid
  Letters <- MCLetters
  Normal <- MCNormal
  Columns <- MCColumns
  Genres <- MCGenres
  Requests <- MCRequests
  DaySeconds = 2
  MonthDays = 1
  MaxLimit = 2
  MaxInnerHits = 2
  MaxExpression = 4
  ChunkLines = 2
INVARIANT StatementsExact
PROPERTIES
  GeneralComplete
  RawShowsIndexed
