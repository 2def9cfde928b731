SPECIFICATION PagingSpec
CONSTANTS
  Streams = {s1}
  Programs = {1}
  Titles = {1}
  Suffixes = {0}
  Seconds = {0}
  Lines <- MCLines
  MaxLines = 7
  Null = Null
  Limit = 2
INVARIANTS
  PagingTypeOK
  PagesComplete
