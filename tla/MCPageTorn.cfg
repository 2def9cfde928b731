SPECIFICATION PagingSpec
CONSTANTS
  Streams = {s1}
  Programs = {1}
  Titles = {1, 2}
  Suffixes = {0}
  Seconds = {0}
  Lines <- MCLines
  MaxLines = 2
  Null = Null
  Limit = 1
PROPERTY PageOfItsProgram
