SPECIFICATION IndexSpec
CONSTANTS
  Streams = {s1}
  Programs = {1}
  Titles = {1, 2}
  Suffixes = {0}
  Seconds = {0}
  Lines <- MCLines
  MaxLines = 3
  Null = Null
INVARIANTS
  IndexTypeOK
  OwnerConsistent
  NoFalseShrink
  CaptionsExact
PROPERTIES
  ProgramsPersist
  CaptionsPersist
