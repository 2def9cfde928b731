SPECIFICATION FairSpec
CONSTANTS
  s1 = s1
  s2 = s2
  Streams = {s1, s2}
  Capacity = 2
  ReconnectDelay = 3
  AbortTimeout = 2
  RetryInterval = 2
  MaxStall = 1
  MaxChunk = 2
  MaxLines <- MCMaxLines
  MaxFaults = 1
  Null = Null
  Glyphs <- MCGlyphs
  GlyphWidth <- MCGlyphWidth
  Controls = {"nl"}
  Blanks = {"blank"}
  MinBodyGlyphs = 2
INVARIANTS
  TailTypeOK
  OneHandler
PROPERTIES
  ConnectQuiet
  HandledInOrder
  Reconnects
  ShutdownCompletes
CHECK_DEADLOCK FALSE
