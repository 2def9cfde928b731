SPECIFICATION Spec
CONSTANTS
  Streams = {s1}
  Programs = {1, 2}
  Titles = {1, 2}
  Suffixes = {0}
  Seconds = {0}
  Lines <- MCLines
  MaxLines = 2
  Null = Null
  Title <- MCTitle
  MaxStall = 0
  MaxHeard = 2
  MaxFaults = 0
  Retention = 1
PROPERTY CollisionWinnerGreatest
