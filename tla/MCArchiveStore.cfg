SPECIFICATION StoreSpec
CONSTANTS
  Streams = {s1, s2}
  Programs = {1, 2}
  Titles = {1}
  Suffixes = {0, 1, 2}
  Seconds = {0, 1}
  Lines <- MCLines
  MaxLines = 3
  Null = Null
  Title <- MCTitle
  MaxStall = 1
  MaxHeard = 3
  MaxFaults = 1
SYMMETRY StreamSymmetry
INVARIANTS
  StoreTypeOK
  OneProgramPerFile
  ActiveFileComplete
  HandlesOwned
