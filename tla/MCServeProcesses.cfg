SPECIFICATION FairSpec
CONSTANTS
  s1 = s1
  s2 = s2
  rb = rb
  Services = {s1, s2}
  Rebuilders = {rb}
  DataDir <- MCDataDir
  Found <- MCFound
  Strangers <- MCStrangers
  MaxStarts = 2
  Faulty = {s1}
  MaxFaults = 1
  Null = Null
INVARIANTS
  ProcessTypeOK
PROPERTIES
  SocketOwned
  OthersKept
  DirectorySpec
  SocketServed
  ShutdownCompletes
CHECK_DEADLOCK FALSE
