CONSTANTS
  s1 = s1  s2 = s2
  Servers <- MCServers
  LbQCap = 1
  RelayQCap = 1
SPECIFICATION FairSpec
INVARIANT CleanExitCode
