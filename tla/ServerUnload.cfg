\* The client of client.cpp unloads while the file is idle.
SPECIFICATION FairSpec
CONSTANTS
  r1 = r1  r2 = r2  r3 = r3
  Records <- MCRecords
  Crcs <- MCCrcs
  CrcOf <- MCCrcOf
  PidZero = PidZero
  Oversize = Oversize
  Faults = {}
  RepoClient = TRUE
  MaxSessions = 1
  MaxRequests = 2
  MaxEvents = 2
PROPERTIES
  UnloadEnds
CHECK_DEADLOCK FALSE
