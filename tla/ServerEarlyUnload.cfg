\* A client unloads before the first round of data; its file is touched later.
SPECIFICATION FairSpec
CONSTANTS
  r1 = r1  r2 = r2  r3 = r3
  Records <- MCRecords
  Crcs <- MCCrcs
  CrcOf <- MCCrcOf
  PidZero = PidZero
  Oversize = Oversize
  Faults = {}
  RepoClient = FALSE
  MaxSessions = 1
  MaxRequests = 2
  MaxEvents = 2
PROPERTIES
  TouchedUnloadEnds
CHECK_DEADLOCK FALSE
