\* The async thread of the first session cannot be created.
SPECIFICATION Spec
CONSTANTS
  r1 = r1  r2 = r2  r3 = r3
  Records <- MCRecords
  Crcs <- MCCrcs
  CrcOf <- MCCrcOf
  PidZero = PidZero
  Oversize = Oversize
  Faults = {"async_thread"}
  RepoClient = TRUE
  MaxSessions = 2
  MaxRequests = 2
  MaxEvents = 0
INVARIANTS
  OneWatcherPerClient
CHECK_DEADLOCK FALSE
