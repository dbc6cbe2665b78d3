\* ddtp-cli and the server with fair threads; a record may have the crc 0.
SPECIFICATION SystemFairSpec
CONSTANTS
  r0 = r0  r1 = r1  r2 = r2  r3 = r3
  Records <- FewRecords
  Crcs <- FewCrcs
  CrcOf <- FewCrcOf
  PidZero = PidZero
  Oversize = Oversize
  Faults = {"malloc", "add_watch", "watch_thread", "client_leaves"}
  RepoClient = FALSE
  MaxSessions = 1
  MaxRequests = 4
  MaxEvents = 3
  Iterations = 1
  Interrupts = FALSE
PROPERTIES
  ClientEnds
  EventsReachCsv
CHECK_DEADLOCK FALSE
