\* ddtp-cli and the server, any failure, the user may stop the client.
SPECIFICATION SystemSpec
CONSTANTS
  r0 = r0  r1 = r1  r2 = r2  r3 = r3
  Records <- MCRecords
  Crcs <- MCCrcs
  CrcOf <- MCCrcOf
  PidZero = PidZero
  Oversize = Oversize
  Faults = {"malloc", "entry_thread", "add_watch", "watch_thread", "poll", "poll_eintr", "named_event", "client_leaves"}
  RepoClient = FALSE
  MaxSessions = 1
  MaxRequests = 4
  MaxEvents = 3
  Iterations = 0
  Interrupts = TRUE
SYMMETRY SameCrc
INVARIANTS
  TypeOK
  ClientTypeOK
  CsvListsFirstReports
  RequestsAreAllowed
  WatcherJoined
  ServerSurvives
CHECK_DEADLOCK FALSE
