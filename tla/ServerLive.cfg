\* One session, any client, whose watcher can poll, with fair threads.
SPECIFICATION FairSpec
CONSTANTS
  r1 = r1  r2 = r2  r3 = r3
  Records <- MCRecords
  Crcs <- MCCrcs
  CrcOf <- MCCrcOf
  PidZero = PidZero
  Oversize = Oversize
  Faults = {"malloc", "inotify_init", "calloc", "add_watch", "watch_thread"}
  RepoClient = FALSE
  MaxSessions = 1
  MaxRequests = 2
  MaxEvents = 3
INVARIANTS
  HandshakeAlive
PROPERTIES
  EventsAreRead
  EventEndsSession
CHECK_DEADLOCK FALSE
