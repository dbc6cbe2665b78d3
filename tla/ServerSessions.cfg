\* Two sessions one after the other, any client, and failures of threads and calls.
SPECIFICATION Spec
CONSTANTS
  r1 = r1  r2 = r2  r3 = r3
  Records <- TwoRecords
  Crcs <- MCCrcs
  CrcOf <- TwoCrcOf
  PidZero = PidZero
  Oversize = Oversize
  Faults = {"entry_thread", "add_watch", "async_thread", "named_event", "client_leaves"}
  RepoClient = FALSE
  MaxSessions = 2
  MaxRequests = 2
  MaxEvents = 2
INVARIANTS
  DeliversFirstReports
  AnswersOnceThenData
  RoundBeforeUnload
  NothingLeftOver
  RemainingRecordsSent
PROPERTIES
  ImplementsSession
  AbandonedSessionStays
CHECK_DEADLOCK FALSE
