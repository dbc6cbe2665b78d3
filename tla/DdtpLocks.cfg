\* Three threads, as in a session: entry, watcher, async handler.
SPECIFICATION FairSpec
CONSTANTS
  Threads = {e, w, a}
  NoThread = NoThread
  MaxCalls = 2
INVARIANTS
  TypeOK
  OwnerInside
  NoLostWakeup
PROPERTIES
  ImplementsFairFlag
CHECK_DEADLOCK FALSE
