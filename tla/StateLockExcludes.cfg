\* The watcher's unlock in the place of a lock.
SPECIFICATION Spec
CONSTANT MaxRequests = 3
INVARIANT LockExcludes
CHECK_DEADLOCK FALSE
