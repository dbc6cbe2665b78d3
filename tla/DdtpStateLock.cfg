\* A session from data_ready to its end, with three requests.
SPECIFICATION Spec
CONSTANT MaxRequests = 3
INVARIANTS
  BranchChosen
  NoLostUpdate
PROPERTY ImplementsAtomic
CHECK_DEADLOCK FALSE
