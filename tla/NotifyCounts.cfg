\* Twelve wakeups; a worker that missed the limit is followed for fifteen.
CONSTANTS
  Max = 12
  Bound = 15
SPECIFICATION FairSpec
CHECK_DEADLOCK FALSE
INVARIANTS TypeOK CallsMatch AllOrNothing
PROPERTY Finishes
