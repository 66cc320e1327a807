SPECIFICATION Spec
CONSTANTS
  MaxPending = 1
  MaxEvents = 4
  MaxConnections = 3
  MaxFaults = 1
INVARIANT NothingBetween
INVARIANT MissedOnlyOvertaken
PROPERTY TwiceOnlyIfLate
CHECK_DEADLOCK FALSE
