SPECIFICATION Spec
CONSTANTS
  MaxPending = 2
  MaxEvents = 2
  MaxConnections = 2
  MaxFaults = 0
INVARIANT DurableSurvives
CHECK_DEADLOCK FALSE
