SPECIFICATION FairSpec
CONSTANTS
  Conversation = {c1}
  Owner <- Owners
  MaxRuns = 1
  MaxIterations = 2
  MaxMessages = 2
  MaxStops = 1
INVARIANT SlotsMatchWork
INVARIANT ClosedIsQuiet
PROPERTY AdmissionSpec
PROPERTY PauseHolds
PROPERTY Answered
PROPERTY CloseEnds
CHECK_DEADLOCK FALSE
