SPECIFICATION FairSpec
CONSTANTS
  Conversation = {c1}
  Owner <- Owners
  MaxRuns = 1
  MaxIterations = 1
  MaxMessages = 1
  MaxStops = 0
PROPERTY AcceptedRuns
CHECK_DEADLOCK FALSE
