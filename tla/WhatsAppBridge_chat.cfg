SPECIFICATION FairSpec
CONSTANTS
  MaxMessages = 3
  MaxFaults = 2
  MaxStops = 1
INVARIANT ClosedIsAtRest
INVARIANT ContextComplete
INVARIANT ShownOnce
PROPERTY WantedIsHandedOver
