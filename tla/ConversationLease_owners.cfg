SPECIFICATION FairSpec
CONSTANTS
  Server = {s1, s2}
  Remote = {s2}
  Nobody = nobody
  MaxStalls = 1
  MaxCrashes = 1
  MaxDeletes = 1
INVARIANT WritesFenced
PROPERTY TakeoverIsJustified
PROPERTY DeadOwnerReplaced
CHECK_DEADLOCK FALSE
