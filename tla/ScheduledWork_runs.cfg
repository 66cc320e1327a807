SPECIFICATION FairSpec
CONSTANTS
  Task = {t1}
  Home = home
  Nobody = nobody
  Isolated = {}
  OnceAt = {1}
  MaxTime = 1
  MaxCommands = 0
  MaxEvents = 10
  MaxChat = 1
  MaxActions = 1
  MaxPauses = 1
  MaxFaults = 1
INVARIANT PostedOnce
INVARIANT SettledWasPosted
INVARIANT RecoveryRemembers
PROPERTY ResumesOnlyObserved
PROPERTY ResumesOnlyOwed
PROPERTY NoActionRepeated
PROPERTY SubmittedRunsEnd
CHECK_DEADLOCK FALSE
