SPECIFICATION WorkSpec
CONSTANTS
  Task = {t1}
  Home = home
  Nobody = nobody
  Isolated = {}
  OnceAt = {1}
  MaxTime = 1
  MaxCommands = 0
  MaxEvents = 8
  MaxChat = 0
  MaxActions = 1
  MaxPauses = 0
  MaxFaults = 1
CHECK_DEADLOCK FALSE
INVARIANT InterruptedPausesTask
