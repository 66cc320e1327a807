SPECIFICATION Spec
CONSTANTS
  Task = {t1, t2, t3}
  Home = home
  Isolated = {t3}
  OnceAt = {1}
  MaxTime = 2
  MaxCommands = 1
SYMMETRY Symmetry
INVARIANT OneRunAtATime
INVARIANT NeverStranded
PROPERTY EndedStaysEnded
CHECK_DEADLOCK FALSE
