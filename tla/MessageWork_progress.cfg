SPECIFICATION FairSpec
CONSTANTS
  Lane = {l1, l2}
  IntakeKey = {i1}
  EventKey = {e1}
  MaxAttempts = 2
  ClaimTtl = 1
  CommandTimeout = 2
  BaseBackoff = 1
  CapBackoff = 2
  Backoff <- BackoffTable
  MaxFaults = 1
  MaxRequeues = 0
PROPERTY QueuePromise
PROPERTY Progress
PROPERTY CommandAnswered
