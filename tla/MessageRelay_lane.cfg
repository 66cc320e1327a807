SPECIFICATION FairSpec
CONSTANTS
  Text = {t1, t2}
  MaxMessages = 2
  MaxAttempts = 2
  MaxRequeues = 1
  PageSize = 2
  MaxEvents = 2
  MaxFaults = 1
INVARIANT PostedOnce
INVARIANT PostedInOrder
INVARIANT DoneIsServed
INVARIANT CursorIsSafe
PROPERTY OutboxPromise
PROPERTY MessagesServed
PROPERTY RepliesQueued
CHECK_DEADLOCK FALSE
