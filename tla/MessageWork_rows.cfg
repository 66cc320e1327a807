SPECIFICATION Spec
CONSTANTS
  Lane = {l1}
  IntakeKey = {i1, i2}
  EventKey = {}
  MaxAttempts = 2
  ClaimTtl = 1
  CommandTimeout = 2
  BaseBackoff = 1
  CapBackoff = 2
  Backoff <- BackoffTable
  MaxFaults = 1
  MaxRequeues = 1
SYMMETRY Symmetry
INVARIANT HeadOfLine
INVARIANT OneLiveClaim
INVARIANT EffectOnce
INVARIANT CommandJournal
