SPECIFICATION FairSpec
CONSTANTS
  j1 = j1
  j2 = j2
  s1 = s1
  s2 = s2
  Envelopes = {1, 2, 3}
  Jobs = {j1}
  Sweeps = {s1}
  PageSize = 2
  Batch = 1
  Milli = 2
  Lag = 1
  MaxTime = 1
  MaxCopies = 2
CHECK_DEADLOCK FALSE
INVARIANT ExportsInv
INVARIANT ReadyIsComplete
PROPERTY JobIsSwept
