SPECIFICATION FairSpec
CONSTANTS
  u1 = u1
  u2 = u2
  j1 = j1
  j2 = j2
  c1 = c1
  c2 = c2
  c3 = c3
  None = None
  Users = {u1}
  Jobs = {j1, j2}
  OwnerOf <- OneOwner
  Chains = {c1, c2, c3}
  Configured = {c1, c2}
  Costs = {0, 2}
  MaxBalance = 3
  MayFail = TRUE
CHECK_DEADLOCK FALSE
INVARIANT JobsInv
INVARIANT NeverOverdrawn
INVARIANT AnswerIsSettled
PROPERTY ImplementsPrepaidOrder
PROPERTY RequestIsAnswered
