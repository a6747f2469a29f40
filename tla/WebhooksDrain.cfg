SPECIFICATION FairSpec
CONSTANTS
  ep1 = ep1
  ep2 = ep2
  e1 = e1
  e2 = e2
  i1 = i1
  i2 = i2
  sealed = sealed
  expired = expired
  p1 = p1
  p2 = p2
  t1 = t1
  t2 = t2
  d1 = d1
  None = None
  Endpoints = {ep1}
  Events = {e1}
  EventTypes = {sealed}
  EventIds = {i1}
  Producers = {p1}
  Ticks = {t1, t2}
  Crons = {t1}
  Redelivers = {d1}
  Limit = 2
  MaxAttempts = 3
  MaxRecorded = 3
  TypeOf <- OneType
  IdOf <- EnvelopeId
CHECK_DEADLOCK FALSE
INVARIANT DrainInv
PROPERTY ImplementsRetryQueue
PROPERTY RowIsSettled
