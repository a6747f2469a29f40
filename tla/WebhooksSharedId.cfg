SPECIFICATION Spec
CONSTANTS
  ep1 = ep1
  ep2 = ep2
  e1 = e1
  e2 = e2
  i1 = i1
  i2 = i2
  sealed = sealed
  expired = expired
  p1 = p1
  p2 = p2
  t1 = t1
  t2 = t2
  d1 = d1
  None = None
  Endpoints = {ep1}
  Events = {e1, e2}
  EventTypes = {sealed, expired}
  EventIds = {i1}
  Producers = {p1}
  Ticks = {t1, t2}
  Crons = {t1}
  Redelivers = {}
  Limit = 2
  MaxAttempts = 2
  MaxRecorded = 2
  TypeOf <- TwoTypes
  IdOf <- EnvelopeId
CHECK_DEADLOCK FALSE
PROPERTY EveryEventHasItsRow
