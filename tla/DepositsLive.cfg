SPECIFICATION FairSpec
CONSTANTS
  u1 = u1
  u2 = u2
  t1 = t1
  t2 = t2
  T1 = T1
  d1 = d1
  d2 = d2
  w1 = w1
  w2 = w2
  r1 = r1
  r2 = r2
  None = None
  Users = {u1}
  MixedCase = {}
  DepositIds = {d1}
  Amounts = {1}
  Txs = {t1}
  Hashes = {t1}
  TxOf <- SpelledTx
  Ticks = {w1, w2}
  Requests = {r1}
  Window = 0
  MaxBlock = 2
  MayThrow = TRUE
  Logs <- OneLog
INVARIANT NothingOwedBehindCursor
PROPERTY PaidIsConfirmed
