SPECIFICATION Spec
CONSTANTS
  u1 = u1
  u2 = u2
  t1 = t1
  t2 = t2
  T1 = T1
  d1 = d1
  d2 = d2
  w1 = w1
  w2 = w2
  r1 = r1
  r2 = r2
  None = None
  Users = {u1}
  MixedCase = {}
  DepositIds = {d1, d2}
  Amounts = {1, 2}
  Txs = {t1, t2}
  Hashes = {t1, t2, T1}
  TxOf <- SpelledTx
  Ticks = {w1}
  Requests = {r1, r2}
  Window = 1
  MaxBlock = 1
  MayThrow = FALSE
  Logs <- SameUserLogs
INVARIANT DepositsInv
INVARIANT CreditedOnce
INVARIANT OneHashOneDeposit
INVARIANT ConfirmedIsCovered
PROPERTY ConfirmedIsFinal
PROPERTY ImplementsPaidOnce
SYMMETRY Symm
