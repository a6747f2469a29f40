SPECIFICATION FairSpec
CONSTANTS
  t1 = t1
  t2 = t2
  s1 = s1
  s2 = s2
  i1 = i1
  None = None
  Txs = {t1, t2}
  Ours = {t1, t2}
  Unstorable = {t2}
  MaxRows = 2
  Indexes <- MCIndexes
  Scans = {s1, s2}
  Crons = {s1}
  Ingests = {i1}
  Asked = {t1}
  Window = 0
  MaxTries = 1
  MaxBlock = 2
INVARIANT IndexInv
INVARIANT NoHoleBehindCursor
PROPERTY FinalIsIndexed
