SPECIFICATION PlatformFairSpec
CONSTANTS
  e1 = e1
  e2 = e2
  v1 = v1
  v2 = v2
  s1 = s1
  s2 = s2
  o1 = o1
  pr1 = pr1
  k1 = k1
  k2 = k2
  n1 = n1
  n2 = n2
  n3 = n3
  u1 = u1
  u2 = u2
  p1 = p1
  r1 = r1
  r2 = r2
  q1 = q1
  q2 = q2
  i1 = i1
  ak1 = ak1
  a1 = a1
  a2 = a2
  t1 = t1
  c1 = c1
  h1 = h1
  h2 = h2
  d1 = d1
  l1 = l1
  l2 = l2
  f1 = f1
  f2 = f2
  x1 = x1
  x2 = x2
  m1 = m1
  m2 = m2
  m3 = m3
  z1 = z1
  z2 = z2
  b1 = b1
  b2 = b2
  w1 = w1
  w2 = w2
  g1 = g1
  y1 = y1
  tx0 = tx0
  tx1 = tx1
  tx2 = tx2
  tx3 = tx3
  tx4 = tx4
  Nobody = Nobody
  NoKey = NoKey
  Unlimited = Unlimited
  BadKey = BadKey
  NoAddress = NoAddress
  NoHolder = NoHolder
  NoTarget = NoTarget
  NoAccount = NoAccount
  NoLeaf = NoLeaf
  NoRoot = NoRoot
  NoTx = tx0
  NoBytes = NoBytes
  Draft = Draft
  Envelopes = {e1, e2}
  AgentEnvelopes = {e1}
  Verifiers = {v1, v2}
  Sweeps = {s1, s2}
  SweepCrons = {s1}
  Windows = {2}
  DefaultWindow = 1
  BatchSize = 1
  MaxDay = 2
  Verifiable = {e1}
  MaxVerifications = 1
  Org = o1
  Projects = {pr1}
  SignerKeys = {k1, k2}
  ScopeOf <- Signers
  Seals = {n1, n2, n3}
  KeyScopes <- Keys
  Caps = {1, Unlimited}
  MaxInFlight = 2
  MaxMonth = 1
  Users = {u1, u2}
  Founders = {u1}
  MaxKeys = 1
  Teams = {p1}
  MemberRequests = {r1, r2}
  Calls = {q1, q2}
  Ips = {i1}
  ApiKeys = {ak1}
  Limit <- OneAMinute
  KeepWindows = 2
  MaxLag = 2
  MaxMinute = 4
  Chunks = 2
  MaxLanded = 2
  Payers = {a1, a2}
  Treasuries = {t1}
  Entries = {c1}
  LegacyLists <- Listed
  Durations = {0, 1, 6, 7}
  PriceLists <- Prices
  MaxUint64 = 7
  MaxTime = 3
  MaxListed = 3
  Holders = {h1, h2}
  Targets = {d1}
  Gifts = {1}
  MaxForwarded = 2
  MaxDepth = 2
  LeafDigests = {l1, l2}
  MaxLeaves = 7
  Accounts = {b1, b2}
  Families = {f1, f2}
  Addresses = {x1, x2}
  Nonces = {m1, m2, m3}
  ProofRequests = {z1, z2}
  Earlier <- LinkedBefore
  Subjects = {w1, w2}
  Roots = {g1}
  LeavesOf <- TheLeaves
  SigningKeys = {y1}
  Txs = {tx0, tx1, tx2, tx3, tx4}
  Anchors <- TheAnchors
  ForgedSettlements <- TheSettlements
  ForgedInclusions <- TheInclusions
  MaxSteps = 3
CHECK_DEADLOCK FALSE
INVARIANT RetentionInv
INVARIANT VerifiedIsCounted
INVARIANT SealingInv
 
INVARIANT MembershipInv
INVARIANT SignInInv
INVARIANT RateInv
INVARIANT UploadInv
INVARIANT NothingPaidTwice
INVARIANT EntriesInv
INVARIANT DonationInv
INVARIANT RootCommits
INVARIANT SoundReports
INVARIANT HonestPasses
PROPERTY ExpiredIsDeleted
PROPERTY ImplementsRetainedStore
PROPERTY PaidTimeIsKept
