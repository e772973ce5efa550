\* A member leaves after the deadline.
SPECIFICATION Spec
CONSTANTS
  u1 = u1  u2 = u2  shop = shop  usd = usd
  m1 = m1  m2 = m2  m3 = m3  p1 = p1  p2 = p2
  NoPool = NoPool  NoUpgrade = NoUpgrade
  Users = {u1, u2}
  Merchants = {shop}
  Assets = {usd}
  MandateIds = {m1, m2}
  PoolIds = {p1}
  TermsFor <- PairTerms
  PoolTerms <- PairPools
  Amounts = {}
  Balances = {2}
  Allowances = {0, 2}
  Lapses = {3}
  Freezable = {shop}
  MAX_POOL_MEMBERS = 2
  CAPTURE_WINDOW_SECS = 1
  MAX_POOL_HORIZON_SECS = 2
  MaxU32 = 3
  MAX_SCHEDULE_POINTS = 2
  MAX_UNIT_PRICE = 3
  MAX_QTY = 3
  BPS_DENOM = 10000
  Principals = {shop}
  WasmHashes = {}
  InitialWasm = shop
  UPGRADE_DELAY_SECONDS = 1
  MaxU64 = 100
  MaxTime = 3
PROPERTY FinalAfterDeadline
CHECK_DEADLOCK FALSE
