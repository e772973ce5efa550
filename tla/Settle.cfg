\* Two pools that share a user's allowance; freezes, stops, and fair keepers.
SPECIFICATION FairSpec
CONSTANTS
  u1 = u1  u2 = u2  shop = shop  usd = usd
  m1 = m1  m2 = m2  m3 = m3  p1 = p1  p2 = p2
  NoPool = NoPool  NoUpgrade = NoUpgrade
  Users = {u1}
  Merchants = {shop}
  Assets = {usd}
  MandateIds = {m1, m3}
  PoolIds = {p1, p2}
  TermsFor <- SharedTerms
  PoolTerms <- SharedPools
  Amounts = {}
  Balances = {2}
  Allowances = {0, 2}
  Lapses = {1, 3}
  Freezable = {u1, shop}
  MAX_POOL_MEMBERS = 2
  CAPTURE_WINDOW_SECS = 1
  MAX_POOL_HORIZON_SECS = 2
  MaxU32 = 3
  MAX_SCHEDULE_POINTS = 2
  MAX_UNIT_PRICE = 3
  MAX_QTY = 3
  BPS_DENOM = 10000
  Principals = {shop}
  WasmHashes = {}
  InitialWasm = shop
  UPGRADE_DELAY_SECONDS = 1
  MaxU64 = 100
  MaxTime = 3
INVARIANT NoCaptureWedge
PROPERTIES ExpiryIsNoLever EveryPoolSettles EveryChildSettles
CHECK_DEADLOCK FALSE
