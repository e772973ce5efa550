\* Ledgers that close at three quarters of the expected time, and slower.
CONSTANTS
  Children = {c1, c2}
  Mandates = {m1}
  Nonces = {n1, n2}
  NewRowTtl = 2
  MaxTtl = 11
  FastestClose = 3
  SlowestClose = 4
  MaxTime = 30
  SECS_PER_LEDGER = 4
  TTL_THRESHOLD = 3
  TTL_EXTEND = 4
  Deadlines = {5, 20}
  CAPTURE_WINDOW_SECS = 4
  MAX_POOL_HORIZON_SECS = 24
  Lifetimes = {0, 12, 16}
  MAX_MANDATE_LIFETIME_SECONDS = 12
  MaxSilence = 2
  PolicyLives = {0, 7, 20, 24}
  MAX_POLICY_LIFETIME_SECS = 20
SPECIFICATION StorageSpec
INVARIANTS PoolOutlivesWindow UsableForLife ReplayEntriesOutliveMandate
CHECK_DEADLOCK FALSE
