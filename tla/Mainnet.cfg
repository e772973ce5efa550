\* A registry whose asset list, stop and code change under its mandates.
CONSTANTS
  usd = usd  eur = eur  ann = ann  m1 = m1  m2 = m2  v1 = v1  v2 = v2
  gov = gov  ops = ops  guard = guard  Nobody = Nobody  NoRole = NoRole
  Accounts = {gov, ops, guard}
  Roles <- AllRoles
  Users = {ann}
  Assets = {usd, eur}
  MandateIds = {m1, m2}
  TermsFor <- AllTerms
  Amounts = {0, 1, 2}
  Funds = {1, 3}
  WasmHashes = {v1, v2}
  InitialWasm = v1
  Governance <- Config
  OperatorCalls <- Calls
  InitialAsset = usd
  MAX_MANDATE_LIFETIME_SECONDS = 2
  MaxU32 = 2
  MaxTime = 4
SPECIFICATION MainnetSpec
INVARIANTS BooksMatchTransfers UnlistedAssetsDieOut
PROPERTY RefinesAuthority
CHECK_DEADLOCK FALSE
