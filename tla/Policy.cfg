\* The extension's mandate and an ordinary one, three nonces, under a registry
\* whose administration may change hands and announce new code.
SPECIFICATION PolicySpec
CONSTANTS
  user = user  bob = bob  shop = shop  usd = usd  m1 = m1  m2 = m2
  Extension = extension
  Users = {user}
  Agents = {bob, extension}
  Merchants = {shop}
  Assets = {usd}
  MandateIds = {m1, m2}
  TermsFor <- TwoMandates
  Amounts <- PaymentAmounts
  Funds = {1, 3}
  MaxSeq = 3
  PolicyChoices <- Choices
  Nonces = {n1, n2, n3}
  Windows <- RequestWindows
  MAX_POLICY_LIFETIME_SECS = 2
  MAX_REQUEST_LIFETIME_SECS = 2
  NoUpgrade = NoUpgrade
  Principals = {shop, bob}
  WasmHashes = {update}
  InitialWasm = build
  UPGRADE_DELAY_SECONDS = 2
  MaxU64 = 100
  MaxTime = 3
INVARIANTS BooksMatchTransfers NoncePaysOnce SeqCountsNonces BindingAgrees
PROPERTIES RefinesAuthority PolicyGoverns UpgradeNotice RefinesAnnouncedUpgrades
CHECK_DEADLOCK FALSE
