\* Announcements, cancellations and a shorter delay, in every order; what may
\* run, does.
CONSTANTS
  usd = usd  eur = eur  ann = ann  m1 = m1  v1 = v1  v2 = v2
  self = self  ops = ops  guard = guard  registry = registry
  list = list  renew = renew  shorten = shorten  entrust = entrust
  NoOp = NoOp  Nobody = Nobody  NoRole = NoRole
  Accounts = {self, ops, guard, registry}
  Roles <- AllRoles
  Users = {ann}
  Assets = {usd, eur}
  MandateIds = {}
  TermsFor <- AllTerms
  Amounts = {1}
  Funds = {1}
  WasmHashes = {v1, v2}
  InitialWasm = v1
  Governance <- Config
  OperatorCalls <- Direct
  InitialAsset = usd
  MAX_MANDATE_LIFETIME_SECONDS = 4
  MaxU32 = 2
  MaxTime = 4
  Self = self
  Registry = registry
  Proposers = {ops}
  Executors = {}
  Admins = {self}
  Ops = {list, renew, shorten, entrust}
  TargetOf <- Targets
  CallOf <- Calls
  PredOf <- Predecessors
  OwnCalls = {}
  Delays = {1, 2}
  MaxLedger = 4
SPECIFICATION FairGovernanceSpec
PROPERTIES GovernanceNotice DueIsSettled
CHECK_DEADLOCK FALSE
