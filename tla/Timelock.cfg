\* Self-administered or under an external administrator that may go.
CONSTANTS
  self = self  boss = boss  ops = ops  exec = exec  registry = registry
  list = list  shorten = shorten  handover = handover
  NoOp = NoOp  Nobody = Nobody  NoRole = NoRole
  Accounts = {self, boss, ops, exec, registry}
  Roles <- AllRoles
  Self = self
  Proposers = {ops}
  Executors = {exec}
  Admins = {self, boss}
  Ops = {list, shorten, handover}
  TargetOf <- Targets
  CallOf <- Calls
  PredOf <- Predecessors
  OwnCalls <- Direct
  Delays = {1, 2}
  MaxLedger = 4
SPECIFICATION TimelockSpec
INVARIANTS RunsOnce PredecessorFirst
PROPERTY RefinesAnnounced
CHECK_DEADLOCK FALSE
