----------------------------- MODULE MCTimelock -----------------------------
(***************************************************************************)
(* A timelock with a proposer, one executor and, in some behaviours, an    *)
(* external administrator: an operation on a target, a shorter delay that  *)
(* must follow it, and a handover of the administration.                   *)
(***************************************************************************)
EXTENDS Timelock

CONSTANTS self, boss, ops, exec, registry, list, shorten, handover

AllRoles == {"proposer", "executor", "canceller"}

Targets == [o \in Ops |-> IF o = list THEN registry ELSE self]

Calls ==
  [o \in Ops |->
     CASE o = list     -> [fn |-> "set_asset_allowed"]
       [] o = shorten  -> [fn |-> "update_delay", delay |-> 1]
       [] o = handover -> [fn |-> "transfer_admin_role", account |-> boss]]

Predecessors == [o \in Ops |-> IF o = shorten THEN list ELSE NoOp]

\* What the external administrator, and the holders of roles, may try.
Direct ==
  [fn : {"update_delay"}, delay : Delays]
    \cup [fn : {"grant_role", "revoke_role"}, role : {"executor"},
          account : {exec}]
    \cup [fn : {"renounce_role"}, role : {"executor"}]
    \cup [fn : {"set_role_admin"}, role : {"executor"},
          manager : {"proposer"}]
    \cup [fn : {"transfer_admin_role"}, account : {self}]
    \cup [fn : {"accept_admin_transfer", "renounce_admin"}]
=============================================================================
