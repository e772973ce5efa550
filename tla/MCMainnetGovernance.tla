------------------------ MODULE MCMainnetGovernance ------------------------
(***************************************************************************)
(* A small mainnet deployment: two operations on the registry, the second  *)
(* bound to follow the first; one that shortens the delay; one that offers *)
(* an account the registry's administration.                               *)
(***************************************************************************)
EXTENDS MainnetGovernance

CONSTANTS usd, eur, ann, m1, v1, v2, self, ops, guard, registry,
          list, renew, shorten, entrust

AllRoles == {"pauser", "unpauser", "assetpol", "upgrader",
             "proposer", "executor", "canceller"}

Config == [admin |-> self, pauser |-> guard, unpauser |-> ops,
           asset_policy |-> self, upgrader |-> self]

AllTerms ==
  [id \in MandateIds |->
     {[user |-> ann, asset |-> eur, max_amount |-> 1, expiry |-> 4]}]

Targets == [o \in Ops |-> IF o = shorten THEN self ELSE registry]

Calls ==
  [o \in Ops |->
     CASE o = list    -> [fn |-> "set_asset_allowed", asset |-> eur,
                          allow |-> TRUE]
       [] o = renew   -> [fn |-> "upgrade", wasm_hash |-> v2]
       [] o = shorten -> [fn |-> "update_delay", delay |-> 1]
       [] o = entrust -> [fn |-> "transfer_admin_role", account |-> ops]]

Predecessors == [o \in Ops |-> IF o = renew THEN list ELSE NoOp]

\* What accounts try on the registry themselves.
Direct == [fn : {"pause", "unpause"}]
            \cup [fn : {"set_asset_allowed"}, asset : {eur}, allow : BOOLEAN]
            \cup [fn : {"upgrade"}, wasm_hash : {v2}]
            \cup [fn : {"accept_admin_transfer"}]
            \cup [fn : {"grant_role"}, role : {"assetpol"}, account : {ops}]
=============================================================================
