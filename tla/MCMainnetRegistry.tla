------------------------- MODULE MCMainnetRegistry -------------------------
(***************************************************************************)
(* A small mainnet registry: two mandates on one user's funds, one of them *)
(* in an asset that comes and goes, a counter that ends before the budget, *)
(* and a guard whose stop another key lifts.                               *)
(***************************************************************************)
EXTENDS MainnetRegistry

CONSTANTS usd, eur, ann, m1, m2, v1, v2, gov, ops, guard

AllRoles == {"pauser", "unpauser", "assetpol", "upgrader"}

Config == [admin |-> gov, pauser |-> guard, unpauser |-> ops,
           asset_policy |-> gov, upgrader |-> gov]

TermsOf(id) ==
  IF id = m1
  THEN {[user |-> ann, asset |-> eur, max_amount |-> 3, expiry |-> e]
          : e \in {3, 4}}
  ELSE {[user |-> ann, asset |-> usd, max_amount |-> 2, expiry |-> 2]}

AllTerms == [id \in MandateIds |-> TermsOf(id)]

\* The list changes, the stop comes and goes, new code runs, and the
\* administration is offered to another.
Calls ==
  [fn : {"pause", "unpause"}]
    \cup [fn : {"set_asset_allowed"}, asset : {eur}, allow : BOOLEAN]
    \cup [fn : {"upgrade"}, wasm_hash : {v2}]
    \cup [fn : {"transfer_admin_role"}, account : {ops}]
    \cup [fn : {"accept_admin_transfer"}]
=============================================================================
