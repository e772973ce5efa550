---------------------------- MODULE MCStorageRows ----------------------------
(***************************************************************************)
(* The rows of the three contracts on one ledger, for TLC: each behaviour  *)
(* follows the rows of one contract.                                       *)
(***************************************************************************)
EXTENDS PoolRows, MandateRows, PolicyRows

VARIABLE followed   \* whose rows

storageVars == <<followed, poolRowsVars, mandateRowsVars, policyRowsVars>>

StorageInit ==
  /\ PoolRowsInit /\ MandateRowsInit /\ PolicyRowsInit
  /\ followed \in {"pool", "mandate", "policy"}

PoolOnly ==
  /\ followed = "pool"
  /\ PoolRowsNext
  /\ UNCHANGED <<storedVars, lastCall, mandateExpiry, policyRow, nonceRow>>

MandateOnly ==
  /\ followed = "mandate"
  /\ MandateRowsNext
  /\ UNCHANGED <<deadline, status, linkage, rowVars,
                 mandateExpiry, policyRow, nonceRow>>

PolicyOnly ==
  /\ followed = "policy"
  /\ PolicyRowsNext
  /\ UNCHANGED <<deadline, status, linkage, rowVars, storedVars, lastCall>>

StorageNext == (PoolOnly \/ MandateOnly \/ PolicyOnly) /\ UNCHANGED followed

StorageSpec == StorageInit /\ [][StorageNext]_storageVars
=============================================================================
