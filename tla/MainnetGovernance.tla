------------------------- MODULE MainnetGovernance -------------------------
(***************************************************************************)
(* The mainnet deployment: the registry under the timelock.  The timelock  *)
(* is the registry's administrator, asset policy and upgrader, so those    *)
(* calls reach the registry only as operations it executes; the stop and   *)
(* its lifting belong to accounts and need no notice.                      *)
(*                                                                         *)
(* Executing an operation is one transaction over both contracts: if the   *)
(* registry refuses the call, the operation stays pending.                 *)
(***************************************************************************)
EXTENDS MainnetRegistry, Timelock

CONSTANT Registry   \* the registry's address

ASSUME GovernanceAssumption ==
  /\ Registry \in Accounts \ {Self}
  /\ \A o \in Ops :
       \/ TargetOf[o] = Self
       \/ TargetOf[o] = Registry /\ CallOf[o] \in PolicyCalls \cup AccessCalls

VARIABLE assuredUntil   \* history: the ledger up to which some user was
                        \* assured that nothing changes

governanceVars == <<mainnetVars, timelockVars, assuredUntil>>

GovernanceTypeOK ==
  /\ MainnetTypeOK
  /\ TimelockTypeOK
  /\ assuredUntil \in Nat

GovernanceInit ==
  /\ MainnetInit
  /\ TimelockInit
  /\ assuredUntil = 0

\* The deployment profile: the timelock administers itself and alone holds
\* what decides over the code and the list.
Profile ==
  /\ tlRoles.admin = Self
  /\ tlRoles.offered = Nobody
  /\ regRoles.admin = Self
  /\ regRoles.offered = Nobody
  /\ \A r \in {"assetpol", "upgrader"} :
       /\ regRoles.holders[r] = {Self}
       /\ regRoles.manager[r] = NoRole

\* Nothing is announced.
Quiet == Pending = {}

\* What a user who looks now can rely on.
Assured == IF Profile /\ Quiet THEN ledger + minDelay ELSE 0

\* execute, with the call of the registry it makes in the timelock's name.
ExecuteOnRegistry(executor, o) ==
  /\ TargetOf[o] = Registry
  /\ Execute(executor, o)
  /\ RegistryCall(Self, CallOf[o])

\* An account calls the registry's administration with its own signature.
OperateDirectly ==
  /\ \E who \in Signers, c \in OperatorCalls : RegistryCall(who, c)
  /\ UNCHANGED timelockVars

\* Time, in ledgers and in the seconds a mandate counts.
Close ==
  /\ LedgerCloses
  /\ Tick

DeploymentNext ==
  \/ Close
  \/ TimelockCalls /\ UNCHANGED mainnetVars
  \/ \E who \in Signers, o \in Ops : ExecuteOnRegistry(who, o)
  \/ OperateDirectly
  \/ (UserNext \/ RoleOfferLapses) /\ UNCHANGED timelockVars

\* Every state is looked at by some user before the next step.
Look ==
  assuredUntil' = IF Assured > assuredUntil THEN Assured ELSE assuredUntil

GovernanceNext == DeploymentNext /\ Look

GovernanceSpec == GovernanceInit /\ [][GovernanceNext]_governanceVars

\* Ledgers close, and of the operations that can be executed each is: where
\* there is no executor list anyone may send the call, and its proposer will.
ExecuteAny(o) == \E who \in Signers : ExecuteOnRegistry(who, o)

Fairness ==
  /\ WF_governanceVars(Close /\ Look)
  /\ \A o \in Ops : WF_governanceVars(ExecuteAny(o) /\ Look)

FairGovernanceSpec == GovernanceSpec /\ Fairness

-----------------------------------------------------------------------------
(* Properties. *)

\* A user who looks at some ledger and sees the profile in place and no pending
\* operation can rely on the code and on the list until the delay in force
\* has passed: new code, a new asset and the loss of one all come later, even
\* through a change of the delay, of the administrator or of the roles
\* (schedule, update_delay, __check_auth, execute, upgrade, set_asset_allowed).
GovernanceNotice ==
  [][wasm' # wasm \/ allowed' # allowed => ledger >= assuredUntil']_governanceVars

\* An operation on the code or the list, due within the life of the run.
Due(o) ==
  /\ o \in Pending
  /\ readyAt[o] <= MaxLedger
  /\ TargetOf[o] = Registry
  /\ CallOf[o].fn \in {"set_asset_allowed", "upgrade"}

Unblocked(o) == PredOf[o] = NoOp \/ PredOf[o] \in done

\* It can run, at the latest after the operation it must follow.
CanCome(o) ==
  /\ Due(o)
  /\ Unblocked(o) \/ (Due(PredOf[o]) /\ Unblocked(PredOf[o]))

\* No announced operation stays pending for ever without a reason: it runs or
\* is cancelled, unless what it must follow is cancelled first or the timelock
\* loses the roles (execute, which anyone may call when there are no
\* executors, and the executors otherwise).
DueIsSettled ==
  \A o \in Ops : (CanCome(o) /\ Profile) ~> (~CanCome(o) \/ ~Profile)
=============================================================================
