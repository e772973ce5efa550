----------------------------- MODULE AdminPlane -----------------------------
(***************************************************************************)
(* The administration plane shared by the composite and the simple         *)
(* registry (admin.rs): authority rotation, the emergency stop, and a      *)
(* same-address code upgrade that must be announced a delay in advance.    *)
(* The two contracts differ in the delay only.                             *)
(*                                                                         *)
(* Every operation is signed by the stored admin: the ledger's host        *)
(* rejects any other signer before the body runs, so an action here is the *)
(* authorised call.  WasmHashes are builds that keep this plane, so the    *)
(* rules go on to apply after an upgrade.                                  *)
(***************************************************************************)
EXTENDS Integers

CONSTANTS
  Principals,             \* addresses that may hold the admin role
  WasmHashes,             \* code the contract may be asked to run
  InitialWasm,            \* code it was deployed with
  NoUpgrade,              \* no upgrade is pending
  UPGRADE_DELAY_SECONDS,  \* notice an upgrade needs
  MaxU64,                 \* largest ledger timestamp (saturating_add)
  MaxTime                 \* bound: the last instant the clock reaches

ASSUME AdminAssumption ==
  /\ UPGRADE_DELAY_SECONDS \in Nat
  /\ MaxTime \in Nat
  /\ MaxU64 \in Nat
  /\ MaxTime + UPGRADE_DELAY_SECONDS <= MaxU64

PendingUpgrade == [wasm_hash : WasmHashes, execute_after : Nat]

ASSUME NoUpgradeAssumption == NoUpgrade \notin PendingUpgrade

VARIABLES
  now,        \* the ledger's close time
  admin,      \* the stored admin
  paused,     \* the emergency stop
  pending,    \* the announced upgrade, or NoUpgrade
  wasm        \* the code the contract runs

adminVars == <<admin, paused, pending, wasm>>

AdminTypeOK ==
  /\ now \in 0 .. MaxTime
  /\ admin \in Principals
  /\ paused \in BOOLEAN
  /\ pending \in PendingUpgrade \cup {NoUpgrade}
  /\ wasm \in WasmHashes \cup {InitialWasm}

\* The constructor stores the admin; nothing is paused or pending.
AdminInit ==
  /\ now = 0
  /\ admin \in Principals
  /\ paused = FALSE
  /\ pending = NoUpgrade
  /\ wasm = InitialWasm

-----------------------------------------------------------------------------
\* A ledger closes at a later time.
Tick ==
  /\ now < MaxTime
  /\ now' = now + 1
  /\ UNCHANGED adminVars

\* One step: no acceptance by the new admin, and a pending upgrade is kept.
SetAdmin(newAdmin) ==
  /\ admin' = newAdmin
  /\ UNCHANGED <<now, paused, pending, wasm>>

Pause ==
  /\ ~paused
  /\ paused' = TRUE
  /\ UNCHANGED <<now, admin, pending, wasm>>

Unpause ==
  /\ paused
  /\ paused' = FALSE
  /\ UNCHANGED <<now, admin, pending, wasm>>

\* Fault: the announcing instant is counted as a second of notice.
ExecuteAfterEarly == now + UPGRADE_DELAY_SECONDS - 1

\* The end of the delay, saturating at the width of a timestamp.
ExecuteAfter == IF now + UPGRADE_DELAY_SECONDS > MaxU64
                THEN MaxU64 ELSE now + UPGRADE_DELAY_SECONDS

\* Fault: an announcement replaces the one that is pending.
ScheduleUpgradeAgain(newWasmHash) ==
  /\ pending' = [wasm_hash |-> newWasmHash, execute_after |-> ExecuteAfter]
  /\ UNCHANGED <<now, admin, paused, wasm>>

ScheduleUpgrade(newWasmHash) ==
  /\ pending = NoUpgrade
  /\ pending' = [wasm_hash |-> newWasmHash, execute_after |-> ExecuteAfter]
  /\ UNCHANGED <<now, admin, paused, wasm>>

CancelUpgrade ==
  /\ pending # NoUpgrade
  /\ pending' = NoUpgrade
  /\ UNCHANGED <<now, admin, paused, wasm>>

ExecuteUpgrade ==
  /\ pending # NoUpgrade
  /\ now >= pending.execute_after
  /\ paused
  /\ pending' = NoUpgrade
  /\ wasm' = pending.wasm_hash
  /\ UNCHANGED <<now, admin, paused>>

AdminNext ==
  \/ \E a \in Principals : SetAdmin(a)
  \/ Pause
  \/ Unpause
  \/ \E h \in WasmHashes : ScheduleUpgrade(h)
  \/ CancelUpgrade
  \/ ExecuteUpgrade

AdminSpec == AdminInit /\ [][Tick \/ AdminNext]_<<now, adminVars>>

-----------------------------------------------------------------------------
(* Properties. *)

Announced(h) == pending # NoUpgrade /\ pending.wasm_hash = h

\* Nobody is surprised by new code: a build that is neither running nor
\* announced now is not running for a whole delay to come, through any
\* schedule of announcements, cancellations and changes of admin.
UpgradeNotice ==
  \A h \in WasmHashes, t \in 0 .. MaxTime :
    [](now = t /\ wasm # h /\ ~Announced(h)
         => [](now < t + UPGRADE_DELAY_SECONDS => wasm # h))

\* The plane keeps the promise of announced changes, which the mainnet
\* timelock keeps too: the same abstract specification, with a notice that
\* never changes.
Upgrades == INSTANCE AnnouncedChange WITH
  Changes   <- WasmHashes,
  Weakening <- {},
  clock     <- now,
  notice    <- UPGRADE_DELAY_SECONDS,
  announced <- [h \in {k \in WasmHashes : Announced(k)}
                  |-> pending.execute_after],
  latest    <- wasm

RefinesAnnouncedUpgrades == Upgrades!Spec
=============================================================================
