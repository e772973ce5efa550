-------------------------- MODULE AdminPlaneProofs --------------------------
(***************************************************************************)
(* Proofs about the administration plane, for every delay, every set of    *)
(* builds and every horizon.                                               *)
(***************************************************************************)
EXTENDS AdminPlane, TLAPS

Step == Tick \/ AdminNext

\* Every step keeps the types.
LEMMA AdminTypesAreKept ==
  ASSUME AdminTypeOK, [Step]_<<now, adminVars>>
  PROVE  AdminTypeOK'
<1> USE DEF AdminTypeOK, adminVars
<1>1. CASE Tick
  BY <1>1, AdminAssumption DEF Tick
<1>2. CASE \E a \in Principals : SetAdmin(a)
  BY <1>2 DEF SetAdmin
<1>3. CASE Pause \/ Unpause
  BY <1>3 DEF Pause, Unpause
<1>4. ASSUME NEW h \in WasmHashes, ScheduleUpgrade(h)
      PROVE  AdminTypeOK'
  <2>1. ExecuteAfter \in Nat
    BY AdminAssumption DEF ExecuteAfter
  <2> QED
    BY <1>4, <2>1 DEF ScheduleUpgrade, PendingUpgrade
<1>5. CASE CancelUpgrade
  BY <1>5 DEF CancelUpgrade
<1>6. CASE ExecuteUpgrade
  BY <1>6 DEF ExecuteUpgrade, PendingUpgrade
<1>7. CASE UNCHANGED <<now, adminVars>>
  BY <1>7
<1> QED
  BY <1>1, <1>2, <1>3, <1>4, <1>5, <1>6, <1>7 DEF Step, AdminNext

\* The stored values keep their types: the announced build is always one the
\* contract was asked for, and its execution time is a time (admin.rs, the
\* types of the four rows).
THEOREM AdminTypeCorrect == AdminSpec => []AdminTypeOK
<1>1. AdminInit => AdminTypeOK
  <2>1. 0 \in 0 .. MaxTime
    BY AdminAssumption
  <2> QED
    BY <2>1 DEF AdminInit, AdminTypeOK
<1>2. AdminTypeOK /\ [Step]_<<now, adminVars>> => AdminTypeOK'
  BY AdminTypesAreKept
<1> QED
  BY <1>1, <1>2, PTL DEF AdminSpec, Step

-----------------------------------------------------------------------------
\* What remains true from an instant t at which the build h was neither
\* running nor announced: any announcement of h runs out a delay after t at
\* the earliest, and so does any execution of it.
Noticed(h, t) ==
  /\ now >= t
  /\ Announced(h) => pending.execute_after >= t + UPGRADE_DELAY_SECONDS
  /\ wasm = h => now >= t + UPGRADE_DELAY_SECONDS

\* Every step keeps Noticed: only an execution changes the code, and only an
\* announcement, a whole delay ahead, makes an execution possible.
LEMMA NoticedIsKept ==
  ASSUME NEW h \in WasmHashes, NEW t \in 0 .. MaxTime,
         AdminTypeOK, Noticed(h, t), [Step]_<<now, adminVars>>
  PROVE  Noticed(h, t)'
<1> USE DEF AdminTypeOK, Noticed, Announced, adminVars
<1>1. CASE Tick
  BY <1>1, AdminAssumption DEF Tick
<1>2. CASE (\E a \in Principals : SetAdmin(a)) \/ Pause \/ Unpause
  BY <1>2 DEF SetAdmin, Pause, Unpause
<1>3. ASSUME NEW g \in WasmHashes, ScheduleUpgrade(g)
      PROVE  Noticed(h, t)'
  <2>1. ExecuteAfter = now + UPGRADE_DELAY_SECONDS
    BY AdminAssumption DEF ExecuteAfter
  <2>2. pending'.execute_after = now + UPGRADE_DELAY_SECONDS
    BY <1>3, <2>1 DEF ScheduleUpgrade
  <2> QED
    BY <1>3, <2>2, AdminAssumption DEF ScheduleUpgrade
<1>4. CASE CancelUpgrade
  BY <1>4 DEF CancelUpgrade
<1>5. CASE ExecuteUpgrade
  BY <1>5, AdminAssumption DEF ExecuteUpgrade, PendingUpgrade
<1>6. CASE UNCHANGED <<now, adminVars>>
  BY <1>6
<1> QED
  BY <1>1, <1>2, <1>3, <1>4, <1>5, <1>6 DEF Step, AdminNext

\* The notice for one build and one instant.
LEMMA NoticeOf ==
  ASSUME NEW h \in WasmHashes, NEW t \in 0 .. MaxTime
  PROVE  AdminSpec =>
           [](now = t /\ wasm # h /\ ~Announced(h)
                => [](now < t + UPGRADE_DELAY_SECONDS => wasm # h))
<1>1. AdminTypeOK /\ now = t /\ wasm # h /\ ~Announced(h) => Noticed(h, t)
  BY DEF Noticed, AdminTypeOK
<1>2. AdminTypeOK /\ Noticed(h, t) /\ [Step]_<<now, adminVars>> => Noticed(h, t)'
  BY NoticedIsKept
<1>3. AdminTypeOK /\ Noticed(h, t) => (now < t + UPGRADE_DELAY_SECONDS => wasm # h)
  BY AdminAssumption DEF Noticed, AdminTypeOK
<1> QED
  BY <1>1, <1>2, <1>3, AdminTypeCorrect, PTL DEF AdminSpec, Step

\* Nobody is surprised by new code, whatever the order of announcements,
\* cancellations, pauses and changes of admin (admin.rs, schedule_upgrade and
\* execute_upgrade).
THEOREM NoticeIsGiven == AdminSpec => UpgradeNotice
<1> SUFFICES ASSUME NEW h \in WasmHashes, NEW t \in 0 .. MaxTime
             PROVE  AdminSpec =>
                      [](now = t /\ wasm # h /\ ~Announced(h)
                           => [](now < t + UPGRADE_DELAY_SECONDS => wasm # h))
  BY DEF UpgradeNotice
<1> QED
  BY NoticeOf

-----------------------------------------------------------------------------
\* The plane implements the promise of announced changes.

LEMMA PlaneInitRefines == AdminInit => Upgrades!Init
<1> SUFFICES ASSUME AdminInit
             PROVE  Upgrades!Init
  OBVIOUS
<1>1. {k \in WasmHashes : Announced(k)} = {}
  BY DEF AdminInit, Announced
<1>2. [h \in {k \in WasmHashes : Announced(k)} |-> pending.execute_after] = <<>>
  BY <1>1
<1> QED
  BY <1>2, AdminAssumption DEF AdminInit, Upgrades!Init

LEMMA PlaneStepRefines ==
  ASSUME AdminTypeOK, [Step]_<<now, adminVars>>
  PROVE  [Upgrades!Next]_(Upgrades!vars)
<1> USE DEF AdminTypeOK, adminVars
<1>1. CASE Tick
  <2>1. now' >= now /\ now' \in Nat /\ UNCHANGED adminVars
    BY <1>1, AdminAssumption DEF Tick
  <2>2. Upgrades!Advance
    BY <2>1, AdminAssumption DEF Upgrades!Advance, Announced
  <2> QED
    BY <2>2 DEF Upgrades!Next
<1>2. CASE UNCHANGED <<now, pending, wasm>>
  BY <1>2 DEF Upgrades!vars, Announced
<1>3. CASE (\E a \in Principals : SetAdmin(a)) \/ Pause \/ Unpause
  BY <1>2, <1>3 DEF SetAdmin, Pause, Unpause
<1>4. ASSUME NEW g \in WasmHashes, ScheduleUpgrade(g)
      PROVE  [Upgrades!Next]_(Upgrades!vars)
  <2>1. ExecuteAfter = now + UPGRADE_DELAY_SECONDS /\ ExecuteAfter \in Nat
    BY AdminAssumption DEF ExecuteAfter
  <2>2. /\ pending = NoUpgrade
        /\ pending' = [wasm_hash |-> g, execute_after |-> ExecuteAfter]
        /\ pending' # NoUpgrade
        /\ UNCHANGED <<now, wasm>>
    BY <1>4, <2>1, NoUpgradeAssumption DEF ScheduleUpgrade, PendingUpgrade
  <2>3. /\ {k \in WasmHashes : Announced(k)} = {}
        /\ {k \in WasmHashes : Announced(k)}' = {g}
    BY <1>4, <2>2 DEF Announced
  <2>4. Upgrades!Announce(g)
    BY <2>1, <2>2, <2>3 DEF Upgrades!Announce
  <2> QED
    BY <2>4 DEF Upgrades!Next
<1>5. ASSUME pending # NoUpgrade, pending' = NoUpgrade
      PROVE  /\ pending.wasm_hash \in WasmHashes
             /\ Upgrades!Dropped(pending.wasm_hash)
  <2>1. pending.wasm_hash \in WasmHashes
    BY <1>5 DEF PendingUpgrade
  <2>2. /\ {k \in WasmHashes : Announced(k)} = {pending.wasm_hash}
        /\ {k \in WasmHashes : Announced(k)}' = {}
    BY <1>5, <2>1 DEF Announced
  <2> QED
    BY <2>1, <2>2 DEF Upgrades!Dropped
<1>6. CASE CancelUpgrade
  <2>1. Upgrades!Withdraw(pending.wasm_hash) /\ pending.wasm_hash \in WasmHashes
    BY <1>5, <1>6 DEF CancelUpgrade, Upgrades!Withdraw
  <2> QED
    BY <2>1 DEF Upgrades!Next
<1>7. CASE ExecuteUpgrade
  <2>1. /\ pending.wasm_hash \in WasmHashes
        /\ Upgrades!Dropped(pending.wasm_hash)
    BY <1>5, <1>7 DEF ExecuteUpgrade
  <2>2. Announced(pending.wasm_hash)
    BY <1>7 DEF ExecuteUpgrade, Announced
  <2>3. Upgrades!TakeEffect(pending.wasm_hash)
    BY <1>7, <2>1, <2>2, AdminAssumption DEF ExecuteUpgrade, Upgrades!TakeEffect
  <2> QED
    BY <2>1, <2>3 DEF Upgrades!Next
<1> QED
  BY <1>1, <1>2, <1>3, <1>4, <1>6, <1>7 DEF Step, AdminNext

\* The plane keeps the promise of announced changes: a build is announced a
\* whole delay ahead, may be withdrawn, and runs no earlier (schedule_upgrade,
\* cancel_upgrade, execute_upgrade).
THEOREM PlaneImplementsNotice == AdminSpec => RefinesAnnouncedUpgrades
<1>1. AdminTypeOK /\ [Step]_<<now, adminVars>> => [Upgrades!Next]_(Upgrades!vars)
  BY PlaneStepRefines
<1> QED
  BY <1>1, PlaneInitRefines, AdminTypeCorrect, PTL
  DEF AdminSpec, Step, RefinesAnnouncedUpgrades, Upgrades!Spec
=============================================================================
