----------------------------- MODULE PolicyRows -----------------------------
(***************************************************************************)
(* The rows of one mandate in the reference policy's storage: its policy   *)
(* and its burnt nonces.  Both are extended to twice what is left of the   *)
(* mandate's life; a nonce's row is written once and never touched again.  *)
(* What the operations do besides is in ReferencePolicy.                   *)
(***************************************************************************)
EXTENDS RowLife

CONSTANTS
  Nonces,                    \* nonces of the requests sent
  PolicyLives,               \* bound: what mandates have left to live
  MAX_POLICY_LIFETIME_SECS   \* longest life of a policy

\* The extension asked for, as the host grants it, is time enough, and a new
\* row is extended; or a new row is time enough by itself.
ASSUME PolicyRowsAssumption ==
  /\ PolicyLives \subseteq Nat
  /\ MAX_POLICY_LIFETIME_SECS \in Nat
  /\ \/ FastestClose * NewRowTtl >= MAX_POLICY_LIFETIME_SECS
     \/ /\ NewRowTtl <= TTL_THRESHOLD
        /\ \A secs \in 0 .. MAX_POLICY_LIFETIME_SECS :
             FastestClose * Lesser(MaxTtl, Greater((secs \div SECS_PER_LEDGER) * 2,
                                                   TTL_EXTEND)) >= secs

VARIABLES
  mandateExpiry,  \* the installed policy's; 0: none is installed
  policyRow,      \* Policy(registry, mandate): the ledger it lives until
  nonceRow        \* Consumed(policy, nonce); 0: not burnt

policyRowsVars == <<ledger, now, mandateExpiry, policyRow, nonceRow>>

\* Types; no row lives longer than the host allows.
PolicyRowsTypeOK ==
  /\ ledger \in Nat
  /\ now \in 0 .. MaxTime
  /\ mandateExpiry \in Nat
  /\ policyRow \in 0 .. ledger + MaxTtl
  /\ nonceRow \in [Nonces -> 0 .. ledger + MaxTtl]

PolicyRowsInit ==
  /\ ledger = 0
  /\ now = 0
  /\ mandateExpiry = 0
  /\ policyRow = 0
  /\ nonceRow = [n \in Nonces |-> 0]

\* Fault: no margin for ledgers that close early.
ExtendTtlNoMargin(secs) ==
  Greater(Lesser(secs, MAX_POLICY_LIFETIME_SECS) \div SECS_PER_LEDGER,
          TTL_EXTEND)

\* Seconds to ledgers with a margin of 2, a cap and a floor.
ExtendTtl(secs) ==
  Greater((Lesser(secs, MAX_POLICY_LIFETIME_SECS) \div SECS_PER_LEDGER) * 2,
          TTL_EXTEND)

\* saturating_sub
Remaining(expiresAt) == IF now > expiresAt THEN 0 ELSE expiresAt - now

\* extend_until
ExtendedUntil(until, expiresAt) ==
  Extended(until, TTL_THRESHOLD, ExtendTtl(Remaining(expiresAt)))

InstallPolicy(secs) ==
  /\ mandateExpiry = 0
  /\ secs > 0
  /\ secs <= MAX_POLICY_LIFETIME_SECS
  /\ mandateExpiry' = now + secs
  /\ policyRow' = ExtendedUntil(NewRow, now + secs)
  /\ UNCHANGED <<ledger, now, nonceRow>>

\* Also when it is too late for anything else.
GetPolicy ==
  /\ mandateExpiry # 0 /\ Live(policyRow)
  /\ policyRow' = ExtendedUntil(policyRow, mandateExpiry)
  /\ UNCHANGED <<ledger, now, mandateExpiry, nonceRow>>

\* execute, of a request that pays.
Burn(n) ==
  /\ mandateExpiry # 0 /\ Live(policyRow)
  /\ now < mandateExpiry
  /\ nonceRow[n] = 0
  /\ policyRow' = ExtendedUntil(policyRow, mandateExpiry)
  /\ nonceRow' = [nonceRow EXCEPT ![n] = ExtendedUntil(NewRow, mandateExpiry)]
  /\ UNCHANGED <<ledger, now, mandateExpiry>>

PolicyRowsNext ==
  \/ Close /\ UNCHANGED <<mandateExpiry, policyRow, nonceRow>>
  \/ GetPolicy
  \/ \E secs \in PolicyLives : InstallPolicy(secs)
  \/ \E n \in Nonces : Burn(n)

PolicyRowsSpec == PolicyRowsInit /\ [][PolicyRowsNext]_policyRowsVars

-----------------------------------------------------------------------------
(* Properties. *)

\* As long as the mandate lives its policy and every nonce burnt for it are
\* live, though nobody ever touches a nonce's row again: a payment never finds
\* its policy archived, and a replayed request is answered as one
\* (types.rs:5, storage.rs:87).
ReplayEntriesOutliveMandate ==
  now < mandateExpiry =>
    /\ Live(policyRow)
    /\ \A n \in Nonces : nonceRow[n] # 0 => Live(nonceRow[n])
=============================================================================
