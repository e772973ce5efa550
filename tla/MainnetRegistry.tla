-------------------------- MODULE MainnetRegistry --------------------------
(***************************************************************************)
(* The mainnet mandate registry: the payment path of the simple registry   *)
(* with a bounded lifetime, a list of accepted assets that registration    *)
(* consults, a counter that stops at its width, and powers split among     *)
(* roles.  It has no scheduler: notice is the business of whoever holds    *)
(* the roles (MainnetGovernance).                                          *)
(*                                                                         *)
(* One action is one transaction, and a call that fails is no step.        *)
(* Agents only sign, so they are not in the state.                         *)
(***************************************************************************)
EXTENDS Integers, AccessControl

CONSTANTS
  Users,                         \* accounts that grant mandates
  Assets,                        \* token contracts
  MandateIds,                    \* vc_hash values
  TermsFor,                      \* id -> parameters register_mandate may get
  Amounts,                       \* payment amounts an agent asks for
  Funds,                         \* bound: what a user's dealings leave
  WasmHashes,                    \* builds that keep this interface
  InitialWasm,                   \* the build deployed
  Governance,                    \* GovernanceConfig of the constructor
  OperatorCalls,                 \* bound: administration calls made
  InitialAsset,                  \* the first accepted asset
  MAX_MANDATE_LIFETIME_SECONDS,  \* longest life of a mandate
  MaxU32,                        \* largest value of the payment counter
  MaxTime                        \* bound: the last instant

MandateParams == [user : Users, asset : Assets, max_amount : Int, expiry : Nat]

GovernanceConfig ==
  [{"admin", "pauser", "unpauser", "asset_policy", "upgrader"} -> Accounts]

PolicyCalls ==
  [fn : {"pause", "unpause"}]
    \cup [fn : {"set_asset_allowed"}, asset : Assets, allow : BOOLEAN]
    \cup [fn : {"upgrade"}, wasm_hash : WasmHashes]

ASSUME MainnetAssumption ==
  /\ TermsFor \in [MandateIds -> SUBSET MandateParams]
  /\ Amounts \subseteq Int
  /\ Funds \subseteq Nat
  /\ InitialWasm \in WasmHashes
  /\ Governance \in GovernanceConfig
  /\ OperatorCalls \subseteq PolicyCalls \cup AccessCalls
  /\ InitialAsset \in Assets
  /\ MAX_MANDATE_LIFETIME_SECONDS \in Nat
  /\ MaxU32 \in Nat
  /\ MaxTime \in Nat
  /\ {"pauser", "unpauser", "assetpol", "upgrader"} \subseteq Roles

VARIABLES
  now,          \* the ledger's close time
  paused,       \* storage: the emergency stop
  allowed,      \* storage: assets registration accepts
  wasm,         \* the code the contract runs
  regRoles,     \* the library's role record
  mandates,     \* storage: registered id -> mandate
  funds,        \* tokens: asset -> user -> what transfer_from can move
  paid,         \* history: id -> total transferred under the mandate
  usedSeqs,     \* history: id -> sequence numbers of its transfers
  unlistedAt    \* history: asset -> when it last left the list, else 0

policyVars == <<paused, allowed, wasm, regRoles, unlistedAt>>
ledgerVars == <<mandates, funds, paid, usedSeqs>>
mainnetVars == <<now, policyVars, ledgerVars>>

Mandate ==
  [terms : MandateParams, spent : Nat, seq : 0 .. MaxU32,
   status : {"Active", "Revoked", "Exhausted"}]

MainnetTypeOK ==
  /\ now \in 0 .. MaxTime
  /\ paused \in BOOLEAN
  /\ allowed \subseteq Assets
  /\ wasm \in WasmHashes
  /\ regRoles \in Access
  /\ DOMAIN mandates \subseteq MandateIds
  /\ mandates \in [DOMAIN mandates -> Mandate]
  /\ funds \in [Assets -> [Users -> Nat]]
  /\ paid \in [MandateIds -> Nat]
  /\ usedSeqs \in [MandateIds -> SUBSET Nat]
  /\ unlistedAt \in [Assets -> 0 .. MaxTime]

\* Whom the constructor gives each role.
FirstHolders ==
  [r \in Roles |-> CASE r = "pauser"   -> {Governance["pauser"]}
                     [] r = "unpauser" -> {Governance["unpauser"]}
                     [] r = "assetpol" -> {Governance["asset_policy"]}
                     [] r = "upgrader" -> {Governance["upgrader"]}
                     [] OTHER          -> {}]

MainnetInit ==
  /\ now = 0
  /\ paused = FALSE
  /\ allowed = {InitialAsset}
  /\ wasm = InitialWasm
  /\ regRoles = NewAccess(Governance["admin"], FirstHolders)
  /\ mandates = <<>>
  /\ funds \in [Assets -> [Users -> Funds]]
  /\ paid = [m \in MandateIds |-> 0]
  /\ usedSeqs = [m \in MandateIds |-> {}]
  /\ unlistedAt = [a \in Assets |-> 0]

Terms(m) == mandates[m].terms

-----------------------------------------------------------------------------
\* The user's side.

\* Fault: the list of accepted assets is not consulted.
AcceptableAnyAsset(t) ==
  /\ t.max_amount > 0
  /\ t.expiry > now
  /\ t.expiry - now <= MAX_MANDATE_LIFETIME_SECONDS

\* Terms register_mandate takes.
Acceptable(t) ==
  /\ t.max_amount > 0
  /\ t.expiry > now
  /\ t.expiry - now <= MAX_MANDATE_LIFETIME_SECONDS
  /\ t.asset \in allowed

NewMandate(t) == [terms |-> t, spent |-> 0, seq |-> 0, status |-> "Active"]

RegisterMandate(m, t) ==
  /\ Acceptable(t)
  /\ m \notin DOMAIN mandates
  /\ mandates' = [k \in DOMAIN mandates \cup {m} |->
                    IF k = m THEN NewMandate(t) ELSE mandates[k]]
  /\ UNCHANGED <<now, policyVars, funds, paid, usedSeqs>>

\* From any status, for good; no role can prevent it.
RevokeMandate(m) ==
  /\ m \in DOMAIN mandates
  /\ mandates' = [mandates EXCEPT ![m].status = "Revoked"]
  /\ UNCHANGED <<now, policyVars, funds, paid, usedSeqs>>

\* Fault: a revoked mandate pays as long as its budget lasts.
CheckIgnoringRevocation(m, amount) ==
  /\ amount > 0
  /\ mandates[m].status # "Exhausted"
  /\ now < Terms(m).expiry
  /\ amount <= Terms(m).max_amount - mandates[m].spent

\* Every check a payment is subject to.  The list is not consulted again.
Check(m, amount) ==
  /\ amount > 0
  /\ mandates[m].status = "Active"
  /\ now < Terms(m).expiry
  /\ amount <= Terms(m).max_amount - mandates[m].spent

\* Fault: the counter wraps.
NextSeqWrapping(n) == {(n + 1) % (MaxU32 + 1)}

\* checked_add: no next value at the end of the width.
NextSeq(n) == IF n = MaxU32 THEN {} ELSE {n + 1}

\* The row after a payment.
Advanced(row, amount, seq) ==
  [row EXCEPT !.spent = @ + amount,
              !.seq = seq,
              !.status = IF row.spent + amount = row.terms.max_amount
                         THEN "Exhausted" ELSE @]

ExecutePayment(m, amount, expectedSeq) ==
  /\ ~paused
  /\ m \in DOMAIN mandates
  /\ expectedSeq = mandates[m].seq
  /\ Check(m, amount)
  /\ amount <= funds[Terms(m).asset][Terms(m).user]
  /\ \E seq \in NextSeq(mandates[m].seq) :
       mandates' = [mandates EXCEPT ![m] = Advanced(@, amount, seq)]
  /\ funds' = [funds EXCEPT ![Terms(m).asset][Terms(m).user] = @ - amount]
  /\ paid' = [paid EXCEPT ![m] = @ + amount]
  /\ usedSeqs' = [usedSeqs EXCEPT ![m] = @ \cup {expectedSeq}]
  /\ UNCHANGED <<now, policyVars>>

\* A user approves, receives or spends elsewhere, or is frozen (external).
SetFunds(a, u, n) ==
  /\ funds' = [funds EXCEPT ![a][u] = n]
  /\ UNCHANGED <<now, policyVars, mandates, paid, usedSeqs>>

-----------------------------------------------------------------------------
\* The administration: each call names its operator, who must hold the role.

Pause(operator) ==
  /\ HasRole(regRoles, operator, "pauser")
  /\ paused' = TRUE
  /\ UNCHANGED <<now, allowed, wasm, regRoles, unlistedAt, ledgerVars>>

Unpause(operator) ==
  /\ HasRole(regRoles, operator, "unpauser")
  /\ paused' = FALSE
  /\ UNCHANGED <<now, allowed, wasm, regRoles, unlistedAt, ledgerVars>>

SetAssetAllowed(operator, asset, allow) ==
  /\ HasRole(regRoles, operator, "assetpol")
  /\ \/ /\ allow
        /\ allowed' = allowed \cup {asset}
        /\ UNCHANGED unlistedAt
     \/ /\ ~allow
        /\ allowed' = allowed \ {asset}
        /\ unlistedAt' = IF asset \in allowed
                         THEN [unlistedAt EXCEPT ![asset] = now]
                         ELSE unlistedAt
  /\ UNCHANGED <<now, paused, wasm, regRoles, ledgerVars>>

\* At once, stopped or not.
Upgrade(operator, newWasmHash) ==
  /\ HasRole(regRoles, operator, "upgrader")
  /\ wasm' = newWasmHash
  /\ UNCHANGED <<now, paused, allowed, regRoles, unlistedAt, ledgerVars>>

ManageRoles(operator, c) ==
  /\ AccessCall(regRoles, regRoles', operator, c)
  /\ UNCHANGED <<now, paused, allowed, wasm, unlistedAt, ledgerVars>>

RoleOfferLapses ==
  /\ OfferLapses(regRoles, regRoles')
  /\ UNCHANGED <<now, paused, allowed, wasm, unlistedAt, ledgerVars>>

\* The entry points an operator may call.
RegistryCall(operator, c) ==
  \/ c.fn = "pause" /\ Pause(operator)
  \/ c.fn = "unpause" /\ Unpause(operator)
  \/ c.fn = "set_asset_allowed" /\ SetAssetAllowed(operator, c.asset, c.allow)
  \/ c.fn = "upgrade" /\ Upgrade(operator, c.wasm_hash)
  \/ ManageRoles(operator, c)

\* What needs no operator.
UserNext ==
  \/ \E m \in MandateIds : \E t \in TermsFor[m] : RegisterMandate(m, t)
  \/ \E m \in MandateIds : RevokeMandate(m)
  \/ \E m \in MandateIds, amount \in Amounts, n \in 0 .. MaxU32 :
       ExecutePayment(m, amount, n)
  \/ \E a \in Assets, u \in Users, n \in Funds : SetFunds(a, u, n)

Tick ==
  /\ now < MaxTime
  /\ now' = now + 1
  /\ UNCHANGED <<policyVars, ledgerVars>>

MainnetNext ==
  \/ Tick
  \/ UserNext
  \/ RoleOfferLapses
  \/ \E operator \in Accounts, c \in OperatorCalls :
       RegistryCall(operator, c)

MainnetSpec == MainnetInit /\ [][MainnetNext]_mainnetVars

-----------------------------------------------------------------------------
(* Properties. *)

\* The books match the money up to the last payment the counter can number:
\* what a mandate has spent is what the token moved, each number below the
\* counter stands for one transfer, and no number is ever used again
\* (execute_payment, checked_add).
BooksMatchTransfers ==
  \A m \in DOMAIN mandates :
    /\ mandates[m].spent = paid[m]
    /\ paid[m] <= Terms(m).max_amount
    /\ usedSeqs[m] = 0 .. mandates[m].seq - 1
    /\ mandates[m].seq <= paid[m]
    /\ mandates[m].status = "Exhausted" => paid[m] = Terms(m).max_amount
    /\ mandates[m].status = "Active" => paid[m] < Terms(m).max_amount

\* Taking an asset off the list works without a look at it when paying: no
\* mandate in an unlisted asset outlives the time it was taken off by more
\* than the longest life of a mandate (register_mandate, set_asset_allowed,
\* execute_payment).
UnlistedAssetsDieOut ==
  \A m \in DOMAIN mandates :
    Terms(m).asset \notin allowed =>
      Terms(m).expiry
        <= unlistedAt[Terms(m).asset] + MAX_MANDATE_LIFETIME_SECONDS

\* What the mandates promise, whatever the holders of the roles do.
Authority == INSTANCE SpendAuthority WITH
  Ids     <- MandateIds,
  clock   <- now,
  limit   <- [m \in DOMAIN mandates |-> Terms(m).max_amount],
  expiry  <- [m \in DOMAIN mandates |-> Terms(m).expiry],
  moved   <- paid,
  revoked <- {m \in DOMAIN mandates : mandates[m].status = "Revoked"}

RefinesAuthority == Authority!Spec
=============================================================================
