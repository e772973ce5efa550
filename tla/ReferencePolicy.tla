-------------------------- MODULE ReferencePolicy ---------------------------
(***************************************************************************)
(* The reference policy extension on top of the simple registry.  It is    *)
(* the agent of a mandate: the user installs one immutable policy, and the *)
(* executor it names sends requests, each with a nonce, a short validity   *)
(* window and the sequence number it expects.  execute checks its own      *)
(* rules, burns the nonce and calls the registry in the same transaction,  *)
(* so that a payment the registry refuses leaves the nonce unburnt.        *)
(*                                                                         *)
(* A request may be sent any number of times, in any order, late or never: *)
(* Execute is possible whenever its checks pass.  The executor only signs. *)
(* The re-entry lock is set and cleared inside one transaction, and the    *)
(* host refuses re-entry, so it is not in the state.  A policy's hash is   *)
(* the policy.  The extension serves one registry here.                    *)
(***************************************************************************)
EXTENDS SimpleRegistry, FiniteSets

CONSTANTS
  Extension,                  \* this contract's address, one of Agents
  PolicyChoices,              \* [max_per_payment, not_before] users install
  Nonces,                     \* nonces requests carry
  Windows,                    \* [valid_after, valid_before] of requests
  MAX_POLICY_LIFETIME_SECS,   \* longest remaining life of a mandate at install
  MAX_REQUEST_LIFETIME_SECS   \* longest window of a request

Choice == [max_per_payment : Int, not_before : Nat]
Window == [valid_after : Nat, valid_before : Nat]

ASSUME PolicyAssumption ==
  /\ Extension \in Agents
  /\ PolicyChoices \subseteq Choice
  /\ Windows \subseteq Window
  /\ MAX_POLICY_LIFETIME_SECS \in Nat
  /\ MAX_REQUEST_LIFETIME_SECS \in Nat

VARIABLES
  policies,   \* storage: mandate id -> installed binding
  consumed,   \* storage: mandate id -> nonces burnt under its policy
  served      \* history: mandate id -> nonce -> payments made with it

policyVars == <<policies, consumed, served>>
allVars == <<now, adminVars, ledgerVars, policyVars>>

\* The mandate's terms as they were at installation, and the user's choice.
Binding == [terms : MandateParams, choice : Choice]

PolicyTypeOK ==
  /\ SimpleTypeOK
  /\ DOMAIN policies \subseteq MandateIds
  /\ policies \in [DOMAIN policies -> Binding]
  /\ consumed \in [MandateIds -> SUBSET Nonces]
  /\ served \in [MandateIds -> [Nonces -> Nat]]

PolicyInit ==
  /\ SimpleInit
  /\ policies = <<>>
  /\ consumed = [m \in MandateIds |-> {}]
  /\ served = [m \in MandateIds |-> [n \in Nonces |-> 0]]

-----------------------------------------------------------------------------
\* Once per mandate, from the live mandate, signed by its user.
InstallPolicy(m, choice) ==
  /\ m \notin DOMAIN policies
  /\ m \in DOMAIN mandates
  /\ mandates[m].status = "Active"
  /\ Terms(m).agent = Extension
  /\ choice.max_per_payment > 0
  /\ choice.max_per_payment <= Terms(m).max_amount
  /\ now < Terms(m).expiry
  /\ choice.not_before < Terms(m).expiry
  /\ Terms(m).expiry - now <= MAX_POLICY_LIFETIME_SECS
  /\ policies' = [k \in DOMAIN policies \cup {m} |->
                    IF k = m THEN [terms |-> Terms(m), choice |-> choice]
                             ELSE policies[k]]
  /\ UNCHANGED <<now, adminVars, ledgerVars, consumed, served>>

\* The request is timely and short-lived.
ValidEnvelope(r) ==
  /\ r.amount > 0
  /\ r.window.valid_after <= now
  /\ now < r.window.valid_before
  /\ r.window.valid_before - r.window.valid_after <= MAX_REQUEST_LIFETIME_SECS

\* Fault: the cap is not looked at.
AllowsAnyAmount(m, r) ==
  /\ r.choice = policies[m].choice
  /\ now >= policies[m].choice.not_before
  /\ r.window.valid_before <= policies[m].terms.expiry

\* The request names the installed policy, and the policy allows it.
PolicyAllows(m, r) ==
  /\ r.choice = policies[m].choice
  /\ now >= policies[m].choice.not_before
  /\ r.window.valid_before <= policies[m].terms.expiry
  /\ r.amount <= policies[m].choice.max_per_payment

\* Fault: a replayed nonce is taken.
NeverConsumed(m, nonce) == FALSE

IsConsumed(m, nonce) == nonce \in consumed[m]

LiveMandateAgrees(m) ==
  /\ m \in DOMAIN mandates
  /\ mandates[m].status = "Active"
  /\ Terms(m) = policies[m].terms

\* Fault: a payment the registry refuses does not roll back the nonce.
PayOrGiveUp(m, r) ==
  \/ ExecutePayment(Extension, m, r.amount, r.expected_seq)
  \/ UNCHANGED <<now, adminVars, ledgerVars>>

\* The call into the registry; refused, it takes everything back with it.
Pay(m, r) == ExecutePayment(Extension, m, r.amount, r.expected_seq)

Execute(m, r) ==
  /\ ValidEnvelope(r)
  /\ m \in DOMAIN policies
  /\ PolicyAllows(m, r)
  /\ ~IsConsumed(m, r.nonce)
  /\ LiveMandateAgrees(m)
  /\ consumed' = [consumed EXCEPT ![m] = @ \cup {r.nonce}]
  /\ Pay(m, r)
  /\ served' = [served EXCEPT ![m][r.nonce] =
                  IF paid'[m] # paid[m] THEN @ + 1 ELSE @]
  /\ UNCHANGED policies

\* What executors may sign, whatever is installed.
Requests ==
  [amount : Amounts, expected_seq : 0 .. MaxSeq, nonce : Nonces,
   window : Windows, choice : PolicyChoices]

-----------------------------------------------------------------------------
\* The extension acts for its own mandates only; any other agent pays by
\* itself.
PolicyNext ==
  \/ (Housekeeping \/ Payments(Agents \ {Extension})) /\ UNCHANGED policyVars
  \/ \E m \in MandateIds, c \in PolicyChoices : InstallPolicy(m, c)
  \/ \E m \in MandateIds, r \in Requests : Execute(m, r)

PolicySpec == PolicyInit /\ [][PolicyNext]_allVars

-----------------------------------------------------------------------------
(* Properties. *)

\* A nonce pays at most once, and it is burnt only by a payment: over
\* retries under newer sequence numbers, and payments that fail after the
\* extension burnt the nonce.  (execute)
NoncePaysOnce ==
  \A m \in MandateIds, n \in Nonces :
    served[m][n] = IF n \in consumed[m] THEN 1 ELSE 0

\* The two contracts count alike: the registry's counter of a mandate held
\* by the extension is the number of nonces burnt for it.
SeqCountsNonces ==
  \A m \in DOMAIN mandates :
    Terms(m).agent = Extension => mandates[m].seq = Cardinality(consumed[m])

\* What the user bound at installation is what the registry still holds; only
\* the mandate's progress can tell the two apart.  (the mismatches of
\* require_live_mandate_agrees are unreachable, so no policy is stranded)
BindingAgrees ==
  \A m \in DOMAIN policies :
    /\ m \in DOMAIN mandates
    /\ policies[m].terms = Terms(m)
    /\ Terms(m).agent = Extension

\* The policy governs its mandate: no payment of any kind is made under a
\* mandate held by the extension before a policy is installed, above the cap
\* the user chose, or before the start the user chose; and what is paid in
\* total is within the cap times the nonces burnt.
PolicyGoverns ==
  [][\A m \in DOMAIN mandates :
       Terms(m).agent = Extension /\ paid'[m] # paid[m] =>
         /\ m \in DOMAIN policies
         /\ now >= policies[m].choice.not_before
         /\ paid'[m] - paid[m] <= policies[m].choice.max_per_payment
         /\ paid'[m] <= policies[m].choice.max_per_payment
                          * Cardinality(consumed'[m])]_allVars
=============================================================================
