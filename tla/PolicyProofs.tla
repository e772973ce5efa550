---------------------------- MODULE PolicyProofs ----------------------------
(***************************************************************************)
(* Proofs about the simple registry and about the reference policy on top  *)
(* of it, for every set of users, agents, mandates and nonces, every terms,*)
(* amounts, windows and policies.                                          *)
(*                                                                         *)
(* The extension's steps are steps of the registry, so what holds of the   *)
(* registry holds of the two together.                                     *)
(***************************************************************************)
EXTENDS ReferencePolicy, AdminPlaneProofs, FiniteSetTheorems

simpleVars == <<now, adminVars, ledgerVars>>

\* Nothing was moved under an id nobody has registered.
NothingBeforeGrant ==
  \A m \in MandateIds \ DOMAIN mandates : paid[m] = 0 /\ usedSeqs[m] = {}

SimpleInv ==
  /\ SimpleTypeOK
  /\ BooksMatchTransfers
  /\ NothingBeforeGrant

\* The conjunct of BooksMatchTransfers for one mandate.
Books(m) ==
  /\ mandates[m].spent = paid[m]
  /\ paid[m] <= Terms(m).max_amount
  /\ usedSeqs[m] = 0 .. mandates[m].seq - 1
  /\ mandates[m].seq <= paid[m]
  /\ mandates[m].status = "Exhausted" => paid[m] = Terms(m).max_amount
  /\ mandates[m].status = "Active" => paid[m] < Terms(m).max_amount

\* The parts of a stored row.
LEMMA RowTypes ==
  ASSUME SimpleTypeOK, NEW m \in DOMAIN mandates
  PROVE  /\ m \in MandateIds
         /\ mandates[m] \in Mandate
         /\ Terms(m) \in MandateParams
         /\ Terms(m).asset \in Assets /\ Terms(m).user \in Users
         /\ Terms(m).max_amount \in Int /\ Terms(m).expiry \in Nat
         /\ mandates[m].spent \in Nat /\ mandates[m].seq \in Nat
         /\ paid[m] \in Nat /\ usedSeqs[m] \in SUBSET Nat
<1>1. m \in MandateIds /\ mandates[m] \in Mandate
  BY DEF SimpleTypeOK
<1>2. Terms(m) \in MandateParams
  BY <1>1 DEF Mandate, Terms
<1> QED
  BY <1>1, <1>2 DEF SimpleTypeOK, Mandate, MandateParams

-----------------------------------------------------------------------------
LEMMA SimpleInitEstablishes == SimpleInit => SimpleInv
<1> SUFFICES ASSUME SimpleInit
             PROVE  SimpleInv
  OBVIOUS
<1>1. AdminTypeOK
  <2>1. 0 \in 0 .. MaxTime
    BY AdminAssumption
  <2> QED
    BY <2>1 DEF SimpleInit, AdminInit, AdminTypeOK
<1>2. funds \in [Assets -> [Users -> Nat]]
  BY SimpleAssumption DEF SimpleInit
<1>3. DOMAIN mandates = {} /\ mandates \in [DOMAIN mandates -> Mandate]
  BY DEF SimpleInit
<1>4. paid \in [MandateIds -> Nat] /\ usedSeqs \in [MandateIds -> SUBSET Nat]
  BY DEF SimpleInit
<1>5. SimpleTypeOK
  BY <1>1, <1>2, <1>3, <1>4 DEF SimpleTypeOK
<1>6. BooksMatchTransfers
  BY <1>3 DEF BooksMatchTransfers
<1>7. NothingBeforeGrant
  BY DEF SimpleInit, NothingBeforeGrant
<1> QED
  BY <1>5, <1>6, <1>7 DEF SimpleInv

LEMMA RegisterKeeps ==
  ASSUME SimpleInv, NEW m \in MandateIds, NEW t \in TermsFor[m], RegisterMandate(m, t)
  PROVE  SimpleInv'
<1>1. /\ t \in MandateParams /\ t.max_amount > 0 /\ t.max_amount \in Int
      /\ m \notin DOMAIN mandates
      /\ mandates' = [k \in DOMAIN mandates \cup {m} |->
                        IF k = m THEN NewMandate(t) ELSE mandates[k]]
      /\ UNCHANGED <<now, adminVars, funds, paid, usedSeqs>>
  BY SimpleAssumption DEF RegisterMandate, MandateParams, IdIsTaken
<1>2. NewMandate(t) \in Mandate
  BY <1>1 DEF NewMandate, Mandate
<1>3. /\ DOMAIN mandates' = DOMAIN mandates \cup {m}
      /\ mandates'[m] = NewMandate(t)
      /\ \A k \in DOMAIN mandates : mandates'[k] = mandates[k]
  BY <1>1
<1>4. SimpleTypeOK'
  BY <1>1, <1>2, <1>3 DEF SimpleInv, SimpleTypeOK, AdminTypeOK, adminVars
<1>5. BooksMatchTransfers'
  <2>1. ASSUME NEW k \in DOMAIN mandates
        PROVE  Books(k)'
    BY <1>1, <1>3 DEF SimpleInv, BooksMatchTransfers, Books, Terms
  <2>2. Books(m)'
    <3>1. paid[m] = 0 /\ usedSeqs[m] = {}
      BY <1>1 DEF SimpleInv, NothingBeforeGrant
    <3>2. 0 .. 0 - 1 = {}
      OBVIOUS
    <3> QED
      BY <1>1, <1>3, <3>1, <3>2 DEF NewMandate, Books, Terms
  <2> QED
    BY <1>3, <2>1, <2>2 DEF BooksMatchTransfers, Books
<1>6. NothingBeforeGrant'
  BY <1>1, <1>3 DEF SimpleInv, NothingBeforeGrant
<1> QED
  BY <1>4, <1>5, <1>6 DEF SimpleInv

LEMMA RevokeKeeps ==
  ASSUME SimpleInv, NEW m \in MandateIds, RevokeMandate(m)
  PROVE  SimpleInv'
<1>1. /\ m \in DOMAIN mandates
      /\ mandates' = [mandates EXCEPT ![m].status = "Revoked"]
      /\ UNCHANGED <<now, adminVars, funds, paid, usedSeqs>>
  BY DEF RevokeMandate
<1>2. mandates[m] \in Mandate
  BY <1>1, RowTypes DEF SimpleInv
<1>3. /\ DOMAIN mandates' = DOMAIN mandates
      /\ \A k \in DOMAIN mandates \ {m} : mandates'[k] = mandates[k]
      /\ mandates'[m] = [mandates[m] EXCEPT !.status = "Revoked"]
      /\ mandates'[m] \in Mandate
  BY <1>1, <1>2 DEF Mandate
<1>4. SimpleTypeOK'
  BY <1>1, <1>3 DEF SimpleInv, SimpleTypeOK, AdminTypeOK, adminVars
<1>5. ASSUME NEW k \in DOMAIN mandates
      PROVE  Books(k)'
  BY <1>1, <1>2, <1>3 DEF SimpleInv, BooksMatchTransfers, Books, Terms, Mandate
<1>6. NothingBeforeGrant'
  BY <1>1, <1>3 DEF SimpleInv, NothingBeforeGrant
<1> QED
  BY <1>3, <1>4, <1>5, <1>6 DEF SimpleInv, BooksMatchTransfers, Books

\* What a payment does to the stored row and to the history.
PaidOut(m, amount) ==
  /\ m \in DOMAIN mandates
  /\ amount \in Nat /\ amount > 0
  /\ DOMAIN mandates' = DOMAIN mandates
  /\ \A k \in DOMAIN mandates \ {m} : mandates'[k] = mandates[k]
  /\ mandates'[m] \in Mandate
  /\ mandates'[m].terms = mandates[m].terms
  /\ mandates'[m].spent = mandates[m].spent + amount
  /\ mandates'[m].seq = mandates[m].seq + 1
  /\ mandates'[m].status =
       IF mandates[m].spent + amount = Terms(m).max_amount
       THEN "Exhausted" ELSE "Active"
  /\ mandates[m].spent + amount <= Terms(m).max_amount
  /\ paid'[m] = paid[m] + amount
  /\ usedSeqs'[m] = usedSeqs[m] \cup {mandates[m].seq}
  /\ \A k \in MandateIds \ {m} : paid'[k] = paid[k] /\ usedSeqs'[k] = usedSeqs[k]

\* A payment does that.
LEMMA PaymentEffects ==
  ASSUME SimpleInv, NEW c, NEW m \in MandateIds, NEW amount \in Amounts,
         NEW n \in 0 .. MaxSeq, ExecutePayment(c, m, amount, n)
  PROVE  PaidOut(m, amount)
<1>1. /\ m \in DOMAIN mandates /\ Check(m, amount) /\ n = mandates[m].seq
      /\ mandates' = [mandates EXCEPT ![m] = Advanced(@, amount)]
      /\ paid' = [paid EXCEPT ![m] = @ + amount]
      /\ usedSeqs' = [usedSeqs EXCEPT ![m] = @ \cup {n}]
  BY DEF ExecutePayment
<1>2. /\ mandates[m] \in Mandate
      /\ mandates[m].spent \in Nat /\ mandates[m].seq \in Nat
      /\ Terms(m).max_amount \in Int
  BY <1>1, RowTypes DEF SimpleInv
<1>3. /\ amount \in Nat /\ amount > 0
      /\ mandates[m].status = "Active"
      /\ mandates[m].spent + amount <= Terms(m).max_amount
  BY <1>1, SimpleAssumption DEF Check
<1>4. /\ mandates[m].spent + amount \in Nat
      /\ mandates[m].seq + 1 \in Nat
  BY <1>2, <1>3
<1>5. /\ DOMAIN mandates' = DOMAIN mandates
      /\ \A k \in DOMAIN mandates \ {m} : mandates'[k] = mandates[k]
      /\ mandates'[m] = Advanced(mandates[m], amount)
  BY <1>1
<1>6. /\ mandates'[m] \in Mandate
      /\ mandates'[m].terms = mandates[m].terms
      /\ mandates'[m].spent = mandates[m].spent + amount
      /\ mandates'[m].seq = mandates[m].seq + 1
      /\ mandates'[m].status =
              IF mandates[m].spent + amount = Terms(m).max_amount
              THEN "Exhausted" ELSE "Active"
  BY <1>2, <1>3, <1>4, <1>5 DEF Advanced, Mandate, Terms
<1>7. /\ paid'[m] = paid[m] + amount
      /\ usedSeqs'[m] = usedSeqs[m] \cup {mandates[m].seq}
      /\ \A k \in MandateIds \ {m} : paid'[k] = paid[k] /\ usedSeqs'[k] = usedSeqs[k]
  BY <1>1 DEF SimpleInv, SimpleTypeOK
<1> QED
  BY <1>1, <1>3, <1>5, <1>6, <1>7 DEF PaidOut

LEMMA PaymentKeeps ==
  ASSUME SimpleInv, NEW c, NEW m \in MandateIds, NEW amount \in Amounts,
         NEW n \in 0 .. MaxSeq, ExecutePayment(c, m, amount, n)
  PROVE  SimpleInv'
<1>1. /\ m \in DOMAIN mandates
      /\ amount <= funds[Terms(m).asset][Terms(m).user]
      /\ funds' = [funds EXCEPT ![Terms(m).asset][Terms(m).user] = @ - amount]
      /\ paid' = [paid EXCEPT ![m] = @ + amount]
      /\ usedSeqs' = [usedSeqs EXCEPT ![m] = @ \cup {n}]
      /\ UNCHANGED <<now, adminVars>>
  BY DEF ExecutePayment
<1>2. /\ Terms(m).asset \in Assets /\ Terms(m).user \in Users
      /\ Terms(m).max_amount \in Int
      /\ mandates[m].spent \in Nat /\ mandates[m].seq \in Nat
      /\ paid[m] \in Nat
  BY <1>1, RowTypes DEF SimpleInv
<1>3. PaidOut(m, amount)
  BY PaymentEffects
<1> USE DEF PaidOut
<1>4. SimpleTypeOK'
  <2>1. funds' \in [Assets -> [Users -> Nat]]
    <3>1. funds \in [Assets -> [Users -> Nat]]
      BY DEF SimpleInv, SimpleTypeOK
    <3>2. funds[Terms(m).asset][Terms(m).user] - amount \in Nat
      BY <1>1, <1>2, <3>1, <1>3
    <3> QED
      BY <1>1, <1>2, <3>1, <3>2
  <2>2. paid' \in [MandateIds -> Nat] /\ usedSeqs' \in [MandateIds -> SUBSET Nat]
    BY <1>1, <1>2, <1>3 DEF SimpleInv, SimpleTypeOK
  <2>3. \A k \in DOMAIN mandates : mandates'[k] \in Mandate
    BY <1>3, RowTypes DEF SimpleInv
  <2>4. mandates' \in [DOMAIN mandates' -> Mandate]
    <3>1. DOMAIN mandates' = DOMAIN mandates
      BY <1>3
    <3>2. mandates' = [k \in DOMAIN mandates |-> mandates'[k]]
      BY DEF ExecutePayment, SimpleInv, SimpleTypeOK
    <3> QED
      BY <2>3, <3>1, <3>2
  <2>5. AdminTypeOK' /\ DOMAIN mandates' \subseteq MandateIds
    BY <1>1, <1>3 DEF SimpleInv, SimpleTypeOK, AdminTypeOK, adminVars
  <2> QED
    BY <2>1, <2>2, <2>4, <2>5 DEF SimpleTypeOK
<1>5. ASSUME NEW k \in DOMAIN mandates
      PROVE  Books(k)'
  <2>1. Books(k) /\ k \in MandateIds
    BY RowTypes DEF SimpleInv, BooksMatchTransfers, Books
  <2>2. CASE k # m
    BY <2>1, <2>2, <1>3 DEF Books, Terms
  <2>3. CASE k = m
    <3>1. (0 .. mandates[m].seq - 1) \cup {mandates[m].seq}
            = 0 .. mandates[m].seq + 1 - 1
      BY <1>2
    <3>2. usedSeqs'[m] = 0 .. mandates'[m].seq - 1
      <4>1. usedSeqs'[m] = (0 .. mandates[m].seq - 1) \cup {mandates[m].seq}
        BY <2>1, <2>3, <1>3 DEF Books
      <4>2. mandates'[m].seq = mandates[m].seq + 1
        BY <1>3
      <4> QED
        BY <3>1, <4>1, <4>2
    <3>3. /\ mandates[m].spent = paid[m] /\ mandates[m].seq <= paid[m]
      BY <2>1, <2>3 DEF Books
    <3> QED
      BY <1>2, <2>3, <3>2, <3>3, <1>3 DEF Books, Terms
  <2> QED
    BY <2>2, <2>3
<1>6. NothingBeforeGrant'
  BY <1>3 DEF SimpleInv, NothingBeforeGrant
<1>7. BooksMatchTransfers'
  BY <1>3, <1>5 DEF BooksMatchTransfers, Books
<1> QED
  BY <1>4, <1>6, <1>7 DEF SimpleInv

LEMMA SimpleStepKeeps ==
  ASSUME SimpleInv, [SimpleNext]_simpleVars
  PROVE  SimpleInv'
<1>1. ASSUME Tick \/ AdminNext \/ UNCHANGED <<now, adminVars>>, UNCHANGED ledgerVars
      PROVE  SimpleInv'
  <2>1. AdminTypeOK'
    BY <1>1, AdminTypesAreKept DEF SimpleInv, SimpleTypeOK, Step
  <2> QED
    BY <1>1, <2>1 DEF SimpleInv, SimpleTypeOK, BooksMatchTransfers, NothingBeforeGrant,
                      Terms, ledgerVars
<1>2. ASSUME NEW a \in Assets, NEW u \in Users, NEW n \in Funds, SetFunds(a, u, n)
      PROVE  SimpleInv'
  <2>1. n \in Nat
    BY SimpleAssumption
  <2>2. funds' \in [Assets -> [Users -> Nat]]
    BY <1>2, <2>1 DEF SetFunds, SimpleInv, SimpleTypeOK
  <2>3. UNCHANGED <<now, adminVars, mandates, paid, usedSeqs>>
    BY <1>2 DEF SetFunds
  <2> QED
    BY <2>2, <2>3 DEF SimpleInv, SimpleTypeOK, AdminTypeOK, adminVars,
                      BooksMatchTransfers, NothingBeforeGrant, Terms
<1>3. ASSUME NEW m \in MandateIds, NEW t \in TermsFor[m], RegisterMandate(m, t)
      PROVE  SimpleInv'
  BY <1>3, RegisterKeeps
<1>4. ASSUME NEW m \in MandateIds, RevokeMandate(m)
      PROVE  SimpleInv'
  BY <1>4, RevokeKeeps
<1>5. ASSUME NEW c \in Agents, NEW m \in MandateIds, NEW amount \in Amounts,
             NEW n \in 0 .. MaxSeq, ExecutePayment(c, m, amount, n)
      PROVE  SimpleInv'
  BY <1>5, PaymentKeeps
<1>6. CASE UNCHANGED simpleVars
  BY <1>1, <1>6 DEF simpleVars
<1> QED
  BY <1>1, <1>2, <1>3, <1>4, <1>5, <1>6 DEF SimpleNext, Housekeeping, Payments

\* The strengthened invariant holds in every reachable state of the simple
\* registry (its three entry points under the administration plane).
THEOREM SimpleInvariance == SimpleSpec => []SimpleInv
<1>1. SimpleInv /\ [SimpleNext]_<<now, adminVars, ledgerVars>> => SimpleInv'
  BY SimpleStepKeeps DEF simpleVars
<1> QED
  BY <1>1, SimpleInitEstablishes, PTL DEF SimpleSpec

\* What a mandate of the simple registry has spent is what was transferred
\* under it, within its budget, and each sequence number stands for one
\* transfer (execute_payment).
THEOREM SimpleBooksHold == SimpleSpec => []BooksMatchTransfers
<1>1. SimpleInv => BooksMatchTransfers
  BY DEF SimpleInv
<1> QED
  BY <1>1, SimpleInvariance, PTL

-----------------------------------------------------------------------------
\* The refinement of the simple registry.

LEMMA SimpleSameAuthority ==
  ASSUME DOMAIN mandates' = DOMAIN mandates,
         \A k \in DOMAIN mandates :
           /\ mandates'[k].terms = mandates[k].terms
           /\ mandates'[k].status = "Revoked" <=> mandates[k].status = "Revoked"
  PROVE  /\ [m \in DOMAIN mandates |-> Terms(m).max_amount]'
              = [m \in DOMAIN mandates |-> Terms(m).max_amount]
         /\ [m \in DOMAIN mandates |-> Terms(m).expiry]'
              = [m \in DOMAIN mandates |-> Terms(m).expiry]
         /\ {m \in DOMAIN mandates : mandates[m].status = "Revoked"}'
              = {m \in DOMAIN mandates : mandates[m].status = "Revoked"}
BY DEF Terms

LEMMA SimpleInitRefines == SimpleInit => Authority!Init
BY DEF SimpleInit, AdminInit, Authority!Init

LEMMA PaymentRefines ==
  ASSUME SimpleInv, NEW c, NEW m \in MandateIds, NEW amount \in Amounts,
         NEW n \in 0 .. MaxSeq, ExecutePayment(c, m, amount, n)
  PROVE  Authority!Debit
<1>1. /\ m \in DOMAIN mandates
      /\ mandates[m].status = "Active" /\ now < Terms(m).expiry
      /\ now' = now
  BY DEF ExecutePayment, Check
<1>2. PaidOut(m, amount)
  BY PaymentEffects
<1> USE DEF PaidOut
<1>3. paid[m] \in Nat /\ paid[m] = mandates[m].spent
  BY <1>1, RowTypes DEF SimpleInv, BooksMatchTransfers
<1>4. paid' # paid /\ DOMAIN paid' = MandateIds
  BY <1>2, <1>3 DEF ExecutePayment, SimpleInv, SimpleTypeOK
<1>5. \A k \in MandateIds : paid'[k] # paid[k] =>
        /\ k \in DOMAIN mandates
        /\ mandates[k].status # "Revoked"
        /\ now < Terms(k).expiry
        /\ paid'[k] > paid[k]
        /\ paid'[k] <= Terms(k).max_amount
  BY <1>1, <1>2, <1>3
<1>6. \A k \in DOMAIN mandates :
        /\ mandates'[k].terms = mandates[k].terms
        /\ mandates'[k].status = "Revoked" <=> mandates[k].status = "Revoked"
  BY <1>1, <1>2
<1> QED
  BY <1>1, <1>2, <1>4, <1>5, <1>6, SimpleSameAuthority DEF Authority!Debit

LEMMA SimpleStepRefines ==
  ASSUME SimpleInv, [SimpleNext]_simpleVars
  PROVE  [Authority!Next]_(Authority!vars)
<1>1. CASE Tick /\ UNCHANGED ledgerVars
  <2>1. now' > now /\ mandates' = mandates /\ paid' = paid
    BY <1>1 DEF Tick, ledgerVars, SimpleInv, SimpleTypeOK, AdminTypeOK
  <2>2. Authority!Advance
    BY <2>1 DEF Authority!Advance, Terms
  <2> QED
    BY <2>2 DEF Authority!Next
<1>2. CASE now' = now /\ mandates' = mandates /\ paid' = paid
  BY <1>2 DEF Authority!vars, Terms
<1>3. CASE AdminNext /\ UNCHANGED ledgerVars
  BY <1>2, <1>3 DEF ledgerVars, AdminNext, SetAdmin, Pause, Unpause,
                    ScheduleUpgrade, CancelUpgrade, ExecuteUpgrade
<1>4. ASSUME NEW a \in Assets, NEW u \in Users, NEW n \in Funds, SetFunds(a, u, n)
      PROVE  [Authority!Next]_(Authority!vars)
  BY <1>2, <1>4 DEF SetFunds
<1>5. ASSUME NEW m \in MandateIds, NEW t \in TermsFor[m], RegisterMandate(m, t)
      PROVE  [Authority!Next]_(Authority!vars)
  <2>1. /\ t.max_amount > 0 /\ t.expiry > now
        /\ m \notin DOMAIN mandates
        /\ DOMAIN mandates' = DOMAIN mandates \cup {m}
        /\ \A k \in DOMAIN mandates : mandates'[k] = mandates[k]
        /\ mandates'[m].terms = t /\ mandates'[m].status = "Active"
        /\ now' = now /\ paid' = paid
    BY <1>5 DEF RegisterMandate, NewMandate, IdIsTaken
  <2>2. Authority!Grant(m)
    BY <2>1 DEF Authority!Grant, Terms
  <2> QED
    BY <2>2 DEF Authority!Next
<1>6. ASSUME NEW m \in MandateIds, RevokeMandate(m)
      PROVE  [Authority!Next]_(Authority!vars)
  <2>1. m \in DOMAIN mandates /\ mandates[m] \in Mandate
    BY <1>6, RowTypes DEF RevokeMandate, SimpleInv
  <2>2. /\ DOMAIN mandates' = DOMAIN mandates
        /\ \A k \in DOMAIN mandates \ {m} : mandates'[k] = mandates[k]
        /\ mandates'[m].terms = mandates[m].terms
        /\ mandates'[m].status = "Revoked"
        /\ now' = now /\ paid' = paid
    BY <1>6, <2>1 DEF RevokeMandate, Mandate
  <2>3. Authority!Revoke(m)
    BY <2>1, <2>2 DEF Authority!Revoke, Terms
  <2> QED
    BY <2>3 DEF Authority!Next
<1>7. ASSUME NEW c \in Agents, NEW m \in MandateIds, NEW amount \in Amounts,
             NEW n \in 0 .. MaxSeq, ExecutePayment(c, m, amount, n)
      PROVE  [Authority!Next]_(Authority!vars)
  BY <1>7, PaymentRefines DEF Authority!Next
<1>8. CASE UNCHANGED simpleVars
  BY <1>2, <1>8 DEF simpleVars, ledgerVars
<1> QED
  BY <1>1, <1>3, <1>4, <1>5, <1>6, <1>7, <1>8 DEF SimpleNext, Housekeeping, Payments

\* The simple registry keeps the promise made to the users that sign
\* mandates, whoever their agents are and whatever they send.
THEOREM SimpleImplementsAuthority == SimpleSpec => RefinesAuthority
<1>1. SimpleInv /\ [SimpleNext]_<<now, adminVars, ledgerVars>>
        => [Authority!Next]_(Authority!vars)
  BY SimpleStepRefines DEF simpleVars
<1> QED
  BY <1>1, SimpleInitRefines, SimpleInvariance, PTL
  DEF SimpleSpec, RefinesAuthority, Authority!Spec

-----------------------------------------------------------------------------
\* The two contracts together.

\* Every step of the two is a step of the registry, or leaves it alone.
LEMMA PolicyStepIsSimple ==
  ASSUME [PolicyNext]_allVars
  PROVE  [SimpleNext]_simpleVars
<1>1. CASE (Housekeeping \/ Payments(Agents \ {Extension})) /\ UNCHANGED policyVars
  BY <1>1 DEF SimpleNext, Payments
<1>2. ASSUME NEW m \in MandateIds, NEW c \in PolicyChoices, InstallPolicy(m, c)
      PROVE  UNCHANGED simpleVars
  BY <1>2 DEF InstallPolicy, simpleVars
<1>3. ASSUME NEW m \in MandateIds, NEW r \in Requests, Execute(m, r)
      PROVE  SimpleNext
  <2>1. ExecutePayment(Extension, m, r.amount, r.expected_seq)
    BY <1>3 DEF Execute, Pay
  <2>2. r.amount \in Amounts /\ r.expected_seq \in 0 .. MaxSeq /\ Extension \in Agents
    BY PolicyAssumption DEF Requests
  <2> QED
    BY <2>1, <2>2 DEF SimpleNext, Payments
<1>4. CASE UNCHANGED allVars
  BY <1>4 DEF allVars, simpleVars
<1> QED
  BY <1>1, <1>2, <1>3, <1>4 DEF PolicyNext

\* The registry does not notice that an agent is a contract: with the
\* extension as an agent it behaves as it does alone.
THEOREM PolicyIsAnAgent == PolicySpec => SimpleSpec
<1>1. PolicyInit => SimpleInit
  BY DEF PolicyInit
<1>2. [PolicyNext]_allVars => [SimpleNext]_<<now, adminVars, ledgerVars>>
  BY PolicyStepIsSimple DEF simpleVars
<1> QED
  BY <1>1, <1>2, PTL DEF PolicySpec, SimpleSpec

\* Nothing happened under a mandate of the extension without a policy.
UngovernedIsUnused ==
  \A m \in MandateIds \ DOMAIN policies :
    /\ consumed[m] = {}
    /\ m \in DOMAIN mandates /\ Terms(m).agent = Extension => paid[m] = 0

\* What a policy paid in total is within its cap times the nonces it burnt.
WithinCaps ==
  \A m \in DOMAIN policies :
    paid[m] <= policies[m].choice.max_per_payment * Cardinality(consumed[m])

NoncesAreFinite == \A m \in MandateIds : IsFiniteSet(consumed[m])

PolicyInv ==
  /\ SimpleInv
  /\ PolicyTypeOK
  /\ NoncePaysOnce
  /\ SeqCountsNonces
  /\ BindingAgrees
  /\ UngovernedIsUnused
  /\ WithinCaps
  /\ NoncesAreFinite

LEMMA PolicyInitEstablishes == PolicyInit => PolicyInv
<1> SUFFICES ASSUME PolicyInit
             PROVE  PolicyInv
  OBVIOUS
<1>1. /\ SimpleInit /\ SimpleInv
      /\ DOMAIN policies = {} /\ DOMAIN mandates = {}
      /\ policies \in [DOMAIN policies -> Binding]
      /\ consumed = [m \in MandateIds |-> {}]
      /\ served = [m \in MandateIds |-> [n \in Nonces |-> 0]]
  BY SimpleInitEstablishes DEF PolicyInit, SimpleInit
<1>2. PolicyTypeOK
  BY <1>1 DEF PolicyTypeOK, SimpleInv
<1>3. NoncePaysOnce
  BY <1>1 DEF NoncePaysOnce
<1>4. SeqCountsNonces /\ BindingAgrees /\ WithinCaps /\ UngovernedIsUnused
  BY <1>1 DEF SeqCountsNonces, BindingAgrees, WithinCaps, UngovernedIsUnused
<1>5. NoncesAreFinite
  BY <1>1, FS_EmptySet DEF NoncesAreFinite
<1> QED
  BY <1>1, <1>2, <1>3, <1>4, <1>5 DEF PolicyInv

\* A step of the registry that pays nothing under the extension's mandates.
LEMMA OtherStepKeeps ==
  ASSUME PolicyInv, SimpleInv', UNCHANGED policyVars,
         \A k \in DOMAIN mandates :
           /\ k \in DOMAIN mandates'
           /\ mandates'[k].terms = mandates[k].terms
           /\ Terms(k).agent = Extension =>
                mandates'[k].seq = mandates[k].seq /\ paid'[k] = paid[k],
         \A k \in DOMAIN mandates' \ DOMAIN mandates :
           mandates'[k].seq = 0 /\ paid'[k] = 0
  PROVE  PolicyInv'
<1>1. policies' = policies /\ consumed' = consumed /\ served' = served
  BY DEF policyVars
<1>2. \A m \in DOMAIN policies :
        /\ m \in DOMAIN mandates
        /\ policies[m].terms = Terms(m)
        /\ Terms(m).agent = Extension
  BY DEF PolicyInv, BindingAgrees
<1>3. BindingAgrees'
  BY <1>1, <1>2 DEF BindingAgrees, Terms
<1>4. WithinCaps'
  BY <1>1, <1>2 DEF PolicyInv, WithinCaps
<1>5. SeqCountsNonces'
  <2> SUFFICES ASSUME NEW m \in DOMAIN mandates', mandates'[m].terms.agent = Extension
               PROVE  mandates'[m].seq = Cardinality(consumed[m])
    BY <1>1 DEF SeqCountsNonces, Terms
  <2>1. CASE m \in DOMAIN mandates
    BY <2>1 DEF PolicyInv, SeqCountsNonces, Terms
  <2>2. CASE m \notin DOMAIN mandates
    <3>1. m \in MandateIds \ DOMAIN policies
      BY <1>2, <2>2 DEF SimpleInv, SimpleTypeOK
    <3>2. consumed[m] = {}
      BY <3>1 DEF PolicyInv, UngovernedIsUnused
    <3> QED
      BY <2>2, <3>2, FS_EmptySet
  <2> QED
    BY <2>1, <2>2
<1>6. UngovernedIsUnused'
  BY <1>1 DEF PolicyInv, UngovernedIsUnused, Terms
<1>7. PolicyTypeOK' /\ NoncePaysOnce' /\ NoncesAreFinite'
  BY <1>1 DEF PolicyInv, PolicyTypeOK, NoncePaysOnce, NoncesAreFinite, SimpleInv
<1> QED
  BY <1>3, <1>4, <1>5, <1>6, <1>7 DEF PolicyInv

LEMMA InstallKeeps ==
  ASSUME PolicyInv, SimpleInv', NEW m \in MandateIds, NEW c \in PolicyChoices,
         InstallPolicy(m, c)
  PROVE  PolicyInv'
<1>1. /\ m \notin DOMAIN policies /\ m \in DOMAIN mandates
      /\ Terms(m).agent = Extension
      /\ policies' = [k \in DOMAIN policies \cup {m} |->
                        IF k = m THEN [terms |-> Terms(m), choice |-> c]
                                 ELSE policies[k]]
      /\ UNCHANGED <<now, adminVars, ledgerVars, consumed, served>>
  BY DEF InstallPolicy
<1>2. mandates' = mandates /\ paid' = paid
  BY <1>1 DEF ledgerVars
<1>3. [terms |-> Terms(m), choice |-> c] \in Binding /\ c.max_per_payment \in Int
  BY <1>1, PolicyAssumption, RowTypes DEF PolicyInv, SimpleInv, Binding, Choice
<1>4. PolicyTypeOK'
  BY <1>1, <1>3 DEF PolicyInv, PolicyTypeOK, SimpleInv
<1>5. BindingAgrees'
  BY <1>1, <1>2 DEF PolicyInv, BindingAgrees, Terms
<1>6. WithinCaps'
  <2>1. consumed[m] = {} /\ paid[m] = 0
    BY <1>1 DEF PolicyInv, UngovernedIsUnused
  <2>2. paid[m] <= c.max_per_payment * Cardinality(consumed[m])
    BY <1>3, <2>1, FS_EmptySet
  <2> QED
    BY <1>1, <1>2, <2>2 DEF PolicyInv, WithinCaps
<1>7. UngovernedIsUnused'
  BY <1>1, <1>2 DEF PolicyInv, UngovernedIsUnused, Terms
<1>8. NoncePaysOnce' /\ SeqCountsNonces' /\ NoncesAreFinite'
  BY <1>1, <1>2 DEF PolicyInv, NoncePaysOnce, SeqCountsNonces, NoncesAreFinite, Terms
<1> QED
  BY <1>4, <1>5, <1>6, <1>7, <1>8 DEF PolicyInv

\* What an accepted request does.
LEMMA ExecuteEffects ==
  ASSUME PolicyInv, NEW m \in MandateIds, NEW r \in Requests, Execute(m, r)
  PROVE  /\ PaidOut(m, r.amount)
         /\ r.nonce \in Nonces /\ r.nonce \notin consumed[m]
         /\ m \in DOMAIN policies
         /\ now >= policies[m].choice.not_before
         /\ r.amount <= policies[m].choice.max_per_payment
         /\ policies' = policies
         /\ consumed' = [consumed EXCEPT ![m] = @ \cup {r.nonce}]
         /\ served' = [served EXCEPT ![m][r.nonce] = @ + 1]
         /\ consumed'[m] = consumed[m] \cup {r.nonce}
         /\ Cardinality(consumed'[m]) = Cardinality(consumed[m]) + 1
         /\ Cardinality(consumed[m]) \in Nat
<1>1. ExecutePayment(Extension, m, r.amount, r.expected_seq)
  BY DEF Execute, Pay
<1>2. r.amount \in Amounts /\ r.expected_seq \in 0 .. MaxSeq /\ r.nonce \in Nonces
  BY DEF Requests
<1>3. PaidOut(m, r.amount)
  BY <1>1, <1>2, PaymentEffects DEF PolicyInv
<1>4. paid'[m] # paid[m]
  <2>1. paid[m] \in Nat
    BY DEF PolicyInv, SimpleInv, SimpleTypeOK
  <2> QED
    BY <1>3, <2>1 DEF PaidOut
<1>5. /\ m \in DOMAIN policies /\ r.nonce \notin consumed[m]
      /\ now >= policies[m].choice.not_before
      /\ r.amount <= policies[m].choice.max_per_payment
      /\ policies' = policies
      /\ consumed' = [consumed EXCEPT ![m] = @ \cup {r.nonce}]
  BY DEF Execute, PolicyAllows, IsConsumed
<1>6. served' = [served EXCEPT ![m][r.nonce] = @ + 1]
  BY <1>4 DEF Execute
<1>7. consumed'[m] = consumed[m] \cup {r.nonce} /\ IsFiniteSet(consumed[m])
  BY <1>5 DEF PolicyInv, PolicyTypeOK, NoncesAreFinite
<1>8. /\ Cardinality(consumed'[m]) = Cardinality(consumed[m]) + 1
      /\ Cardinality(consumed[m]) \in Nat
  BY <1>5, <1>7, FS_AddElement, FS_CardinalityType
<1> QED
  BY <1>2, <1>3, <1>5, <1>6, <1>7, <1>8

LEMMA ExecuteKeeps ==
  ASSUME PolicyInv, SimpleInv', NEW m \in MandateIds, NEW r \in Requests,
         Execute(m, r)
  PROVE  PolicyInv'
<1>1. /\ PaidOut(m, r.amount)
      /\ r.nonce \in Nonces /\ r.nonce \notin consumed[m]
      /\ m \in DOMAIN policies
      /\ r.amount <= policies[m].choice.max_per_payment
      /\ policies' = policies
      /\ consumed' = [consumed EXCEPT ![m] = @ \cup {r.nonce}]
      /\ served' = [served EXCEPT ![m][r.nonce] = @ + 1]
      /\ consumed'[m] = consumed[m] \cup {r.nonce}
      /\ Cardinality(consumed'[m]) = Cardinality(consumed[m]) + 1
      /\ Cardinality(consumed[m]) \in Nat
  BY ExecuteEffects
<1>2. /\ m \in DOMAIN mandates
      /\ DOMAIN mandates' = DOMAIN mandates
      /\ \A k \in DOMAIN mandates \ {m} : mandates'[k] = mandates[k]
      /\ mandates'[m].terms = mandates[m].terms
      /\ mandates'[m].seq = mandates[m].seq + 1
      /\ paid'[m] = paid[m] + r.amount
      /\ \A k \in MandateIds \ {m} : paid'[k] = paid[k]
      /\ r.amount \in Nat
  BY <1>1 DEF PaidOut
<1>3. \A k \in MandateIds \ {m} : consumed'[k] = consumed[k] /\ served'[k] = served[k]
  BY <1>1 DEF PolicyInv, PolicyTypeOK
<1>4. PolicyTypeOK'
  <2>1. consumed \in [MandateIds -> SUBSET Nonces] /\ served \in [MandateIds -> [Nonces -> Nat]]
    BY DEF PolicyInv, PolicyTypeOK
  <2>2. consumed' \in [MandateIds -> SUBSET Nonces]
    BY <1>1, <2>1
  <2>3. served' \in [MandateIds -> [Nonces -> Nat]]
    BY <1>1, <2>1
  <2> QED
    BY <1>1, <2>2, <2>3 DEF PolicyInv, PolicyTypeOK, SimpleInv
<1>5. NoncePaysOnce'
  <2> SUFFICES ASSUME NEW k \in MandateIds, NEW n \in Nonces
               PROVE  served'[k][n] = IF n \in consumed'[k] THEN 1 ELSE 0
    BY DEF NoncePaysOnce
  <2>1. served[k][n] = IF n \in consumed[k] THEN 1 ELSE 0
    BY DEF PolicyInv, NoncePaysOnce
  <2>2. CASE k # m
    BY <1>3, <2>1, <2>2
  <2>3. CASE k = m /\ n # r.nonce
    BY <1>1, <2>1, <2>3 DEF PolicyInv, PolicyTypeOK
  <2>4. CASE k = m /\ n = r.nonce
    <3>1. served'[m][r.nonce] = served[m][r.nonce] + 1
      BY <1>1 DEF PolicyInv, PolicyTypeOK
    <3> QED
      BY <1>1, <2>1, <2>4, <3>1
  <2> QED
    BY <2>2, <2>3, <2>4
<1>6. SeqCountsNonces'
  <2> SUFFICES ASSUME NEW k \in DOMAIN mandates, Terms(k).agent = Extension
               PROVE  mandates'[k].seq = Cardinality(consumed'[k])
    BY <1>2 DEF SeqCountsNonces, Terms
  <2>1. k \in MandateIds /\ mandates[k].seq = Cardinality(consumed[k])
    BY DEF PolicyInv, SeqCountsNonces, SimpleInv, SimpleTypeOK
  <2>2. CASE k = m
    BY <1>1, <1>2, <2>1, <2>2
  <2>3. CASE k # m
    BY <1>2, <1>3, <2>1, <2>3
  <2> QED
    BY <2>2, <2>3
<1>7. BindingAgrees'
  BY <1>1, <1>2 DEF PolicyInv, BindingAgrees, Terms
<1>8. UngovernedIsUnused'
  BY <1>1, <1>2, <1>3 DEF PolicyInv, UngovernedIsUnused, Terms
<1>9. WithinCaps'
  <2> DEFINE cap == policies[m].choice.max_per_payment
             burnt == Cardinality(consumed[m])
  <2>1. cap \in Int
    BY <1>1 DEF PolicyInv, PolicyTypeOK, Binding, Choice
  <2>2. paid[m] <= cap * burnt /\ paid[m] \in Nat
    BY <1>1 DEF PolicyInv, WithinCaps, SimpleInv, SimpleTypeOK
  <2>3. paid'[m] <= cap * Cardinality(consumed'[m])
    <3>1. burnt \in Nat /\ Cardinality(consumed'[m]) = burnt + 1
      BY <1>1
    <3>2. r.amount <= cap /\ r.amount \in Nat /\ paid'[m] = paid[m] + r.amount
      BY <1>1, <1>2
    <3> HIDE DEF cap, burnt
    <3>3. cap * (burnt + 1) = cap * burnt + cap /\ cap * burnt \in Int
      BY <2>1, <3>1
    <3> QED
      BY <2>1, <2>2, <3>1, <3>2, <3>3
  <2>4. \A k \in DOMAIN policies \ {m} :
          paid'[k] <= policies[k].choice.max_per_payment * Cardinality(consumed'[k])
    <3>1. DOMAIN policies \subseteq MandateIds
      BY DEF PolicyInv, PolicyTypeOK
    <3> QED
      BY <1>2, <1>3, <3>1 DEF PolicyInv, WithinCaps
  <2> QED
    BY <1>1, <2>3, <2>4 DEF WithinCaps
<1>10. NoncesAreFinite'
  <2>1. IsFiniteSet(consumed'[m])
    BY <1>1, FS_AddElement DEF PolicyInv, NoncesAreFinite
  <2> QED
    BY <1>3, <2>1 DEF PolicyInv, NoncesAreFinite
<1> QED
  BY <1>4, <1>5, <1>6, <1>7, <1>8, <1>9, <1>10 DEF PolicyInv

\* Another agent pays under its own mandates only.
LEMMA OtherPaymentKeeps ==
  ASSUME PolicyInv, SimpleInv', UNCHANGED policyVars,
         NEW c \in Agents \ {Extension}, NEW m \in MandateIds,
         NEW amount \in Amounts, NEW n \in 0 .. MaxSeq,
         ExecutePayment(c, m, amount, n)
  PROVE  PolicyInv'
<1>1. PaidOut(m, amount)
  BY PaymentEffects DEF PolicyInv
<1>2. Terms(m).agent # Extension
  BY DEF ExecutePayment
<1>3. \A k \in DOMAIN mandates :
        /\ k \in DOMAIN mandates'
        /\ mandates'[k].terms = mandates[k].terms
        /\ Terms(k).agent = Extension =>
             mandates'[k].seq = mandates[k].seq /\ paid'[k] = paid[k]
  BY <1>1, <1>2 DEF PaidOut, PolicyInv, SimpleInv, SimpleTypeOK
<1>4. DOMAIN mandates' = DOMAIN mandates
  BY <1>1 DEF PaidOut
<1> QED
  BY <1>3, <1>4, OtherStepKeeps

LEMMA HousekeepingKeeps ==
  ASSUME PolicyInv, SimpleInv', UNCHANGED policyVars, Housekeeping
  PROVE  PolicyInv'
<1>1. CASE UNCHANGED <<mandates, paid>>
  BY <1>1, OtherStepKeeps
<1>2. CASE (Tick \/ AdminNext) /\ UNCHANGED ledgerVars
  BY <1>1, <1>2 DEF ledgerVars
<1>3. ASSUME NEW a \in Assets, NEW u \in Users, NEW n \in Funds, SetFunds(a, u, n)
      PROVE  PolicyInv'
  BY <1>1, <1>3 DEF SetFunds
<1>4. ASSUME NEW m \in MandateIds, NEW t \in TermsFor[m], RegisterMandate(m, t)
      PROVE  PolicyInv'
  <2>1. /\ m \notin DOMAIN mandates /\ paid' = paid
        /\ DOMAIN mandates' = DOMAIN mandates \cup {m}
        /\ mandates'[m].seq = 0
        /\ \A k \in DOMAIN mandates : mandates'[k] = mandates[k]
    BY <1>4 DEF RegisterMandate, IdIsTaken, NewMandate
  <2>2. paid[m] = 0
    BY <2>1 DEF PolicyInv, SimpleInv, NothingBeforeGrant
  <2>3. \A k \in DOMAIN mandates' \ DOMAIN mandates :
          mandates'[k].seq = 0 /\ paid'[k] = 0
    BY <2>1, <2>2
  <2> QED
    BY <2>1, <2>3, OtherStepKeeps
<1>5. ASSUME NEW m \in MandateIds, RevokeMandate(m)
      PROVE  PolicyInv'
  <2>1. m \in DOMAIN mandates /\ mandates[m] \in Mandate
    BY <1>5, RowTypes DEF RevokeMandate, PolicyInv, SimpleInv
  <2>2. /\ DOMAIN mandates' = DOMAIN mandates /\ paid' = paid
        /\ \A k \in DOMAIN mandates :
             /\ mandates'[k].terms = mandates[k].terms
             /\ mandates'[k].seq = mandates[k].seq
    BY <1>5, <2>1 DEF RevokeMandate, Mandate
  <2> QED
    BY <2>2, OtherStepKeeps
<1> QED
  BY <1>2, <1>3, <1>4, <1>5 DEF Housekeeping

LEMMA PolicyStepKeeps ==
  ASSUME PolicyInv, [PolicyNext]_allVars
  PROVE  PolicyInv'
<1>1. SimpleInv'
  BY PolicyStepIsSimple, SimpleStepKeeps DEF PolicyInv
<1>2. CASE Housekeeping /\ UNCHANGED policyVars
  BY <1>1, <1>2, HousekeepingKeeps
<1>3. CASE Payments(Agents \ {Extension}) /\ UNCHANGED policyVars
  BY <1>1, <1>3, OtherPaymentKeeps DEF Payments
<1>4. ASSUME NEW m \in MandateIds, NEW c \in PolicyChoices, InstallPolicy(m, c)
      PROVE  PolicyInv'
  BY <1>1, <1>4, InstallKeeps
<1>5. ASSUME NEW m \in MandateIds, NEW r \in Requests, Execute(m, r)
      PROVE  PolicyInv'
  BY <1>1, <1>5, ExecuteKeeps
<1>6. CASE UNCHANGED allVars
  <2>1. UNCHANGED <<mandates, paid>> /\ UNCHANGED policyVars
    BY <1>6 DEF allVars, ledgerVars
  <2> QED
    BY <1>1, <2>1, OtherStepKeeps
<1> QED
  BY <1>2, <1>3, <1>4, <1>5, <1>6 DEF PolicyNext

\* The strengthened invariant of the extension and its registry
\* (install_policy, execute and every entry point of the registry).
THEOREM PolicyInvariance == PolicySpec => []PolicyInv
<1> QED
  BY PolicyInitEstablishes, PolicyStepKeeps, PTL DEF PolicySpec

\* The rows of both contracts keep their types: no payment, in whatever
\* order requests arrive, overdraws a user (PolicyTypeOK).
THEOREM PolicyTypesHold == PolicySpec => []PolicyTypeOK
<1>1. PolicyInv => PolicyTypeOK
  BY DEF PolicyInv
<1> QED
  BY <1>1, PolicyInvariance, PTL

\* Whatever is sent, resent, refused or late, each nonce pays at most once
\* and is burnt by the payment only (execute).
THEOREM NonceOnce == PolicySpec => []NoncePaysOnce
<1>1. PolicyInv => NoncePaysOnce
  BY DEF PolicyInv
<1> QED
  BY <1>1, PolicyInvariance, PTL

\* The extension's nonces and the registry's counter agree.
THEOREM CountersAgree == PolicySpec => []SeqCountsNonces
<1>1. PolicyInv => SeqCountsNonces
  BY DEF PolicyInv
<1> QED
  BY <1>1, PolicyInvariance, PTL

\* The terms a policy was bound to are the terms its mandate has.
THEOREM BindingHolds == PolicySpec => []BindingAgrees
<1>1. PolicyInv => BindingAgrees
  BY DEF PolicyInv
<1> QED
  BY <1>1, PolicyInvariance, PTL

-----------------------------------------------------------------------------
\* What a step pays under a mandate of the extension, it pays for a request.
LEMMA StepIsGoverned ==
  ASSUME PolicyInv, PolicyInv', [PolicyNext]_allVars, NEW m \in DOMAIN mandates,
         Terms(m).agent = Extension, paid'[m] # paid[m]
  PROVE  /\ m \in DOMAIN policies
         /\ now >= policies[m].choice.not_before
         /\ paid'[m] - paid[m] <= policies[m].choice.max_per_payment
         /\ paid'[m] <= policies[m].choice.max_per_payment
                          * Cardinality(consumed'[m])
<1>1. m \in MandateIds /\ paid[m] \in Nat
  BY DEF PolicyInv, SimpleInv, SimpleTypeOK
<1>2. ~Housekeeping
  BY DEF Housekeeping, ledgerVars, SetFunds, RegisterMandate, RevokeMandate
<1>3. ASSUME NEW c \in Agents \ {Extension}, NEW k \in MandateIds,
             NEW amount \in Amounts, NEW n \in 0 .. MaxSeq,
             ExecutePayment(c, k, amount, n)
      PROVE  FALSE
  <2>1. PaidOut(k, amount)
    BY <1>3, PaymentEffects DEF PolicyInv
  <2>2. Terms(k).agent # Extension
    BY <1>3 DEF ExecutePayment
  <2> QED
    BY <1>1, <2>1, <2>2 DEF PaidOut
<1>4. \A k \in MandateIds, c \in PolicyChoices : ~InstallPolicy(k, c)
  BY DEF InstallPolicy, ledgerVars
<1>5. PICK k \in MandateIds, r \in Requests : Execute(k, r)
  BY <1>2, <1>3, <1>4 DEF PolicyNext, Payments, allVars, ledgerVars
<1>6. /\ PaidOut(k, r.amount)
      /\ k \in DOMAIN policies
      /\ now >= policies[k].choice.not_before
      /\ r.amount <= policies[k].choice.max_per_payment
      /\ policies' = policies
  BY <1>5, ExecuteEffects
<1>7. k = m /\ paid'[m] - paid[m] = r.amount
  BY <1>1, <1>6 DEF PaidOut
<1>8. paid'[m] <= policies[m].choice.max_per_payment * Cardinality(consumed'[m])
  BY <1>6, <1>7 DEF PolicyInv, WithinCaps
<1> QED
  BY <1>6, <1>7, <1>8

\* A mandate held by the extension is paid from only under its user's policy.
THEOREM PolicyGovernsAll == PolicySpec => PolicyGoverns
<1>1. PolicyInv /\ PolicyInv' /\ [PolicyNext]_allVars =>
        [\A m \in DOMAIN mandates :
           Terms(m).agent = Extension /\ paid'[m] # paid[m] =>
             /\ m \in DOMAIN policies
             /\ now >= policies[m].choice.not_before
             /\ paid'[m] - paid[m] <= policies[m].choice.max_per_payment
             /\ paid'[m] <= policies[m].choice.max_per_payment
                              * Cardinality(consumed'[m])]_allVars
  BY StepIsGoverned
<1> QED
  BY <1>1, PolicyInvariance, PTL DEF PolicySpec, PolicyGoverns

\* The promise to users holds of the two contracts together.
THEOREM PolicyImplementsAuthority == PolicySpec => RefinesAuthority
BY PolicyIsAnAgent, SimpleImplementsAuthority
=============================================================================
