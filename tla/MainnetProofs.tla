--------------------------- MODULE MainnetProofs ---------------------------
(***************************************************************************)
(* Proofs about the mainnet deployment: the registry alone, the timelock   *)
(* alone, and the registry under the timelock.  For every set of users,    *)
(* assets, mandates, accounts, roles, operations and targets, every terms, *)
(* amounts and delays, and every width of the payment counter.             *)
(***************************************************************************)
EXTENDS MainnetGovernance, FiniteSetTheorems, TLAPS

-----------------------------------------------------------------------------
(* The registry alone. *)

\* Nothing was moved under an id nobody has registered.
NothingBeforeGrant ==
  \A m \in MandateIds \ DOMAIN mandates : paid[m] = 0 /\ usedSeqs[m] = {}

\* A mandate's life was short enough when it began, so it is now.
LifeIsBounded ==
  \A m \in DOMAIN mandates :
    Terms(m).expiry <= now + MAX_MANDATE_LIFETIME_SECONDS

MainnetInv ==
  /\ MainnetTypeOK
  /\ BooksMatchTransfers
  /\ NothingBeforeGrant
  /\ LifeIsBounded
  /\ UnlistedAssetsDieOut

\* The conjunct of BooksMatchTransfers for one mandate.
Books(m) ==
  /\ mandates[m].spent = paid[m]
  /\ paid[m] <= Terms(m).max_amount
  /\ usedSeqs[m] = 0 .. mandates[m].seq - 1
  /\ mandates[m].seq <= paid[m]
  /\ mandates[m].status = "Exhausted" => paid[m] = Terms(m).max_amount
  /\ mandates[m].status = "Active" => paid[m] < Terms(m).max_amount

\* The parts of a stored row.
LEMMA RowTypes ==
  ASSUME MainnetTypeOK, NEW m \in DOMAIN mandates
  PROVE  /\ m \in MandateIds
         /\ mandates[m] \in Mandate
         /\ Terms(m) \in MandateParams
         /\ Terms(m).asset \in Assets /\ Terms(m).user \in Users
         /\ Terms(m).max_amount \in Int /\ Terms(m).expiry \in Nat
         /\ mandates[m].spent \in Nat
         /\ mandates[m].seq \in Nat /\ mandates[m].seq <= MaxU32
         /\ paid[m] \in Nat /\ usedSeqs[m] \in SUBSET Nat
<1>1. m \in MandateIds /\ mandates[m] \in Mandate
  BY DEF MainnetTypeOK
<1>2. Terms(m) \in MandateParams
  BY <1>1 DEF Mandate, Terms
<1>3. mandates[m].seq \in 0 .. MaxU32
  BY <1>1 DEF Mandate
<1>4. mandates[m].seq \in Nat /\ mandates[m].seq <= MaxU32
  BY <1>3, MainnetAssumption
<1> QED
  BY <1>1, <1>2, <1>4 DEF MainnetTypeOK, Mandate, MandateParams

-----------------------------------------------------------------------------
\* The role library keeps the shape of its record.

LEMMA AccessCallType ==
  ASSUME NEW a \in Access, NEW b, NEW caller \in Accounts,
         NEW c \in AccessCalls, AccessCall(a, b, caller, c)
  PROVE  b \in Access
<1>1. /\ a.admin \in Accounts \cup {Nobody}
      /\ a.offered \in Accounts \cup {Nobody}
      /\ a.holders \in [Roles -> SUBSET Accounts]
      /\ a.manager \in [Roles -> Roles \cup {NoRole}]
      /\ a = [admin |-> a.admin, offered |-> a.offered,
              holders |-> a.holders, manager |-> a.manager]
  BY DEF Access
<1>2. CASE c.fn = "grant_role" /\ b = [a EXCEPT !.holders[c.role] = @ \cup {c.account}]
  <2>1. c.role \in Roles /\ c.account \in Accounts
    BY <1>2 DEF AccessCalls
  <2> QED
    BY <1>1, <1>2, <2>1 DEF Access
<1>3. CASE c.fn = "revoke_role" /\ b = [a EXCEPT !.holders[c.role] = @ \ {c.account}]
  <2>1. c.role \in Roles
    BY <1>3 DEF AccessCalls
  <2> QED
    BY <1>1, <1>3, <2>1 DEF Access
<1>4. CASE c.fn = "renounce_role" /\ b = [a EXCEPT !.holders[c.role] = @ \ {caller}]
  <2>1. c.role \in Roles
    BY <1>4 DEF AccessCalls
  <2> QED
    BY <1>1, <1>4, <2>1 DEF Access
<1>5. CASE c.fn = "set_role_admin" /\ b = [a EXCEPT !.manager[c.role] = c.manager]
  <2>1. c.role \in Roles /\ c.manager \in Roles
    BY <1>5 DEF AccessCalls
  <2> QED
    BY <1>1, <1>5, <2>1 DEF Access
<1>6. CASE c.fn = "transfer_admin_role" /\ b = [a EXCEPT !.offered = c.account]
  <2>1. c.account \in Accounts
    BY <1>6 DEF AccessCalls
  <2> QED
    BY <1>1, <1>6, <2>1 DEF Access
<1>7. CASE b = [a EXCEPT !.admin = caller, !.offered = Nobody]
  BY <1>1, <1>7 DEF Access
<1>8. CASE b = [a EXCEPT !.admin = Nobody]
  BY <1>1, <1>8 DEF Access
<1> QED
  BY <1>2, <1>3, <1>4, <1>5, <1>6, <1>7, <1>8 DEF AccessCall

LEMMA OfferLapsesType ==
  ASSUME NEW a \in Access, NEW b, OfferLapses(a, b)
  PROVE  b \in Access
BY DEF OfferLapses, Access

\* An access call's name tells it from the registry's own calls.
LEMMA OwnCallTypes ==
  ASSUME NEW c \in PolicyCalls \cup AccessCalls
  PROVE  /\ c.fn = "set_asset_allowed" => c.asset \in Assets
         /\ c.fn = "upgrade" => c.wasm_hash \in WasmHashes
BY DEF PolicyCalls, AccessCalls

LEMMA ManagesByAccessCall ==
  ASSUME NEW c \in PolicyCalls \cup AccessCalls, NEW a, NEW b, NEW caller,
         AccessCall(a, b, caller, c)
  PROVE  c \in AccessCalls
BY DEF PolicyCalls, AccessCall

-----------------------------------------------------------------------------
\* The inductive invariant.

\* Steps that leave the mandates and their history alone.
LEMMA UntouchedLedger ==
  ASSUME MainnetInv, UNCHANGED <<mandates, paid, usedSeqs>>, now' >= now,
         now' \in Nat
  PROVE  BooksMatchTransfers' /\ NothingBeforeGrant' /\ LifeIsBounded'
<1>1. BooksMatchTransfers' /\ NothingBeforeGrant'
  BY DEF MainnetInv, BooksMatchTransfers, NothingBeforeGrant, Terms
<1>2. LifeIsBounded'
  <2> SUFFICES ASSUME NEW m \in DOMAIN mandates
               PROVE  Terms(m).expiry <= now' + MAX_MANDATE_LIFETIME_SECONDS
    BY DEF LifeIsBounded, Terms
  <2>1. /\ Terms(m).expiry <= now + MAX_MANDATE_LIFETIME_SECONDS
        /\ now \in Nat /\ Terms(m).expiry \in Nat
        /\ MAX_MANDATE_LIFETIME_SECONDS \in Nat
    BY RowTypes, MainnetAssumption DEF MainnetInv, LifeIsBounded, MainnetTypeOK
  <2> QED
    BY <2>1
<1> QED
  BY <1>1, <1>2

LEMMA MainnetInitInv == MainnetInit => MainnetInv
<1> SUFFICES ASSUME MainnetInit
             PROVE  MainnetInv
  OBVIOUS
<1>1. /\ Governance["admin"] \in Accounts /\ Governance["pauser"] \in Accounts
      /\ Governance["unpauser"] \in Accounts
      /\ Governance["asset_policy"] \in Accounts
      /\ Governance["upgrader"] \in Accounts
  BY MainnetAssumption DEF GovernanceConfig
<1>2. regRoles \in Access
  <2>1. FirstHolders \in [Roles -> SUBSET Accounts]
    BY <1>1 DEF FirstHolders
  <2>2. [r \in Roles |-> NoRole] \in [Roles -> Roles \cup {NoRole}]
    OBVIOUS
  <2> QED
    BY <1>1, <2>1, <2>2 DEF MainnetInit, NewAccess, Access
<1>3. now \in 0 .. MaxTime /\ unlistedAt \in [Assets -> 0 .. MaxTime]
  BY MainnetAssumption DEF MainnetInit
<1>4. mandates \in [DOMAIN mandates -> Mandate] /\ DOMAIN mandates = {}
  BY DEF MainnetInit
<1>5. funds \in [Assets -> [Users -> Nat]]
  BY MainnetAssumption DEF MainnetInit
<1>6. MainnetTypeOK
  BY <1>2, <1>3, <1>4, <1>5, MainnetAssumption DEF MainnetInit, MainnetTypeOK
<1> QED
  BY <1>4, <1>6 DEF MainnetInit, MainnetInv, BooksMatchTransfers,
                    NothingBeforeGrant, LifeIsBounded, UnlistedAssetsDieOut

LEMMA TickKeeps ==
  ASSUME MainnetInv, Tick
  PROVE  MainnetInv'
<1>1. /\ now \in Nat /\ now' = now + 1 /\ now' \in 0 .. MaxTime
      /\ UNCHANGED <<policyVars, ledgerVars>>
  BY MainnetAssumption DEF Tick, MainnetInv, MainnetTypeOK
<1>2. MainnetTypeOK'
  BY <1>1 DEF MainnetInv, MainnetTypeOK, policyVars, ledgerVars
<1>3. UnlistedAssetsDieOut'
  BY <1>1 DEF MainnetInv, UnlistedAssetsDieOut, Terms, policyVars, ledgerVars
<1> QED
  BY <1>1, <1>2, <1>3, UntouchedLedger DEF MainnetInv, ledgerVars

LEMMA SetFundsKeeps ==
  ASSUME MainnetInv, NEW a \in Assets, NEW u \in Users, NEW n \in Funds,
         SetFunds(a, u, n)
  PROVE  MainnetInv'
<1>1. n \in Nat /\ now \in Nat
  BY MainnetAssumption DEF MainnetInv, MainnetTypeOK
<1>2. MainnetTypeOK'
  BY <1>1 DEF SetFunds, MainnetInv, MainnetTypeOK, policyVars
<1>3. UnlistedAssetsDieOut'
  BY DEF SetFunds, MainnetInv, UnlistedAssetsDieOut, Terms, policyVars
<1> QED
  BY <1>1, <1>2, <1>3, UntouchedLedger DEF SetFunds, MainnetInv

\* The stop, the list, the code and the roles.
LEMMA RegistryCallKeeps ==
  ASSUME MainnetInv, NEW operator \in Accounts,
         NEW c \in PolicyCalls \cup AccessCalls, RegistryCall(operator, c)
  PROVE  MainnetInv'
<1>1. now \in Nat /\ now \in 0 .. MaxTime
  BY MainnetAssumption DEF MainnetInv, MainnetTypeOK
<1>2. CASE (c.fn = "pause" /\ Pause(operator)) \/ (c.fn = "unpause" /\ Unpause(operator))
  <2>1. /\ paused' \in BOOLEAN
        /\ UNCHANGED <<now, allowed, wasm, regRoles, unlistedAt, ledgerVars>>
    BY <1>2 DEF Pause, Unpause
  <2>2. MainnetTypeOK' /\ UnlistedAssetsDieOut'
    BY <2>1 DEF MainnetInv, MainnetTypeOK, UnlistedAssetsDieOut, Terms, ledgerVars
  <2> QED
    BY <1>1, <2>1, <2>2, UntouchedLedger DEF MainnetInv, ledgerVars
<1>3. CASE c.fn = "set_asset_allowed" /\ SetAssetAllowed(operator, c.asset, c.allow)
  <2>1. /\ UNCHANGED <<now, paused, wasm, regRoles, ledgerVars>>
        /\ c.asset \in Assets
    BY <1>3, OwnCallTypes DEF SetAssetAllowed
  <2>2. allowed' \subseteq Assets /\ unlistedAt' \in [Assets -> 0 .. MaxTime]
    BY <1>1, <1>3, <2>1 DEF SetAssetAllowed, MainnetInv, MainnetTypeOK
  <2>3. MainnetTypeOK'
    BY <2>1, <2>2 DEF MainnetInv, MainnetTypeOK, ledgerVars
  <2>4. UnlistedAssetsDieOut'
    <3> SUFFICES ASSUME NEW m \in DOMAIN mandates, Terms(m).asset \notin allowed'
                 PROVE  Terms(m).expiry
                          <= unlistedAt'[Terms(m).asset]
                               + MAX_MANDATE_LIFETIME_SECONDS
      BY <2>1 DEF UnlistedAssetsDieOut, Terms, ledgerVars
    <3>1. Terms(m).asset \in Assets
      BY RowTypes DEF MainnetInv
    <3>2. unlistedAt \in [Assets -> 0 .. MaxTime]
      BY DEF MainnetInv, MainnetTypeOK
    <3>3. CASE Terms(m).asset \in allowed
      <4>1. unlistedAt'[Terms(m).asset] = now
        BY <1>3, <3>1, <3>2, <3>3 DEF SetAssetAllowed
      <4> QED
        BY <4>1 DEF MainnetInv, LifeIsBounded
    <3>4. CASE Terms(m).asset \notin allowed
      <4>1. unlistedAt'[Terms(m).asset] = unlistedAt[Terms(m).asset]
        BY <1>3, <3>1, <3>2, <3>4 DEF SetAssetAllowed
      <4> QED
        BY <3>4, <4>1 DEF MainnetInv, UnlistedAssetsDieOut
    <3> QED
      BY <3>3, <3>4
  <2> QED
    BY <1>1, <2>1, <2>3, <2>4, UntouchedLedger DEF MainnetInv, ledgerVars
<1>4. CASE c.fn = "upgrade" /\ Upgrade(operator, c.wasm_hash)
  <2>1. /\ wasm' \in WasmHashes
        /\ UNCHANGED <<now, paused, allowed, regRoles, unlistedAt, ledgerVars>>
    BY <1>4, OwnCallTypes DEF Upgrade
  <2>2. MainnetTypeOK' /\ UnlistedAssetsDieOut'
    BY <2>1 DEF MainnetInv, MainnetTypeOK, UnlistedAssetsDieOut, Terms, ledgerVars
  <2> QED
    BY <1>1, <2>1, <2>2, UntouchedLedger DEF MainnetInv, ledgerVars
<1>5. CASE ManageRoles(operator, c)
  <2>1. /\ AccessCall(regRoles, regRoles', operator, c)
        /\ UNCHANGED <<now, paused, allowed, wasm, unlistedAt, ledgerVars>>
    BY <1>5 DEF ManageRoles
  <2>2. c \in AccessCalls
    BY <2>1, ManagesByAccessCall
  <2>3. regRoles' \in Access
    BY <2>1, <2>2, AccessCallType DEF MainnetInv, MainnetTypeOK
  <2>4. MainnetTypeOK' /\ UnlistedAssetsDieOut'
    BY <2>1, <2>3 DEF MainnetInv, MainnetTypeOK, UnlistedAssetsDieOut, Terms,
                      ledgerVars
  <2> QED
    BY <1>1, <2>1, <2>4, UntouchedLedger DEF MainnetInv, ledgerVars
<1> QED
  BY <1>2, <1>3, <1>4, <1>5 DEF RegistryCall

LEMMA RoleOfferLapsesKeeps ==
  ASSUME MainnetInv, RoleOfferLapses
  PROVE  MainnetInv'
<1>1. /\ OfferLapses(regRoles, regRoles')
      /\ UNCHANGED <<now, paused, allowed, wasm, unlistedAt, ledgerVars>>
  BY DEF RoleOfferLapses
<1>2. regRoles' \in Access /\ now \in Nat
  BY <1>1, OfferLapsesType, MainnetAssumption DEF MainnetInv, MainnetTypeOK
<1>3. MainnetTypeOK' /\ UnlistedAssetsDieOut'
  BY <1>1, <1>2 DEF MainnetInv, MainnetTypeOK, UnlistedAssetsDieOut, Terms,
                    ledgerVars
<1> QED
  BY <1>1, <1>2, <1>3, UntouchedLedger DEF MainnetInv, ledgerVars

LEMMA RegisterKeeps ==
  ASSUME MainnetInv, NEW m \in MandateIds, NEW t \in TermsFor[m],
         RegisterMandate(m, t)
  PROVE  MainnetInv'
<1>1. /\ t \in MandateParams /\ t.max_amount > 0 /\ t.max_amount \in Int
      /\ t.expiry \in Nat /\ t.expiry - now <= MAX_MANDATE_LIFETIME_SECONDS
      /\ t.asset \in allowed
      /\ m \notin DOMAIN mandates
      /\ mandates' = [k \in DOMAIN mandates \cup {m} |->
                        IF k = m THEN NewMandate(t) ELSE mandates[k]]
      /\ UNCHANGED <<now, policyVars, funds, paid, usedSeqs>>
  BY MainnetAssumption DEF RegisterMandate, Acceptable, MandateParams
<1>2. NewMandate(t) \in Mandate
  BY <1>1, MainnetAssumption DEF NewMandate, Mandate
<1>3. /\ DOMAIN mandates' = DOMAIN mandates \cup {m}
      /\ mandates'[m] = NewMandate(t) /\ mandates'[m].terms = t
      /\ \A k \in DOMAIN mandates : mandates'[k] = mandates[k]
  BY <1>1 DEF NewMandate
<1>4. MainnetTypeOK'
  BY <1>1, <1>2, <1>3 DEF MainnetInv, MainnetTypeOK, policyVars
<1>5. BooksMatchTransfers'
  <2>1. ASSUME NEW k \in DOMAIN mandates
        PROVE  Books(k)'
    BY <1>1, <1>3 DEF MainnetInv, BooksMatchTransfers, Books, Terms
  <2>2. Books(m)'
    <3>1. paid[m] = 0 /\ usedSeqs[m] = {}
      BY <1>1 DEF MainnetInv, NothingBeforeGrant
    <3>2. 0 .. 0 - 1 = {}
      OBVIOUS
    <3> QED
      BY <1>1, <1>3, <3>1, <3>2 DEF NewMandate, Books, Terms
  <2> QED
    BY <1>3, <2>1, <2>2 DEF BooksMatchTransfers, Books
<1>6. NothingBeforeGrant'
  BY <1>1, <1>3 DEF MainnetInv, NothingBeforeGrant
<1>7. LifeIsBounded'
  <2>1. now \in Nat /\ MAX_MANDATE_LIFETIME_SECONDS \in Nat
    BY MainnetAssumption DEF MainnetInv, MainnetTypeOK
  <2>2. t.expiry <= now + MAX_MANDATE_LIFETIME_SECONDS
    BY <1>1, <2>1
  <2> QED
    BY <1>1, <1>3, <2>2 DEF MainnetInv, LifeIsBounded, Terms
<1>8. UnlistedAssetsDieOut'
  BY <1>1, <1>3 DEF MainnetInv, UnlistedAssetsDieOut, Terms, policyVars
<1> QED
  BY <1>4, <1>5, <1>6, <1>7, <1>8 DEF MainnetInv

\* The terms of every mandate stay, and no time passes.
LEMMA SameTerms ==
  ASSUME MainnetInv, DOMAIN mandates' = DOMAIN mandates,
         \A k \in DOMAIN mandates : mandates'[k].terms = mandates[k].terms,
         UNCHANGED <<now, policyVars>>
  PROVE  LifeIsBounded' /\ UnlistedAssetsDieOut'
BY DEF MainnetInv, LifeIsBounded, UnlistedAssetsDieOut, Terms, policyVars

LEMMA RevokeKeeps ==
  ASSUME MainnetInv, NEW m \in MandateIds, RevokeMandate(m)
  PROVE  MainnetInv'
<1>1. /\ m \in DOMAIN mandates
      /\ mandates' = [mandates EXCEPT ![m].status = "Revoked"]
      /\ UNCHANGED <<now, policyVars, funds, paid, usedSeqs>>
  BY DEF RevokeMandate
<1>2. mandates[m] \in Mandate
  BY <1>1, RowTypes DEF MainnetInv
<1>3. /\ DOMAIN mandates' = DOMAIN mandates
      /\ \A k \in DOMAIN mandates \ {m} : mandates'[k] = mandates[k]
      /\ mandates'[m] = [mandates[m] EXCEPT !.status = "Revoked"]
      /\ mandates'[m] \in Mandate /\ mandates'[m].terms = mandates[m].terms
  BY <1>1, <1>2 DEF Mandate
<1>4. MainnetTypeOK'
  BY <1>1, <1>3 DEF MainnetInv, MainnetTypeOK, policyVars
<1>5. ASSUME NEW k \in DOMAIN mandates
      PROVE  Books(k)'
  BY <1>1, <1>2, <1>3 DEF MainnetInv, BooksMatchTransfers, Books, Terms, Mandate
<1>6. NothingBeforeGrant'
  BY <1>1, <1>3 DEF MainnetInv, NothingBeforeGrant
<1>7. LifeIsBounded' /\ UnlistedAssetsDieOut'
  BY <1>1, <1>3, SameTerms
<1> QED
  BY <1>3, <1>4, <1>5, <1>6, <1>7 DEF MainnetInv, BooksMatchTransfers, Books

\* What a payment does to the stored row and to the history.
PaidOut(m, amount) ==
  /\ m \in DOMAIN mandates
  /\ amount \in Nat /\ amount > 0
  /\ DOMAIN mandates' = DOMAIN mandates
  /\ \A k \in DOMAIN mandates \ {m} : mandates'[k] = mandates[k]
  /\ mandates'[m] \in Mandate
  /\ mandates'[m].terms = mandates[m].terms
  /\ mandates'[m].spent = mandates[m].spent + amount
  /\ mandates'[m].seq = mandates[m].seq + 1
  /\ mandates'[m].status =
       IF mandates[m].spent + amount = Terms(m).max_amount
       THEN "Exhausted" ELSE "Active"
  /\ mandates[m].spent + amount <= Terms(m).max_amount
  /\ paid'[m] = paid[m] + amount
  /\ usedSeqs'[m] = usedSeqs[m] \cup {mandates[m].seq}
  /\ \A k \in MandateIds \ {m} : paid'[k] = paid[k] /\ usedSeqs'[k] = usedSeqs[k]

\* A payment does that: its number fits the width, or there is no payment.
LEMMA PaymentEffects ==
  ASSUME MainnetInv, NEW m \in MandateIds, NEW amount \in Amounts,
         NEW n \in 0 .. MaxU32, ExecutePayment(m, amount, n)
  PROVE  PaidOut(m, amount)
<1>1. PICK seq \in NextSeq(mandates[m].seq) :
        mandates' = [mandates EXCEPT ![m] = Advanced(@, amount, seq)]
  BY DEF ExecutePayment
<1>2. /\ m \in DOMAIN mandates /\ Check(m, amount) /\ n = mandates[m].seq
      /\ paid' = [paid EXCEPT ![m] = @ + amount]
      /\ usedSeqs' = [usedSeqs EXCEPT ![m] = @ \cup {n}]
  BY DEF ExecutePayment
<1>3. /\ mandates[m] \in Mandate
      /\ mandates[m].spent \in Nat /\ mandates[m].seq \in Nat
      /\ mandates[m].seq <= MaxU32
      /\ Terms(m).max_amount \in Int
  BY <1>2, RowTypes DEF MainnetInv
<1>4. /\ amount \in Nat /\ amount > 0
      /\ mandates[m].status = "Active"
      /\ mandates[m].spent + amount <= Terms(m).max_amount
  BY <1>2, <1>3, MainnetAssumption DEF Check
<1>5. /\ mandates[m].spent + amount \in Nat
      /\ seq = mandates[m].seq + 1 /\ seq \in 0 .. MaxU32
  BY <1>1, <1>3, <1>4, MainnetAssumption DEF NextSeq
<1>6. /\ DOMAIN mandates' = DOMAIN mandates
      /\ \A k \in DOMAIN mandates \ {m} : mandates'[k] = mandates[k]
      /\ mandates'[m] = Advanced(mandates[m], amount, seq)
  BY <1>1, <1>2
<1>7. /\ mandates'[m] \in Mandate
      /\ mandates'[m].terms = mandates[m].terms
      /\ mandates'[m].spent = mandates[m].spent + amount
      /\ mandates'[m].seq = mandates[m].seq + 1
      /\ mandates'[m].status =
              IF mandates[m].spent + amount = Terms(m).max_amount
              THEN "Exhausted" ELSE "Active"
  BY <1>3, <1>4, <1>5, <1>6 DEF Advanced, Mandate, Terms
<1>8. /\ paid'[m] = paid[m] + amount
      /\ usedSeqs'[m] = usedSeqs[m] \cup {mandates[m].seq}
      /\ \A k \in MandateIds \ {m} : paid'[k] = paid[k] /\ usedSeqs'[k] = usedSeqs[k]
  BY <1>2 DEF MainnetInv, MainnetTypeOK
<1> QED
  BY <1>2, <1>4, <1>6, <1>7, <1>8 DEF PaidOut

LEMMA PaymentKeeps ==
  ASSUME MainnetInv, NEW m \in MandateIds, NEW amount \in Amounts,
         NEW n \in 0 .. MaxU32, ExecutePayment(m, amount, n)
  PROVE  MainnetInv'
<1>1. /\ m \in DOMAIN mandates
      /\ amount <= funds[Terms(m).asset][Terms(m).user]
      /\ funds' = [funds EXCEPT ![Terms(m).asset][Terms(m).user] = @ - amount]
      /\ paid' = [paid EXCEPT ![m] = @ + amount]
      /\ usedSeqs' = [usedSeqs EXCEPT ![m] = @ \cup {n}]
      /\ n = mandates[m].seq
      /\ UNCHANGED <<now, policyVars>>
  BY DEF ExecutePayment
<1>2. /\ Terms(m).asset \in Assets /\ Terms(m).user \in Users
      /\ Terms(m).max_amount \in Int
      /\ mandates[m].spent \in Nat /\ mandates[m].seq \in Nat
      /\ paid[m] \in Nat
  BY <1>1, RowTypes DEF MainnetInv
<1>3. PaidOut(m, amount)
  BY PaymentEffects
<1> USE DEF PaidOut
<1>4. MainnetTypeOK'
  <2>1. funds' \in [Assets -> [Users -> Nat]]
    <3>1. funds \in [Assets -> [Users -> Nat]]
      BY DEF MainnetInv, MainnetTypeOK
    <3>2. funds[Terms(m).asset][Terms(m).user] - amount \in Nat
      BY <1>1, <1>2, <3>1, <1>3
    <3> QED
      BY <1>1, <1>2, <3>1, <3>2
  <2>2. paid' \in [MandateIds -> Nat] /\ usedSeqs' \in [MandateIds -> SUBSET Nat]
    BY <1>1, <1>2, <1>3 DEF MainnetInv, MainnetTypeOK
  <2>3. \A k \in DOMAIN mandates : mandates'[k] \in Mandate
    BY <1>3, RowTypes DEF MainnetInv
  <2>4. mandates' \in [DOMAIN mandates' -> Mandate]
    <3>1. DOMAIN mandates' = DOMAIN mandates
      BY <1>3
    <3>2. mandates' = [k \in DOMAIN mandates |-> mandates'[k]]
      BY DEF ExecutePayment, MainnetInv, MainnetTypeOK
    <3> QED
      BY <2>3, <3>1, <3>2
  <2>5. DOMAIN mandates' \subseteq MandateIds
    BY <1>1, <1>3 DEF MainnetInv, MainnetTypeOK
  <2> QED
    BY <1>1, <2>1, <2>2, <2>4, <2>5 DEF MainnetInv, MainnetTypeOK, policyVars
<1>5. ASSUME NEW k \in DOMAIN mandates
      PROVE  Books(k)'
  <2>1. Books(k) /\ k \in MandateIds
    BY RowTypes DEF MainnetInv, BooksMatchTransfers, Books
  <2>2. CASE k # m
    BY <2>1, <2>2, <1>3 DEF Books, Terms
  <2>3. CASE k = m
    <3>1. (0 .. mandates[m].seq - 1) \cup {mandates[m].seq}
            = 0 .. mandates[m].seq + 1 - 1
      BY <1>2
    <3>2. usedSeqs'[m] = 0 .. mandates'[m].seq - 1
      <4>1. usedSeqs'[m] = (0 .. mandates[m].seq - 1) \cup {mandates[m].seq}
        BY <2>1, <2>3, <1>3 DEF Books
      <4>2. mandates'[m].seq = mandates[m].seq + 1
        BY <1>3
      <4>3. 0 .. mandates'[m].seq - 1 = 0 .. mandates[m].seq + 1 - 1
        BY <1>2, <4>2, SMT
      <4> QED
        BY <3>1, <4>1, <4>3
    <3>3. /\ mandates[m].spent = paid[m] /\ mandates[m].seq <= paid[m]
      BY <2>1, <2>3 DEF Books
    <3> QED
      BY <1>2, <2>3, <3>2, <3>3, <1>3 DEF Books, Terms
  <2> QED
    BY <2>2, <2>3
<1>6. NothingBeforeGrant'
  BY <1>3 DEF MainnetInv, NothingBeforeGrant
<1>7. BooksMatchTransfers'
  BY <1>3, <1>5 DEF BooksMatchTransfers, Books
<1>8. LifeIsBounded' /\ UnlistedAssetsDieOut'
  BY <1>1, <1>3, SameTerms
<1> QED
  BY <1>4, <1>6, <1>7, <1>8 DEF MainnetInv

LEMMA MainnetStep == MainnetInv /\ [MainnetNext]_mainnetVars => MainnetInv'
<1> SUFFICES ASSUME MainnetInv, [MainnetNext]_mainnetVars
             PROVE  MainnetInv'
  OBVIOUS
<1>1. CASE Tick
  BY <1>1, TickKeeps
<1>2. CASE UserNext
  BY <1>2, RegisterKeeps, RevokeKeeps, PaymentKeeps, SetFundsKeeps DEF UserNext
<1>3. CASE RoleOfferLapses
  BY <1>3, RoleOfferLapsesKeeps
<1>4. CASE \E operator \in Accounts, c \in OperatorCalls :
             RegistryCall(operator, c)
  <2>1. PICK operator \in Accounts, c \in PolicyCalls \cup AccessCalls :
          RegistryCall(operator, c)
    BY <1>4, MainnetAssumption
  <2> QED
    BY <2>1, RegistryCallKeeps
<1>5. CASE UNCHANGED mainnetVars
  <2>1. now \in Nat
    BY MainnetAssumption DEF MainnetInv, MainnetTypeOK
  <2>2. MainnetTypeOK' /\ UnlistedAssetsDieOut'
    BY <1>5 DEF mainnetVars, policyVars, ledgerVars, MainnetInv, MainnetTypeOK,
                UnlistedAssetsDieOut, Terms
  <2> QED
    BY <1>5, <2>1, <2>2, UntouchedLedger
    DEF mainnetVars, ledgerVars, MainnetInv
<1> QED
  BY <1>1, <1>2, <1>3, <1>4, <1>5 DEF MainnetNext

LEMMA MainnetInvariance == MainnetSpec => []MainnetInv
BY MainnetInitInv, MainnetStep, PTL DEF MainnetSpec

\* Every stored value stays in its type, the counter in its width.
THEOREM MainnetTypeCorrect == MainnetSpec => []MainnetTypeOK
BY MainnetInvariance, PTL DEF MainnetInv

\* The books match the money up to the last payment the counter can number,
\* and no number is used twice.
THEOREM MainnetBooksMatchTransfers == MainnetSpec => []BooksMatchTransfers
BY MainnetInvariance, PTL DEF MainnetInv

\* No mandate in an asset taken off the list outlives that by more than the
\* longest life of a mandate.
THEOREM MainnetUnlistedAssetsDieOut == MainnetSpec => []UnlistedAssetsDieOut
BY MainnetInvariance, PTL DEF MainnetInv

-----------------------------------------------------------------------------
\* The registry implements the authority its mandates grant.

\* The mandates that are revoked and what the others grant depend on the
\* terms and the status alone.
LEMMA MainnetSameAuthority ==
  ASSUME DOMAIN mandates' = DOMAIN mandates,
         \A m \in DOMAIN mandates :
           /\ mandates'[m].terms = mandates[m].terms
           /\ mandates'[m].status = "Revoked" <=> mandates[m].status = "Revoked"
  PROVE  /\ [m \in DOMAIN mandates |-> Terms(m).max_amount]'
              = [m \in DOMAIN mandates |-> Terms(m).max_amount]
         /\ [m \in DOMAIN mandates |-> Terms(m).expiry]'
              = [m \in DOMAIN mandates |-> Terms(m).expiry]
         /\ {m \in DOMAIN mandates : mandates[m].status = "Revoked"}'
              = {m \in DOMAIN mandates : mandates[m].status = "Revoked"}
BY DEF Terms

LEMMA MainnetInitRefines == MainnetInit => Authority!Init
BY DEF MainnetInit, Authority!Init

LEMMA MainnetPaymentRefines ==
  ASSUME MainnetInv, NEW m \in MandateIds, NEW amount \in Amounts,
         NEW n \in 0 .. MaxU32, ExecutePayment(m, amount, n)
  PROVE  Authority!Debit
<1>1. /\ m \in DOMAIN mandates
      /\ mandates[m].status = "Active" /\ now < Terms(m).expiry
      /\ now' = now
  BY DEF ExecutePayment, Check
<1>2. PaidOut(m, amount)
  BY PaymentEffects
<1> USE DEF PaidOut
<1>3. paid[m] \in Nat /\ paid[m] = mandates[m].spent
  BY <1>1, RowTypes DEF MainnetInv, BooksMatchTransfers
<1>4. paid' # paid /\ DOMAIN paid' = MandateIds
  BY <1>2, <1>3 DEF ExecutePayment, MainnetInv, MainnetTypeOK
<1>5. \A k \in MandateIds : paid'[k] # paid[k] =>
        /\ k \in DOMAIN mandates
        /\ mandates[k].status # "Revoked"
        /\ now < Terms(k).expiry
        /\ paid'[k] > paid[k]
        /\ paid'[k] <= Terms(k).max_amount
  BY <1>1, <1>2, <1>3
<1>6. \A k \in DOMAIN mandates :
        /\ mandates'[k].terms = mandates[k].terms
        /\ mandates'[k].status = "Revoked" <=> mandates[k].status = "Revoked"
  BY <1>1, <1>2
<1> QED
  BY <1>1, <1>2, <1>4, <1>5, <1>6, MainnetSameAuthority DEF Authority!Debit

LEMMA MainnetUserStepRefines ==
  ASSUME MainnetInv, UserNext
  PROVE  [Authority!Next]_(Authority!vars)
<1>1. ASSUME NEW m \in MandateIds, NEW t \in TermsFor[m], RegisterMandate(m, t)
      PROVE  [Authority!Next]_(Authority!vars)
  <2>1. /\ t.max_amount > 0 /\ t.expiry > now
        /\ m \notin DOMAIN mandates
        /\ DOMAIN mandates' = DOMAIN mandates \cup {m}
        /\ \A k \in DOMAIN mandates : mandates'[k] = mandates[k]
        /\ mandates'[m].terms = t /\ mandates'[m].status = "Active"
        /\ now' = now /\ paid' = paid
    BY <1>1 DEF RegisterMandate, NewMandate, Acceptable
  <2>2. Authority!Grant(m)
    BY <2>1 DEF Authority!Grant, Terms
  <2> QED
    BY <2>2 DEF Authority!Next
<1>2. ASSUME NEW m \in MandateIds, RevokeMandate(m)
      PROVE  [Authority!Next]_(Authority!vars)
  <2>1. m \in DOMAIN mandates /\ mandates[m] \in Mandate
    BY <1>2, RowTypes DEF RevokeMandate, MainnetInv
  <2>2. /\ DOMAIN mandates' = DOMAIN mandates
        /\ \A k \in DOMAIN mandates \ {m} : mandates'[k] = mandates[k]
        /\ mandates'[m].terms = mandates[m].terms
        /\ mandates'[m].status = "Revoked"
        /\ now' = now /\ paid' = paid
    BY <1>2, <2>1 DEF RevokeMandate, Mandate
  <2>3. Authority!Revoke(m)
    BY <2>1, <2>2 DEF Authority!Revoke, Terms
  <2> QED
    BY <2>3 DEF Authority!Next
<1>3. ASSUME NEW m \in MandateIds, NEW amount \in Amounts, NEW n \in 0 .. MaxU32,
             ExecutePayment(m, amount, n)
      PROVE  [Authority!Next]_(Authority!vars)
  BY <1>3, MainnetPaymentRefines DEF Authority!Next
<1>4. ASSUME NEW a \in Assets, NEW u \in Users, NEW n \in Funds, SetFunds(a, u, n)
      PROVE  [Authority!Next]_(Authority!vars)
  BY <1>4 DEF SetFunds, Authority!vars, Terms
<1> QED
  BY <1>1, <1>2, <1>3, <1>4 DEF UserNext

LEMMA MainnetStepRefines ==
  ASSUME MainnetInv, [MainnetNext]_mainnetVars
  PROVE  [Authority!Next]_(Authority!vars)
<1>1. CASE now' = now /\ mandates' = mandates /\ paid' = paid
  BY <1>1 DEF Authority!vars, Terms
<1>2. CASE Tick
  <2>1. now' > now /\ mandates' = mandates /\ paid' = paid
    BY <1>2, MainnetAssumption DEF Tick, ledgerVars, MainnetInv, MainnetTypeOK
  <2>2. Authority!Advance
    BY <2>1 DEF Authority!Advance, Terms
  <2> QED
    BY <2>2 DEF Authority!Next
<1>3. CASE UserNext
  BY <1>3, MainnetUserStepRefines
<1>4. CASE RoleOfferLapses
  BY <1>1, <1>4 DEF RoleOfferLapses, ledgerVars
<1>5. ASSUME NEW operator, NEW c, RegistryCall(operator, c)
      PROVE  [Authority!Next]_(Authority!vars)
  BY <1>1, <1>5 DEF RegistryCall, Pause, Unpause, SetAssetAllowed, Upgrade,
                    ManageRoles, ledgerVars
<1>6. CASE UNCHANGED mainnetVars
  BY <1>1, <1>6 DEF mainnetVars, ledgerVars
<1> QED
  BY <1>2, <1>3, <1>4, <1>5, <1>6 DEF MainnetNext

\* The mainnet registry keeps the promise made to the users that sign
\* mandates, whoever holds its roles and whatever they do with them.
THEOREM MainnetImplementsAuthority == MainnetSpec => RefinesAuthority
<1>1. MainnetInv /\ [MainnetNext]_mainnetVars => [Authority!Next]_(Authority!vars)
  BY MainnetStepRefines
<1> QED
  BY <1>1, MainnetInitRefines, MainnetInvariance, PTL
  DEF MainnetSpec, RefinesAuthority, Authority!Spec

-----------------------------------------------------------------------------
(* The timelock alone. *)

TimelockInv ==
  /\ TimelockTypeOK
  /\ RunsOnce
  /\ PredecessorFirst

\* What an account, or the timelock itself, may ask of its administration.
AdminCalls == [fn : {"update_delay"}, delay : Delays] \cup AccessCalls

LEMMA OwnCallKeepsTypes ==
  ASSUME TimelockTypeOK, NEW caller \in Accounts, NEW c \in AdminCalls,
         OwnCall(caller, c)
  PROVE  minDelay' \in Delays /\ tlRoles' \in Access
<1>1. CASE c.fn = "update_delay" /\ minDelay' = c.delay /\ UNCHANGED tlRoles
  <2>1. c.delay \in Delays
    BY <1>1 DEF AdminCalls, AccessCalls
  <2> QED
    BY <1>1, <2>1 DEF TimelockTypeOK
<1>2. CASE AccessCall(tlRoles, tlRoles', caller, c) /\ UNCHANGED minDelay
  <2>1. c \in AccessCalls
    BY <1>2 DEF AdminCalls, AccessCall
  <2> QED
    BY <1>2, <2>1, AccessCallType DEF TimelockTypeOK
<1> QED
  BY <1>1, <1>2 DEF OwnCall

LEMMA TimelockInitInv == TimelockInit => TimelockInv
<1> SUFFICES ASSUME TimelockInit
             PROVE  TimelockInv
  OBVIOUS
<1>1. PICK admin \in Admins :
        tlRoles = NewAccess(admin,
          [r \in Roles |-> IF r \in {"proposer", "canceller"} THEN Proposers
                           ELSE IF r = "executor" THEN Executors ELSE {}])
  BY DEF TimelockInit
<1>2. tlRoles \in Access
  BY <1>1, TimelockAssumption DEF NewAccess, Access
<1>3. readyAt \in [DOMAIN readyAt -> Nat] /\ DOMAIN readyAt = {}
  BY DEF TimelockInit
<1>4. ran \in Seq(Ops) /\ DOMAIN ran = {}
  BY DEF TimelockInit
<1>5. 0 \in 0 .. MaxLedger
  BY TimelockAssumption
<1>6. TimelockTypeOK
  BY <1>2, <1>3, <1>4, <1>5 DEF TimelockInit, TimelockTypeOK
<1> QED
  BY <1>3, <1>4, <1>6 DEF TimelockInit, TimelockInv, RunsOnce, PredecessorFirst,
                          Pending

\* Dropping a row keeps the others, and their types.
LEMMA UnscheduledDrops ==
  ASSUME TimelockTypeOK, NEW o \in Ops, Unscheduled(o)
  PROVE  /\ Pending' = Pending \ {o}
         /\ \A k \in Pending' : readyAt'[k] = readyAt[k]
         /\ readyAt' \in [DOMAIN readyAt' -> Nat]
         /\ DOMAIN readyAt' \subseteq Ops
BY DEF TimelockTypeOK, Unscheduled, Pending

\* What happens to the history when an operation runs.
LEMMA AppendedRun ==
  ASSUME TimelockTypeOK, NEW o \in Ops, ran' = Append(ran, o)
  PROVE  /\ ran' \in Seq(Ops)
         /\ Len(ran) \in Nat
         /\ DOMAIN ran = 1 .. Len(ran)
         /\ DOMAIN ran' = 1 .. Len(ran) + 1
         /\ Len(ran') = Len(ran) + 1
         /\ \A i \in DOMAIN ran : ran'[i] = ran[i]
         /\ ran'[Len(ran) + 1] = o
BY DEF TimelockTypeOK

\* Running an operation that is pending and in its turn.
LEMMA ConsumeKeeps ==
  ASSUME TimelockInv, NEW o \in Ops, Runnable(o), Consume(o)
  PROVE  /\ RunsOnce' /\ PredecessorFirst'
         /\ ran' \in Seq(Ops) /\ done' \subseteq Ops
<1>1. /\ Unscheduled(o) /\ done' = done \cup {o} /\ ran' = Append(ran, o)
      /\ o \in Pending /\ (PredOf[o] # NoOp => PredOf[o] \in done)
  BY DEF Consume, Runnable
<1>2. /\ ran' \in Seq(Ops)
      /\ Len(ran) \in Nat
      /\ DOMAIN ran = 1 .. Len(ran)
      /\ DOMAIN ran' = 1 .. Len(ran) + 1
      /\ \A i \in DOMAIN ran : ran'[i] = ran[i]
      /\ ran'[Len(ran) + 1] = o
  BY <1>1, AppendedRun DEF TimelockInv
<1>3. /\ \A i, j \in DOMAIN ran : ran[i] = ran[j] => i = j
      /\ done = {ran[i] : i \in DOMAIN ran}
      /\ done \cap Pending = {}
  BY DEF TimelockInv, RunsOnce
<1>4. \A i \in DOMAIN ran : ran[i] # o
  BY <1>1, <1>3
<1>5. RunsOnce'
  <2>1. ASSUME NEW i \in DOMAIN ran', NEW j \in DOMAIN ran', ran'[i] = ran'[j]
        PROVE  i = j
    <3>1. i \in DOMAIN ran \/ i = Len(ran) + 1
      BY <1>2
    <3>2. j \in DOMAIN ran \/ j = Len(ran) + 1
      BY <1>2
    <3> QED
      BY <1>2, <1>3, <1>4, <2>1, <3>1, <3>2
  <2>2. done' = {ran'[i] : i \in DOMAIN ran'}
    <3>1. DOMAIN ran' = DOMAIN ran \cup {Len(ran) + 1}
      BY <1>2
    <3>2. \A x : x \in done <=> \E i \in DOMAIN ran : x = ran[i]
      BY <1>3
    <3> QED
      BY <1>1, <1>2, <3>1, <3>2
  <2>3. done' \cap Pending' = {}
    BY <1>1, <1>3, UnscheduledDrops DEF TimelockInv
  <2> QED
    BY <2>1, <2>2, <2>3 DEF RunsOnce
<1>6. PredecessorFirst'
  <2> SUFFICES ASSUME NEW i \in DOMAIN ran', PredOf[ran'[i]] # NoOp
               PROVE  \E j \in 1 .. i - 1 : ran'[j] = PredOf[ran'[i]]
    BY DEF PredecessorFirst
  <2>1. CASE i \in DOMAIN ran
    <3>1. PICK j \in 1 .. i - 1 : ran[j] = PredOf[ran[i]]
      BY <1>2, <2>1 DEF TimelockInv, PredecessorFirst
    <3>2. j \in DOMAIN ran
      BY <1>2, <2>1, <3>1
    <3> QED
      BY <1>2, <2>1, <3>1, <3>2
  <2>2. CASE i = Len(ran) + 1
    <3>1. PredOf[o] \in done
      BY <1>1, <1>2, <2>2
    <3>2. PICK j \in DOMAIN ran : PredOf[o] = ran[j]
      BY <1>3, <3>1
    <3>3. j \in 1 .. i - 1
      BY <1>2, <2>2, <3>2
    <3> QED
      BY <1>2, <2>2, <3>2, <3>3
  <2> QED
    BY <1>2, <2>1, <2>2
<1> QED
  BY <1>1, <1>2, <1>5, <1>6 DEF TimelockInv, TimelockTypeOK

\* The history and the marks stay when nothing runs.
LEMMA NothingRuns ==
  ASSUME TimelockInv, UNCHANGED <<done, ran>>, done \cap Pending' = {}
  PROVE  RunsOnce' /\ PredecessorFirst'
BY DEF TimelockInv, RunsOnce, PredecessorFirst, Pending

LEMMA ScheduleKeeps ==
  ASSUME TimelockInv, NEW who \in Signers, NEW o \in Ops, NEW d \in Delays,
         Schedule(who, o, d)
  PROVE  TimelockInv'
<1>1. /\ o \notin Pending \cup done
      /\ readyAt' = [k \in Pending \cup {o} |->
                       IF k = o THEN ledger + d ELSE readyAt[k]]
      /\ UNCHANGED <<ledger, minDelay, tlRoles, done, ran>>
  BY DEF Schedule
<1>2. ledger \in Nat /\ d \in Nat
  BY TimelockAssumption DEF TimelockInv, TimelockTypeOK
<1>3. /\ Pending' = Pending \cup {o}
      /\ readyAt' \in [DOMAIN readyAt' -> Nat]
      /\ DOMAIN readyAt' \subseteq Ops
  BY <1>1, <1>2 DEF TimelockInv, TimelockTypeOK, Pending
<1>4. TimelockTypeOK'
  BY <1>1, <1>3 DEF TimelockInv, TimelockTypeOK
<1>5. done \cap Pending' = {}
  BY <1>1, <1>3 DEF TimelockInv, RunsOnce
<1> QED
  BY <1>1, <1>4, <1>5, NothingRuns DEF TimelockInv

LEMMA CancelKeeps ==
  ASSUME TimelockInv, NEW who \in Signers, NEW o \in Ops, Cancel(who, o)
  PROVE  TimelockInv'
<1>1. /\ Unscheduled(o) /\ UNCHANGED <<ledger, minDelay, tlRoles, done, ran>>
  BY DEF Cancel
<1>2. /\ Pending' = Pending \ {o}
      /\ readyAt' \in [DOMAIN readyAt' -> Nat]
      /\ DOMAIN readyAt' \subseteq Ops
  BY <1>1, UnscheduledDrops DEF TimelockInv
<1>3. TimelockTypeOK'
  BY <1>1, <1>2 DEF TimelockInv, TimelockTypeOK
<1>4. done \cap Pending' = {}
  BY <1>2 DEF TimelockInv, RunsOnce
<1> QED
  BY <1>1, <1>3, <1>4, NothingRuns DEF TimelockInv

LEMMA ExecuteKeeps ==
  ASSUME TimelockInv, NEW who \in Signers, NEW o \in Ops, Execute(who, o)
  PROVE  TimelockInv'
<1>1. Runnable(o) /\ Consume(o) /\ UNCHANGED <<ledger, minDelay, tlRoles>>
  BY DEF Execute
<1>2. /\ readyAt' \in [DOMAIN readyAt' -> Nat]
      /\ DOMAIN readyAt' \subseteq Ops
  BY <1>1, UnscheduledDrops DEF TimelockInv, Consume
<1> QED
  BY <1>1, <1>2, ConsumeKeeps DEF TimelockInv, TimelockTypeOK

LEMMA CallAsSelfKeeps ==
  ASSUME TimelockInv, NEW who \in Signers, NEW o \in Ops, CallAsSelf(who, o)
  PROVE  TimelockInv'
<1>1. /\ Runnable(o) /\ Consume(o) /\ TargetOf[o] = Self
      /\ OwnCall(Self, CallOf[o]) /\ UNCHANGED ledger
  BY DEF CallAsSelf, CheckAuth
<1>2. /\ readyAt' \in [DOMAIN readyAt' -> Nat]
      /\ DOMAIN readyAt' \subseteq Ops
  BY <1>1, UnscheduledDrops DEF TimelockInv, Consume
<1>3. CallOf[o] \in AdminCalls /\ Self \in Accounts
  BY <1>1, TimelockAssumption DEF AdminCalls
<1>4. minDelay' \in Delays /\ tlRoles' \in Access
  BY <1>1, <1>3, OwnCallKeepsTypes DEF TimelockInv
<1> QED
  BY <1>1, <1>2, <1>4, ConsumeKeeps DEF TimelockInv, TimelockTypeOK

LEMMA CallDirectlyKeeps ==
  ASSUME TimelockInv, NEW who \in Signers, NEW c \in OwnCalls,
         CallDirectly(who, c)
  PROVE  TimelockInv'
<1>1. OwnCall(who, c) /\ UNCHANGED <<ledger, readyAt, done, ran>>
  BY DEF CallDirectly, opVars
<1>2. c \in AdminCalls /\ who \in Accounts
  BY TimelockAssumption DEF AdminCalls, Signers
<1>3. minDelay' \in Delays /\ tlRoles' \in Access
  BY <1>1, <1>2, OwnCallKeepsTypes DEF TimelockInv
<1>4. TimelockTypeOK'
  BY <1>1, <1>3 DEF TimelockInv, TimelockTypeOK
<1>5. done \cap Pending' = {}
  BY <1>1 DEF TimelockInv, RunsOnce, Pending
<1> QED
  BY <1>1, <1>4, <1>5, NothingRuns DEF TimelockInv

LEMMA TimelockStep ==
  TimelockInv /\ [TimelockNext]_timelockVars => TimelockInv'
<1> SUFFICES ASSUME TimelockInv, [TimelockNext]_timelockVars
             PROVE  TimelockInv'
  OBVIOUS
<1>1. ASSUME ledger' \in 0 .. MaxLedger, tlRoles' \in Access,
             UNCHANGED <<minDelay, readyAt, done, ran>>
      PROVE  TimelockInv'
  <2>1. TimelockTypeOK'
    BY <1>1 DEF TimelockInv, TimelockTypeOK
  <2>2. done \cap Pending' = {}
    BY <1>1 DEF TimelockInv, RunsOnce, Pending
  <2> QED
    BY <1>1, <2>1, <2>2, NothingRuns DEF TimelockInv
<1>2. CASE LedgerCloses
  <2>1. ledger' \in 0 .. MaxLedger
    BY <1>2, TimelockAssumption DEF LedgerCloses, TimelockInv, TimelockTypeOK
  <2> QED
    BY <1>1, <1>2, <2>1 DEF LedgerCloses, opVars, TimelockInv, TimelockTypeOK
<1>3. CASE TimelockOfferLapses
  <2>1. tlRoles' \in Access
    BY <1>3, OfferLapsesType
    DEF TimelockOfferLapses, TimelockInv, TimelockTypeOK
  <2> QED
    BY <1>1, <1>3, <2>1
    DEF TimelockOfferLapses, opVars, TimelockInv, TimelockTypeOK
<1>4. CASE TimelockCalls
  BY <1>3, <1>4, ScheduleKeeps, CancelKeeps, CallAsSelfKeeps, CallDirectlyKeeps
  DEF TimelockCalls
<1>5. CASE \E who \in Signers, o \in Ops : Execute(who, o)
  BY <1>5, ExecuteKeeps
<1>6. CASE UNCHANGED timelockVars
  BY <1>1, <1>6 DEF timelockVars, opVars, TimelockInv, TimelockTypeOK
<1> QED
  BY <1>2, <1>4, <1>5, <1>6 DEF TimelockNext

LEMMA TimelockInvariance == TimelockSpec => []TimelockInv
BY TimelockInitInv, TimelockStep, PTL DEF TimelockSpec

\* Delays, roles, pending operations and history stay in their types.
THEOREM TimelockTypeCorrect == TimelockSpec => []TimelockTypeOK
BY TimelockInvariance, PTL DEF TimelockInv

\* No operation runs twice, through execute or through __check_auth.
THEOREM OperationsRunOnce == TimelockSpec => []RunsOnce
BY TimelockInvariance, PTL DEF TimelockInv

\* No operation runs before the one it names as its predecessor.
THEOREM PredecessorsRunFirst == TimelockSpec => []PredecessorFirst
BY TimelockInvariance, PTL DEF TimelockInv

-----------------------------------------------------------------------------
(* The timelock keeps the promise of announced changes. *)

LEMMA NoticeIsNat ==
  ASSUME TimelockTypeOK
  PROVE  /\ NoticeInForce \in Nat /\ NoticeInForce <= minDelay
         /\ minDelay \in Nat /\ ledger \in Nat
<1>1. minDelay \in Nat /\ ledger \in Nat
  BY TimelockAssumption DEF TimelockTypeOK
<1> QED
  BY <1>1 DEF NoticeInForce

LEMMA TimelockInitRefines == TimelockInit => Announced!Init
<1> SUFFICES ASSUME TimelockInit
             PROVE  Announced!Init
  OBVIOUS
<1>1. ledger = 0 /\ readyAt = <<>> /\ minDelay \in Nat
  BY TimelockAssumption DEF TimelockInit
<1>2. NoticeInForce \in Nat
  BY <1>1 DEF NoticeInForce
<1> QED
  BY <1>1, <1>2 DEF Announced!Init

\* A call of the administration by another than the timelock itself never
\* shortens the notice: whoever could was counted as able to set it to zero.
LEMMA OthersOnlyLengthen ==
  ASSUME TimelockTypeOK, TimelockTypeOK', NEW who \in Signers,
         NEW c \in AdminCalls, OwnCall(who, c)
  PROVE  NoticeInForce' >= NoticeInForce
<1>1. /\ who \in Accounts /\ who # Self /\ who # Nobody
      /\ tlRoles \in Access
  BY AccessAssumption DEF Signers, TimelockTypeOK
<1>2. NoticeInForce \in Nat /\ NoticeInForce' \in Nat
  BY NoticeIsNat, TimelockAssumption DEF TimelockTypeOK, NoticeInForce
<1>3. CASE who = tlRoles.admin \/ who = tlRoles.offered
  <2>1. NoticeInForce = 0
    BY <1>1, <1>3 DEF NoticeInForce
  <2> QED
    BY <1>2, <2>1
<1>4. CASE who # tlRoles.admin /\ who # tlRoles.offered
  <2>1. /\ AccessCall(tlRoles, tlRoles', who, c)
        /\ UNCHANGED minDelay
    BY <1>4 DEF OwnCall
  <2>2. tlRoles'.admin = tlRoles.admin /\ tlRoles'.offered = tlRoles.offered
    BY <1>1, <1>4, <2>1 DEF AccessCall, Access
  <2>3. NoticeInForce' = NoticeInForce
    BY <2>1, <2>2 DEF NoticeInForce
  <2> QED
    BY <1>2, <2>3
<1> QED
  BY <1>3, <1>4

\* The timelock itself shortens it only through an operation that says so.
LEMMA SelfShortensOpenly ==
  ASSUME TimelockTypeOK, TimelockTypeOK', NEW c \in AdminCalls,
         OwnCall(Self, c), c.fn \notin {"update_delay", "transfer_admin_role"}
  PROVE  NoticeInForce' >= NoticeInForce
<1>1. /\ Self \in Accounts /\ Self # Nobody /\ tlRoles \in Access
  BY TimelockAssumption, AccessAssumption DEF TimelockTypeOK
<1>2. NoticeInForce \in Nat /\ NoticeInForce' \in Nat
  BY NoticeIsNat, TimelockAssumption DEF TimelockTypeOK, NoticeInForce
<1>3. AccessCall(tlRoles, tlRoles', Self, c) /\ UNCHANGED minDelay
  BY DEF OwnCall
<1>4. CASE tlRoles.offered = Self
  <2>1. NoticeInForce = 0
    BY <1>1, <1>4 DEF NoticeInForce
  <2> QED
    BY <1>2, <2>1
<1>5. CASE tlRoles.offered # Self
  <2>1. /\ tlRoles'.offered = tlRoles.offered
        /\ \/ tlRoles'.admin = tlRoles.admin
           \/ tlRoles.admin = Self /\ tlRoles'.admin = Nobody
    BY <1>1, <1>3, <1>5 DEF AccessCall, Access
  <2>2. NoticeInForce' = NoticeInForce
    BY <1>3, <2>1 DEF NoticeInForce
  <2> QED
    BY <1>2, <2>2
<1> QED
  BY <1>4, <1>5

\* Running an operation is taking effect, once its effect on the notice is
\* known.
LEMMA RunningTakesEffect ==
  ASSUME TimelockInv, TimelockInv', NEW o \in Ops, Runnable(o), Consume(o),
         UNCHANGED ledger,
         o \notin WeakeningOps => NoticeInForce' >= NoticeInForce
  PROVE  Announced!TakeEffect(o)
<1>1. /\ o \in Pending /\ readyAt[o] <= ledger
      /\ Unscheduled(o) /\ ran' = Append(ran, o)
  BY DEF Runnable, Consume
<1>2. NoticeInForce' \in Nat
  BY TimelockAssumption DEF TimelockInv, TimelockTypeOK, NoticeInForce
<1>3. Announced!Dropped(o)
  BY <1>1 DEF Announced!Dropped, Unscheduled, Pending
<1>4. (IF ran = <<>> THEN NoOp ELSE ran[Len(ran)])' = o
  <2>1. /\ Len(ran) \in Nat /\ Len(ran') = Len(ran) + 1
        /\ ran'[Len(ran) + 1] = o
    BY <1>1, AppendedRun DEF TimelockInv
  <2>2. ran' # <<>>
    BY <2>1
  <2> QED
    BY <2>1, <2>2
<1> QED
  BY <1>1, <1>2, <1>3, <1>4 DEF Announced!TakeEffect, Pending

LEMMA CallAsSelfRefines ==
  ASSUME TimelockInv, TimelockInv', NEW who \in Signers, NEW o \in Ops,
         CallAsSelf(who, o)
  PROVE  Announced!TakeEffect(o)
<1>1. /\ Runnable(o) /\ Consume(o) /\ TargetOf[o] = Self
      /\ OwnCall(Self, CallOf[o]) /\ UNCHANGED ledger
  BY DEF CallAsSelf, CheckAuth
<1>2. CallOf[o] \in AdminCalls
  BY <1>1, TimelockAssumption DEF AdminCalls
<1>3. o \notin WeakeningOps => NoticeInForce' >= NoticeInForce
  BY <1>1, <1>2, SelfShortensOpenly DEF WeakeningOps, TimelockInv
<1> QED
  BY <1>1, <1>3, RunningTakesEffect

LEMMA ExecuteRefines ==
  ASSUME TimelockInv, TimelockInv', NEW who \in Signers, NEW o \in Ops,
         Execute(who, o)
  PROVE  Announced!TakeEffect(o)
<1>1. /\ Runnable(o) /\ Consume(o) /\ UNCHANGED <<ledger, minDelay, tlRoles>>
  BY DEF Execute
<1>2. NoticeInForce' = NoticeInForce /\ NoticeInForce \in Nat
  BY <1>1, NoticeIsNat DEF NoticeInForce, TimelockInv
<1> QED
  BY <1>1, <1>2, RunningTakesEffect

LEMMA ScheduleRefines ==
  ASSUME TimelockInv, NEW who \in Signers, NEW o \in Ops, NEW d \in Delays,
         Schedule(who, o, d)
  PROVE  Announced!Announce(o)
<1>1. /\ o \notin DOMAIN readyAt
      /\ d >= minDelay
      /\ readyAt' = [k \in DOMAIN readyAt \cup {o} |->
                       IF k = o THEN ledger + d ELSE readyAt[k]]
      /\ UNCHANGED <<ledger, minDelay, tlRoles, ran>>
  BY DEF Schedule, LongEnough, Pending
<1>2. /\ ledger \in Nat /\ d \in Nat /\ minDelay \in Nat
      /\ NoticeInForce \in Nat /\ NoticeInForce <= minDelay
  BY NoticeIsNat, TimelockAssumption DEF TimelockInv
<1>3. ledger + d \in Nat /\ ledger + d >= ledger + NoticeInForce
  BY <1>1, <1>2
<1>4. NoticeInForce' = NoticeInForce
  BY <1>1 DEF NoticeInForce
<1> QED
  BY <1>1, <1>3, <1>4 DEF Announced!Announce

LEMMA TimelockStepRefines ==
  ASSUME TimelockInv, [TimelockNext]_timelockVars
  PROVE  [Announced!Next]_(Announced!vars)
<1>1. TimelockInv'
  BY TimelockStep
<1>2. ASSUME UNCHANGED <<readyAt, ran>>, ledger' >= ledger,
             NoticeInForce' >= NoticeInForce
      PROVE  [Announced!Next]_(Announced!vars)
  <2>1. ledger' \in Nat /\ NoticeInForce' \in Nat
    BY <1>1, TimelockAssumption DEF TimelockInv, TimelockTypeOK, NoticeInForce
  <2>2. Announced!Advance
    BY <1>2, <2>1 DEF Announced!Advance
  <2> QED
    BY <2>2 DEF Announced!Next
<1>3. ledger \in Nat /\ NoticeInForce \in Nat
  BY NoticeIsNat DEF TimelockInv
<1>4. CASE LedgerCloses
  <2>1. /\ ledger' >= ledger /\ UNCHANGED <<minDelay, tlRoles, readyAt, ran>>
    BY <1>3, <1>4 DEF LedgerCloses, opVars
  <2>2. NoticeInForce' >= NoticeInForce
    BY <1>3, <2>1 DEF NoticeInForce
  <2> QED
    BY <1>2, <2>1, <2>2
<1>5. ASSUME NEW who \in Signers, NEW o \in Ops, NEW d \in Delays,
             Schedule(who, o, d)
      PROVE  [Announced!Next]_(Announced!vars)
  BY <1>5, ScheduleRefines DEF Announced!Next
<1>6. ASSUME NEW who \in Signers, NEW o \in Ops, Cancel(who, o)
      PROVE  [Announced!Next]_(Announced!vars)
  <2>1. /\ o \in DOMAIN readyAt
        /\ readyAt' = [k \in DOMAIN readyAt \ {o} |-> readyAt[k]]
        /\ UNCHANGED <<ledger, minDelay, tlRoles, ran>>
    BY <1>6 DEF Cancel, Unscheduled, Pending
  <2>2. NoticeInForce' = NoticeInForce
    BY <2>1 DEF NoticeInForce
  <2>3. Announced!Withdraw(o)
    BY <2>1, <2>2 DEF Announced!Withdraw, Announced!Dropped
  <2> QED
    BY <2>3 DEF Announced!Next
<1>7. ASSUME NEW who \in Signers, NEW o \in Ops,
             CallAsSelf(who, o) \/ Execute(who, o)
      PROVE  [Announced!Next]_(Announced!vars)
  BY <1>1, <1>7, CallAsSelfRefines, ExecuteRefines DEF Announced!Next
<1>8. ASSUME NEW who \in Signers, NEW c \in OwnCalls, CallDirectly(who, c)
      PROVE  [Announced!Next]_(Announced!vars)
  <2>1. OwnCall(who, c) /\ UNCHANGED <<ledger, readyAt, ran>> /\ c \in AdminCalls
    BY <1>8, TimelockAssumption DEF CallDirectly, opVars, AdminCalls
  <2>2. NoticeInForce' >= NoticeInForce
    BY <1>1, <2>1, OthersOnlyLengthen DEF TimelockInv
  <2> QED
    BY <1>2, <1>3, <2>1, <2>2
<1>9. CASE TimelockOfferLapses
  <2>1. /\ tlRoles.offered # Nobody
        /\ UNCHANGED <<ledger, readyAt, ran>>
    BY <1>9 DEF TimelockOfferLapses, OfferLapses, opVars
  <2>2. NoticeInForce = 0 /\ NoticeInForce' \in Nat
    BY <1>1, <2>1, TimelockAssumption
    DEF NoticeInForce, TimelockInv, TimelockTypeOK
  <2> QED
    BY <1>2, <1>3, <2>1, <2>2
<1>10. CASE UNCHANGED timelockVars
  BY <1>10 DEF timelockVars, opVars, Announced!vars, NoticeInForce
<1> QED
  BY <1>4, <1>5, <1>6, <1>7, <1>8, <1>9, <1>10 DEF TimelockNext, TimelockCalls

\* The timelock keeps the promise of announced changes, under any
\* administrator, and for operations on other contracts and on itself alike
\* (schedule, cancel, execute, update_delay, __check_auth).
THEOREM TimelockImplementsNotice == TimelockSpec => RefinesAnnounced
<1>1. TimelockInv /\ [TimelockNext]_timelockVars
        => [Announced!Next]_(Announced!vars)
  BY TimelockStepRefines
<1> QED
  BY <1>1, TimelockInitRefines, TimelockInvariance, PTL
  DEF TimelockSpec, RefinesAnnounced, Announced!Spec

-----------------------------------------------------------------------------
(* What that promise is worth. *)

LatestRun == IF ran = <<>> THEN NoOp ELSE ran[Len(ran)]

\* What remains true from an instant t with a notice n at which the operation
\* c was not announced, nor was anything that would shorten the notice.
NoSurpriseYet(c, t, n) ==
  /\ ledger >= t
  /\ ledger < t + n =>
       /\ LatestRun # c
       /\ \A k \in DOMAIN readyAt :
            k \in WeakeningOps \cup {c} => readyAt[k] >= t + n
       /\ ledger + NoticeInForce >= t + n

\* Every step that keeps the promise keeps that.
LEMMA NoSurpriseIsKept ==
  ASSUME TimelockInv, NEW c \in Ops, NEW t \in Nat, NEW n \in Nat,
         NoSurpriseYet(c, t, n), [Announced!Next]_(Announced!vars)
  PROVE  NoSurpriseYet(c, t, n)'
<1> USE DEF NoSurpriseYet
<1>1. /\ ledger \in Nat /\ NoticeInForce \in Nat
      /\ readyAt \in [DOMAIN readyAt -> Nat]
  BY NoticeIsNat DEF TimelockInv, TimelockTypeOK
<1>2. CASE Announced!Advance
  <2>1. /\ ledger' \in Nat /\ NoticeInForce' \in Nat /\ ledger' >= ledger
        /\ NoticeInForce' >= NoticeInForce
        /\ readyAt' = readyAt /\ LatestRun' = LatestRun
    BY <1>2 DEF Announced!Advance, LatestRun
  <2> QED
    BY <1>1, <2>1
<1>3. ASSUME NEW o \in Ops, Announced!Announce(o)
      PROVE  NoSurpriseYet(c, t, n)'
  <2>1. /\ DOMAIN readyAt' = DOMAIN readyAt \cup {o}
        /\ readyAt'[o] \in Nat /\ readyAt'[o] >= ledger + NoticeInForce
        /\ \A k \in DOMAIN readyAt : readyAt'[k] = readyAt[k]
        /\ ledger' = ledger /\ NoticeInForce' = NoticeInForce
        /\ LatestRun' = LatestRun
    BY <1>3 DEF Announced!Announce, LatestRun
  <2> QED
    BY <1>1, <2>1
<1>4. ASSUME NEW o \in Ops, Announced!Withdraw(o)
      PROVE  NoSurpriseYet(c, t, n)'
  <2>1. /\ readyAt' = [k \in DOMAIN readyAt \ {o} |-> readyAt[k]]
        /\ ledger' = ledger /\ NoticeInForce' = NoticeInForce
        /\ LatestRun' = LatestRun
    BY <1>4 DEF Announced!Withdraw, Announced!Dropped, LatestRun
  <2> QED
    BY <1>1, <2>1
<1>5. ASSUME NEW o \in Ops, Announced!TakeEffect(o)
      PROVE  NoSurpriseYet(c, t, n)'
  <2>1. /\ o \in DOMAIN readyAt /\ readyAt[o] <= ledger
        /\ readyAt' = [k \in DOMAIN readyAt \ {o} |-> readyAt[k]]
        /\ ledger' = ledger /\ NoticeInForce' \in Nat
        /\ LatestRun' = o
        /\ o \notin WeakeningOps => NoticeInForce' >= NoticeInForce
    BY <1>5 DEF Announced!TakeEffect, Announced!Dropped, LatestRun
  <2>2. ledger < t + n => o # c /\ o \notin WeakeningOps
    BY <1>1, <2>1
  <2> QED
    BY <1>1, <2>1, <2>2
<1>6. CASE UNCHANGED Announced!vars
  <2>1. /\ ledger' = ledger /\ NoticeInForce' = NoticeInForce
        /\ readyAt' = readyAt /\ LatestRun' = LatestRun
    BY <1>6 DEF Announced!vars, LatestRun
  <2> QED
    BY <2>1
<1> QED
  BY <1>2, <1>3, <1>4, <1>5, <1>6 DEF Announced!Next

\* Nobody is surprised by an operation of the timelock: one that is not
\* announced when a user looks, while nothing that would shorten the notice is,
\* does not run for as long as the notice the user saw (schedule, update_delay,
\* execute, __check_auth).
THEOREM TimelockGivesNotice ==
  ASSUME NEW c \in Ops, NEW t \in Nat, NEW n \in Nat
  PROVE  TimelockSpec => Announced!NoSurprise(c, t, n)
<1> DEFINE Seen ==
             /\ ledger = t /\ NoticeInForce = n
             /\ DOMAIN readyAt \cap WeakeningOps = {}
             /\ c \notin DOMAIN readyAt /\ LatestRun # c
<1>1. TimelockInv /\ Seen => NoSurpriseYet(c, t, n)
  BY NoticeIsNat DEF NoSurpriseYet, TimelockInv
<1>2. TimelockInv /\ NoSurpriseYet(c, t, n) /\ [TimelockNext]_timelockVars
        => NoSurpriseYet(c, t, n)'
  BY TimelockStepRefines, NoSurpriseIsKept
<1>3. TimelockInv /\ NoSurpriseYet(c, t, n) => (ledger < t + n => LatestRun # c)
  BY DEF NoSurpriseYet
<1>4. TimelockSpec => [](Seen => [](ledger < t + n => LatestRun # c))
  <2> HIDE DEF Seen
  <2> QED
    BY <1>1, <1>2, <1>3, TimelockInvariance, PTL DEF TimelockSpec
<1> DEFINE Latest == IF ran = <<>> THEN NoOp ELSE ran[Len(ran)]
<1>5. ledger = t /\ NoticeInForce = n /\ Announced!NoticeIsSafe
        /\ c \notin DOMAIN readyAt /\ Latest # c => Seen
  BY DEF Announced!NoticeIsSafe, LatestRun
<1>6. LatestRun = Latest
  BY DEF LatestRun
<1>7. (ledger < t + n => LatestRun # c) => (ledger < t + n => Latest # c)
  BY <1>6
<1> HIDE DEF Seen
<1> QED
  BY <1>4, <1>5, <1>7, PTL DEF Announced!NoSurprise

-----------------------------------------------------------------------------
(* The registry under the timelock. *)

\* Up to ledger b nothing can happen to the code or the list: the deployment
\* profile holds, nothing pending is ready before b, and nothing announced
\* from now on will be.
AssuredTo(b) ==
  ledger < b =>
    /\ Profile
    /\ \A o \in Pending : readyAt[o] >= b
    /\ ledger + minDelay >= b

GovernanceInv ==
  /\ MainnetInv
  /\ TimelockInv
  /\ assuredUntil \in Nat
  /\ AssuredTo(assuredUntil)

\* Each step is one of the timelock's, and one of the registry's.
LEMMA DeploymentIsTimelockStep ==
  ASSUME [DeploymentNext]_<<mainnetVars, timelockVars>>
  PROVE  [TimelockNext]_timelockVars
<1>1. CASE Close
  BY <1>1 DEF Close, TimelockNext
<1>2. CASE TimelockCalls /\ UNCHANGED mainnetVars
  BY <1>2 DEF TimelockNext
<1>3. ASSUME NEW who \in Signers, NEW o \in Ops, ExecuteOnRegistry(who, o)
      PROVE  [TimelockNext]_timelockVars
  BY <1>3 DEF ExecuteOnRegistry, TimelockNext
<1>4. CASE UNCHANGED timelockVars
  BY <1>4
<1> QED
  BY <1>1, <1>2, <1>3, <1>4 DEF DeploymentNext, OperateDirectly

LEMMA DeploymentKeepsRegistry ==
  ASSUME MainnetInv, [DeploymentNext]_<<mainnetVars, timelockVars>>
  PROVE  MainnetInv'
<1>1. CASE Close
  BY <1>1, TickKeeps DEF Close
<1>2. CASE UNCHANGED mainnetVars \/ UserNext \/ RoleOfferLapses
  BY <1>2, MainnetStep DEF MainnetNext
<1>3. ASSUME NEW who \in Signers, NEW o \in Ops, ExecuteOnRegistry(who, o)
      PROVE  MainnetInv'
  <2>1. TargetOf[o] = Registry /\ RegistryCall(Self, CallOf[o])
    BY <1>3 DEF ExecuteOnRegistry
  <2>2. Self \in Accounts /\ CallOf[o] \in PolicyCalls \cup AccessCalls
    BY <2>1, TimelockAssumption, GovernanceAssumption
  <2> QED
    BY <2>1, <2>2, RegistryCallKeeps
<1>4. CASE OperateDirectly
  <2>1. PICK who \in Signers, c \in OperatorCalls : RegistryCall(who, c)
    BY <1>4 DEF OperateDirectly
  <2>2. who \in Accounts /\ c \in PolicyCalls \cup AccessCalls
    BY MainnetAssumption DEF Signers
  <2> QED
    BY <2>1, <2>2, RegistryCallKeeps
<1> QED
  BY <1>1, <1>2, <1>3, <1>4 DEF DeploymentNext

\* With the profile in place nobody but the timelock changes what it says,
\* and of the registry's own calls only the stop and its lifting are open.
LEMMA ProfileResistsRegistryCalls ==
  ASSUME MainnetTypeOK, Profile, NEW who \in Signers,
         NEW c \in PolicyCalls \cup AccessCalls, RegistryCall(who, c),
         UNCHANGED timelockVars
  PROVE  Profile' /\ wasm' = wasm /\ allowed' = allowed
<1>1. /\ who \in Accounts /\ who # Self /\ who # Nobody
      /\ regRoles \in Access
      /\ {"assetpol", "upgrader"} \subseteq Roles
  BY AccessAssumption, MainnetAssumption DEF Signers, MainnetTypeOK
<1>2. /\ tlRoles.admin = Self /\ tlRoles.offered = Nobody
      /\ regRoles.admin = Self /\ regRoles.offered = Nobody
      /\ \A r \in {"assetpol", "upgrader"} :
           regRoles.holders[r] = {Self} /\ regRoles.manager[r] = NoRole
  BY DEF Profile
<1>3. UNCHANGED tlRoles
  BY DEF timelockVars
<1>4. CASE UNCHANGED <<regRoles, wasm, allowed>>
  BY <1>3, <1>4 DEF Profile
<1>5. CASE ManageRoles(who, c)
  <2>1. /\ AccessCall(regRoles, regRoles', who, c)
        /\ UNCHANGED <<wasm, allowed>>
    BY <1>5 DEF ManageRoles
  <2>2. c \in AccessCalls
    BY <2>1, ManagesByAccessCall
  <2>3. \A r \in {"assetpol", "upgrader"} : ~MayManage(regRoles, who, r)
    BY <1>1, <1>2 DEF MayManage
  <2>4. /\ regRoles'.admin = regRoles.admin
        /\ regRoles'.offered = regRoles.offered
        /\ regRoles'.manager = regRoles.manager
    BY <1>1, <1>2, <2>1 DEF AccessCall, Access
  <2>5. ASSUME NEW r \in {"assetpol", "upgrader"}
        PROVE  regRoles'.holders[r] = regRoles.holders[r]
    <3>1. who \notin regRoles.holders[r] /\ ~MayManage(regRoles, who, r)
      BY <1>1, <1>2, <2>3
    <3>2. regRoles.holders \in [Roles -> SUBSET Accounts]
      BY <1>1 DEF Access
    <3>3. CASE c.fn = "grant_role" \/ c.fn = "revoke_role"
      <4>1. c.role # r
        BY <2>1, <3>1, <3>3 DEF AccessCall
      <4> QED
        BY <1>1, <2>1, <3>2, <3>3, <4>1 DEF AccessCall, Access
    <3>4. CASE c.fn = "renounce_role"
      <4>1. c.role # r
        BY <2>1, <3>1, <3>4 DEF AccessCall, HasRole
      <4> QED
        BY <1>1, <2>1, <3>2, <3>4, <4>1 DEF AccessCall, Access
    <3>5. CASE c.fn \notin {"grant_role", "revoke_role", "renounce_role"}
      BY <1>1, <2>1, <3>5 DEF AccessCall, Access
    <3> QED
      BY <3>3, <3>4, <3>5
  <2> QED
    BY <1>2, <1>3, <2>1, <2>4, <2>5 DEF Profile
<1>6. ~SetAssetAllowed(who, c.asset, c.allow) /\ ~Upgrade(who, c.wasm_hash)
  BY <1>1, <1>2 DEF SetAssetAllowed, Upgrade, HasRole
<1> QED
  BY <1>4, <1>5, <1>6 DEF RegistryCall, Pause, Unpause

\* Nor, at the timelock, does anybody else.
LEMMA ProfileResistsOwnCalls ==
  ASSUME TimelockTypeOK, tlRoles.admin = Self, tlRoles.offered = Nobody,
         NEW who \in Signers, NEW c, OwnCall(who, c)
  PROVE  /\ minDelay' = minDelay
         /\ tlRoles'.admin = Self /\ tlRoles'.offered = Nobody
<1>1. /\ who # Self /\ who # Nobody /\ tlRoles \in Access
  BY AccessAssumption DEF Signers, TimelockTypeOK
<1>2. AccessCall(tlRoles, tlRoles', who, c) /\ UNCHANGED minDelay
  BY <1>1 DEF OwnCall
<1> QED
  BY <1>1, <1>2 DEF AccessCall, Access

\* An assurance, once given, holds until its ledger: nothing that could break
\* it is enabled before.
LEMMA AssuranceHolds ==
  ASSUME MainnetInv, TimelockInv, NEW b \in Nat, AssuredTo(b),
         [DeploymentNext]_<<mainnetVars, timelockVars>>
  PROVE  /\ AssuredTo(b)'
         /\ wasm' # wasm \/ allowed' # allowed => ledger >= b
<1>1. ledger \in Nat /\ minDelay \in Nat
  BY NoticeIsNat DEF TimelockInv
<1>2. CASE Close
  <2>1. /\ ledger' = ledger + 1
        /\ UNCHANGED <<minDelay, tlRoles, readyAt, regRoles, wasm, allowed>>
    BY <1>2 DEF Close, LedgerCloses, Tick, opVars, policyVars
  <2>2. AssuredTo(b)'
    BY <1>1, <2>1 DEF AssuredTo, Profile, Pending
  <2> QED
    BY <2>1, <2>2
<1>3. CASE UNCHANGED <<ledger, minDelay, tlRoles, readyAt, regRoles, wasm, allowed>>
  BY <1>3 DEF AssuredTo, Profile, Pending
<1>4. CASE ledger >= b /\ ledger' = ledger
  BY <1>1, <1>4 DEF AssuredTo
<1> DEFINE Quietly ==
             /\ ledger < b /\ Profile
             /\ \A o \in Pending : readyAt[o] >= b
             /\ ledger + minDelay >= b
<1>5. ledger < b => Quietly
  BY DEF AssuredTo
<1>6. ASSUME Quietly, NEW o \in Ops
      PROVE  ~Runnable(o)
  <2>1. o \in Pending => readyAt[o] \in Nat
    BY DEF TimelockInv, TimelockTypeOK, Pending
  <2> QED
    BY <1>1, <1>6, <2>1 DEF Runnable
<1>7. ASSUME Quietly, TimelockCalls, UNCHANGED mainnetVars
      PROVE  AssuredTo(b)' /\ wasm' = wasm /\ allowed' = allowed
  <2>1. UNCHANGED <<regRoles, wasm, allowed>>
    BY <1>7 DEF mainnetVars, policyVars
  <2>2. ASSUME NEW who \in Signers, NEW o \in Ops, NEW d \in Delays,
               Schedule(who, o, d)
        PROVE  AssuredTo(b)'
    <3>1. /\ d >= minDelay /\ d \in Nat
          /\ readyAt' = [k \in Pending \cup {o} |->
                           IF k = o THEN ledger + d ELSE readyAt[k]]
          /\ UNCHANGED <<ledger, minDelay, tlRoles>>
      BY <2>2, TimelockAssumption DEF Schedule, LongEnough
    <3>2. ledger + d >= b
      BY <1>1, <1>7, <3>1
    <3>3. \A k \in Pending' : readyAt'[k] >= b
      BY <1>7, <3>1, <3>2 DEF Pending
    <3> QED
      BY <1>7, <2>1, <3>1, <3>3 DEF AssuredTo, Profile
  <2>3. ASSUME NEW who \in Signers, NEW o \in Ops, Cancel(who, o)
        PROVE  AssuredTo(b)'
    <3>1. /\ Unscheduled(o) /\ UNCHANGED <<ledger, minDelay, tlRoles>>
      BY <2>3 DEF Cancel
    <3>2. \A k \in Pending' : readyAt'[k] >= b
      BY <1>7, <3>1, UnscheduledDrops DEF TimelockInv
    <3> QED
      BY <1>7, <2>1, <3>1, <3>2 DEF AssuredTo, Profile
  <2>4. ASSUME NEW who \in Signers, NEW o \in Ops, CallAsSelf(who, o)
        PROVE  FALSE
    BY <1>6, <1>7, <2>4 DEF CallAsSelf, CheckAuth
  <2>5. ASSUME NEW who \in Signers, NEW c \in OwnCalls, CallDirectly(who, c)
        PROVE  AssuredTo(b)'
    <3>1. OwnCall(who, c) /\ UNCHANGED <<ledger, readyAt>>
      BY <2>5 DEF CallDirectly, opVars
    <3>2. /\ minDelay' = minDelay
          /\ tlRoles'.admin = Self /\ tlRoles'.offered = Nobody
      BY <1>7, <3>1, ProfileResistsOwnCalls DEF Profile, TimelockInv
    <3> QED
      BY <1>7, <2>1, <3>1, <3>2 DEF AssuredTo, Profile, Pending
  <2>6. ~TimelockOfferLapses
    BY <1>7 DEF TimelockOfferLapses, OfferLapses, Profile
  <2> QED
    BY <1>7, <2>1, <2>2, <2>3, <2>4, <2>5, <2>6 DEF TimelockCalls
<1>8. ASSUME Quietly, OperateDirectly
      PROVE  AssuredTo(b)' /\ wasm' = wasm /\ allowed' = allowed
  <2>1. PICK who \in Signers, c \in OperatorCalls : RegistryCall(who, c)
    BY <1>8 DEF OperateDirectly
  <2>2. /\ UNCHANGED timelockVars /\ c \in PolicyCalls \cup AccessCalls
    BY <1>8, MainnetAssumption DEF OperateDirectly
  <2>3. Profile' /\ wasm' = wasm /\ allowed' = allowed
    BY <1>8, <2>1, <2>2, ProfileResistsRegistryCalls DEF MainnetInv
  <2>4. UNCHANGED <<ledger, minDelay, readyAt>>
    BY <2>2 DEF timelockVars, opVars
  <2> QED
    BY <1>8, <2>3, <2>4 DEF AssuredTo, Pending
<1>9. ASSUME NEW who \in Signers, NEW o \in Ops, ExecuteOnRegistry(who, o)
      PROVE  ~Quietly /\ ledger' = ledger
  BY <1>6, <1>9 DEF ExecuteOnRegistry, Execute
<1>10. CASE (UserNext \/ RoleOfferLapses) /\ UNCHANGED timelockVars
  <2>1. CASE UserNext
    BY <1>3, <1>10, <2>1 DEF UserNext, RegisterMandate, RevokeMandate,
       ExecutePayment, SetFunds, policyVars, timelockVars, opVars
  <2>2. CASE RoleOfferLapses
    <3>1. regRoles.offered # Nobody /\ UNCHANGED <<wasm, allowed>>
      BY <2>2 DEF RoleOfferLapses, OfferLapses
    <3>2. ~Quietly
      BY <3>1 DEF Profile
    <3>3. ledger' = ledger
      BY <1>10 DEF timelockVars
    <3> QED
      BY <1>1, <1>4, <1>5, <3>2, <3>3
  <2> QED
    BY <1>10, <2>1, <2>2
<1>11. CASE TimelockCalls /\ UNCHANGED mainnetVars
  <2>1. UNCHANGED <<ledger, wasm, allowed>>
    BY <1>11 DEF TimelockCalls, Schedule, Cancel, CallAsSelf, CallDirectly,
                 TimelockOfferLapses, mainnetVars, policyVars
  <2> QED
    BY <1>1, <1>4, <1>5, <1>7, <1>11, <2>1
<1>12. CASE OperateDirectly
  <2>1. UNCHANGED ledger
    BY <1>12 DEF OperateDirectly, timelockVars
  <2> QED
    BY <1>1, <1>4, <1>5, <1>8, <1>12, <2>1
<1>13. CASE UNCHANGED <<mainnetVars, timelockVars>>
  BY <1>3, <1>13 DEF mainnetVars, timelockVars, policyVars, opVars
<1>14. ASSUME NEW who \in Signers, NEW o \in Ops, ExecuteOnRegistry(who, o)
       PROVE  /\ AssuredTo(b)'
              /\ wasm' # wasm \/ allowed' # allowed => ledger >= b
  BY <1>1, <1>4, <1>5, <1>9, <1>14
<1> HIDE DEF Quietly
<1> QED
  BY <1>2, <1>10, <1>11, <1>12, <1>13, <1>14 DEF DeploymentNext

\* A look gives an assurance that holds, and keeps the one given before.
LEMMA LookAssures ==
  ASSUME TimelockInv, assuredUntil \in Nat, AssuredTo(assuredUntil), Look,
         NEW b, b = assuredUntil'
  PROVE  b \in Nat /\ AssuredTo(b)
<1>1. ledger \in Nat /\ minDelay \in Nat
  BY NoticeIsNat DEF TimelockInv
<1>2. CASE Assured > assuredUntil
  <2>1. b = Assured
    BY <1>2 DEF Look
  <2>2. Profile /\ Quiet /\ Assured = ledger + minDelay
    BY <1>1, <1>2 DEF Assured
  <2> QED
    BY <1>1, <2>1, <2>2 DEF AssuredTo, Quiet
<1>3. CASE ~(Assured > assuredUntil)
  BY <1>3 DEF Look
<1> QED
  BY <1>2, <1>3

LEMMA GovernanceInitInv == GovernanceInit => GovernanceInv
<1> SUFFICES ASSUME GovernanceInit
             PROVE  GovernanceInv
  OBVIOUS
<1>1. MainnetInv /\ TimelockInv
  BY MainnetInitInv, TimelockInitInv DEF GovernanceInit
<1>2. assuredUntil = 0 /\ ledger = 0
  BY DEF GovernanceInit, TimelockInit
<1> QED
  BY <1>1, <1>2 DEF GovernanceInv, AssuredTo

\* What a step does: it keeps the invariant, and changes neither the code nor
\* the list inside an assurance.
LEMMA GovernanceStep ==
  ASSUME GovernanceInv, [GovernanceNext]_governanceVars
  PROVE  /\ GovernanceInv'
         /\ UNCHANGED governanceVars
            \/ (wasm' # wasm \/ allowed' # allowed => ledger >= assuredUntil')
<1>1. CASE GovernanceNext
  <2>1. DeploymentNext /\ Look
    BY <1>1 DEF GovernanceNext
  <2>2. PICK b : b = assuredUntil'
    OBVIOUS
  <2>3. b \in Nat /\ AssuredTo(b)
    BY <2>1, <2>2, LookAssures DEF GovernanceInv
  <2>4. /\ AssuredTo(b)'
        /\ wasm' # wasm \/ allowed' # allowed => ledger >= b
    BY <2>1, <2>3, AssuranceHolds DEF GovernanceInv
  <2>5. MainnetInv' /\ TimelockInv'
    BY <2>1, DeploymentKeepsRegistry, DeploymentIsTimelockStep, TimelockStep
    DEF GovernanceInv
  <2>6. AssuredTo(assuredUntil)'
    BY <2>2, <2>4 DEF AssuredTo
  <2> QED
    BY <2>2, <2>3, <2>4, <2>5, <2>6 DEF GovernanceInv
<1>2. CASE UNCHANGED governanceVars
  <2>1. UNCHANGED <<mainnetVars, timelockVars, assuredUntil>>
    BY <1>2 DEF governanceVars
  <2>2. MainnetInv' /\ TimelockInv'
    BY <2>1, DeploymentKeepsRegistry, DeploymentIsTimelockStep, TimelockStep
    DEF GovernanceInv
  <2>3. AssuredTo(assuredUntil)'
    BY <2>1 DEF GovernanceInv, AssuredTo, Profile, Pending, mainnetVars,
                timelockVars, policyVars, opVars
  <2> QED
    BY <1>2, <2>1, <2>2, <2>3 DEF GovernanceInv
<1> QED
  BY <1>1, <1>2

LEMMA GovernanceInvariance == GovernanceSpec => []GovernanceInv
<1>1. GovernanceInv /\ [GovernanceNext]_governanceVars => GovernanceInv'
  BY GovernanceStep
<1> QED
  BY <1>1, GovernanceInitInv, PTL DEF GovernanceSpec

\* Both contracts keep their types when they work together.
THEOREM GovernanceTypeCorrect == GovernanceSpec => []GovernanceTypeOK
<1>1. GovernanceInv => GovernanceTypeOK
  BY DEF GovernanceInv, GovernanceTypeOK, MainnetInv, TimelockInv
<1> QED
  BY <1>1, GovernanceInvariance, PTL

\* The notice of the deployment: a user who sees the profile in place and
\* nothing pending can rely on the code and on the list until the delay then
\* in force has passed, whoever signs what in between.
THEOREM DeploymentGivesNotice == GovernanceSpec => GovernanceNotice
<1>1. GovernanceInv /\ [GovernanceNext]_governanceVars
        => [wasm' # wasm \/ allowed' # allowed
              => ledger >= assuredUntil']_governanceVars
  BY GovernanceStep
<1> QED
  BY <1>1, GovernanceInvariance, PTL DEF GovernanceSpec, GovernanceNotice
=============================================================================
