--------------------------- MODULE SimpleRegistry ---------------------------
(***************************************************************************)
(* The simple mandate registry: a user grants an agent the right to pay    *)
(* one merchant, and execute_payment is the only way money moves.  It runs *)
(* under the administration plane of AdminPlane (the file differs from the *)
(* composite's in the delay only).                                         *)
(*                                                                         *)
(* One action is one transaction; a call that fails, its transfer_from     *)
(* included, changes nothing and is no step.  The agent is kept, unlike in *)
(* Composite, because it may be a contract with rules of its own.          *)
(***************************************************************************)
EXTENDS AdminPlane

CONSTANTS
  Users,        \* accounts that grant mandates
  Agents,       \* accounts and contracts that may be a mandate's agent
  Merchants,    \* accounts that are paid
  Assets,       \* token contracts
  MandateIds,   \* vc_hash values
  TermsFor,     \* id -> parameter tuples register_mandate may get
  Amounts,      \* payment amounts a caller asks for
  Funds,        \* bound: what a user's other dealings leave spendable
  MaxSeq        \* bound: the largest expected_seq a call carries

MandateParams ==
  [user : Users, agent : Agents, merchant : Merchants, asset : Assets,
   max_amount : Int, expiry : Nat]

ASSUME SimpleAssumption ==
  /\ TermsFor \in [MandateIds -> SUBSET MandateParams]
  /\ Amounts \subseteq Int
  /\ Funds \subseteq Nat
  /\ MaxSeq \in Nat

VARIABLES
  mandates,   \* storage: registered id -> mandate
  funds,      \* tokens: asset -> user -> what transfer_from can move, the
              \*   smaller of balance and allowance, 0 while frozen
  paid,       \* history: id -> total transferred under the mandate
  usedSeqs    \* history: id -> sequence numbers of its transfers

ledgerVars == <<mandates, funds, paid, usedSeqs>>

Mandate ==
  [terms : MandateParams, spent : Nat, seq : Nat,
   status : {"Active", "Revoked", "Exhausted"}]

SimpleTypeOK ==
  /\ AdminTypeOK
  /\ DOMAIN mandates \subseteq MandateIds
  /\ mandates \in [DOMAIN mandates -> Mandate]
  /\ funds \in [Assets -> [Users -> Nat]]
  /\ paid \in [MandateIds -> Nat]
  /\ usedSeqs \in [MandateIds -> SUBSET Nat]

SimpleInit ==
  /\ AdminInit
  /\ mandates = <<>>
  /\ funds \in [Assets -> [Users -> Funds]]
  /\ paid = [m \in MandateIds |-> 0]
  /\ usedSeqs = [m \in MandateIds |-> {}]

Terms(m) == mandates[m].terms

-----------------------------------------------------------------------------
NewMandate(t) == [terms |-> t, spent |-> 0, seq |-> 0, status |-> "Active"]

\* Fault: an id may be registered again, with other terms.
IdNeverTaken(m) == FALSE

\* has_mandate
IdIsTaken(m) == m \in DOMAIN mandates

RegisterMandate(m, t) ==
  /\ t.max_amount > 0
  /\ t.expiry > now
  /\ ~IdIsTaken(m)
  /\ mandates' = [k \in DOMAIN mandates \cup {m} |->
                    IF k = m THEN NewMandate(t) ELSE mandates[k]]
  /\ UNCHANGED <<now, adminVars, funds, paid, usedSeqs>>

\* From any status, for good.
RevokeMandate(m) ==
  /\ m \in DOMAIN mandates
  /\ mandates' = [mandates EXCEPT ![m].status = "Revoked"]
  /\ UNCHANGED <<now, adminVars, funds, paid, usedSeqs>>

\* Fault: a mandate that is not exhausted may pay, a revoked one too.
CheckIgnoringRevocation(m, amount) ==
  /\ amount > 0
  /\ mandates[m].status # "Exhausted"
  /\ now < Terms(m).expiry
  /\ mandates[m].spent + amount <= Terms(m).max_amount

\* Every check a payment is subject to.
Check(m, amount) ==
  /\ amount > 0
  /\ mandates[m].status = "Active"
  /\ now < Terms(m).expiry
  /\ mandates[m].spent + amount <= Terms(m).max_amount

\* Fault: the status is not updated when the budget is used up.
AdvancedNeverExhausted(row, amount) ==
  [row EXCEPT !.spent = @ + amount, !.seq = @ + 1]

\* The row after a payment.
Advanced(row, amount) ==
  [row EXCEPT !.spent = @ + amount,
              !.seq = @ + 1,
              !.status = IF row.spent + amount = row.terms.max_amount
                         THEN "Exhausted" ELSE @]

\* The caller must be the mandate's agent.
ExecutePayment(caller, m, amount, expectedSeq) ==
  /\ ~paused
  /\ m \in DOMAIN mandates
  /\ caller = Terms(m).agent
  /\ expectedSeq = mandates[m].seq
  /\ Check(m, amount)
  /\ amount <= funds[Terms(m).asset][Terms(m).user]
  /\ mandates' = [mandates EXCEPT ![m] = Advanced(@, amount)]
  /\ funds' = [funds EXCEPT ![Terms(m).asset][Terms(m).user] = @ - amount]
  /\ paid' = [paid EXCEPT ![m] = @ + amount]
  /\ usedSeqs' = [usedSeqs EXCEPT ![m] = @ \cup {expectedSeq}]
  /\ UNCHANGED <<now, adminVars>>

\* A user approves, receives or spends elsewhere, or is frozen (external).
SetFunds(a, u, n) ==
  /\ funds' = [funds EXCEPT ![a][u] = n]
  /\ UNCHANGED <<now, adminVars, mandates, paid, usedSeqs>>

-----------------------------------------------------------------------------
Housekeeping ==
  \/ (Tick \/ AdminNext) /\ UNCHANGED ledgerVars
  \/ \E a \in Assets, u \in Users, n \in Funds : SetFunds(a, u, n)
  \/ \E m \in MandateIds : \E t \in TermsFor[m] : RegisterMandate(m, t)
  \/ \E m \in MandateIds : RevokeMandate(m)

\* What callers among the given agents may do.
Payments(callers) ==
  \E c \in callers, m \in MandateIds, amount \in Amounts, n \in 0 .. MaxSeq :
    ExecutePayment(c, m, amount, n)

SimpleNext == Housekeeping \/ Payments(Agents)

SimpleSpec == SimpleInit /\ [][SimpleNext]_<<now, adminVars, ledgerVars>>

-----------------------------------------------------------------------------
(* Properties. *)

\* The books match the money: what a mandate has spent is what the token
\* moved under it, within the budget; each sequence number below the counter
\* stands for one transfer; and the status says when the budget is used up.
\* (execute_payment)
BooksMatchTransfers ==
  \A m \in DOMAIN mandates :
    /\ mandates[m].spent = paid[m]
    /\ paid[m] <= Terms(m).max_amount
    /\ usedSeqs[m] = 0 .. mandates[m].seq - 1
    /\ mandates[m].seq <= paid[m]
    /\ mandates[m].status = "Exhausted" => paid[m] = Terms(m).max_amount
    /\ mandates[m].status = "Active" => paid[m] < Terms(m).max_amount

\* What the mandates promise: every unit moved under a mandate is within its
\* budget, before its expiry and before its revocation.
Authority == INSTANCE SpendAuthority WITH
  Ids     <- MandateIds,
  clock   <- now,
  limit   <- [m \in DOMAIN mandates |-> Terms(m).max_amount],
  expiry  <- [m \in DOMAIN mandates |-> Terms(m).expiry],
  moved   <- paid,
  revoked <- {m \in DOMAIN mandates : mandates[m].status = "Revoked"}

RefinesAuthority == Authority!Spec
=============================================================================
