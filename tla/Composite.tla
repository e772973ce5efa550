----------------------------- MODULE Composite ------------------------------
(***************************************************************************)
(* The composite mandate registry: mandates a user signs for an agent,     *)
(* clearing pools that merchants' originators open, and the two paths that *)
(* move a user's money, the solo payment and the pool capture.             *)
(*                                                                         *)
(* One action is one transaction.  A call that returns an error, or traps, *)
(* changes nothing, so an action's guard is the conjunction of the call's  *)
(* checks, and the host's require_auth is taken as passed.  Addresses that *)
(* only sign (agent, originator) are therefore not in the state.           *)
(***************************************************************************)
EXTENDS AdminPlane, Clearing, SequencesExt

CONSTANTS
  Users,                  \* accounts that grant mandates
  Merchants,              \* accounts that are paid
  Assets,                 \* token contracts
  MandateIds,             \* vc_hash values
  PoolIds,                \* hashes of pool terms
  NoPool,                 \* pool_id of a standalone mandate
  TermsFor,               \* id -> parameter tuples register_mandate may get
  PoolTerms,              \* pool id -> the terms it is the hash of
  Amounts,                \* payment amounts an agent asks for
  Balances,               \* bound: balances a user's other transfers leave
  Allowances,             \* bound: allowances a user approves
  Lapses,                 \* bound: instants until which it approves them
  Freezable,              \* bound: accounts an issuer may freeze
  MAX_POOL_MEMBERS,       \* members a pool may have
  CAPTURE_WINDOW_SECS,    \* how long after the deadline a capture is valid
  MAX_POOL_HORIZON_SECS,  \* longest life of a pool
  MaxU32                  \* largest value of the payment counter

MandateParams ==
  [user : Users, merchant : Merchants, asset : Assets, max_amount : Int,
   expiry : Nat, pool_id : PoolIds \cup {NoPool},
   price_schedule : Seq(SchedulePoint)]

PoolParams ==
  [merchant : Merchants, asset : Assets, threshold_qty : Nat,
   threshold_value : Nat, min_child_value : Nat, clearing_deadline : Nat]

ASSUME CompositeAssumption ==
  /\ NoPool \notin PoolIds
  /\ TermsFor \in [MandateIds -> SUBSET MandateParams]
  /\ PoolTerms \in [PoolIds -> PoolParams]
  /\ Amounts \subseteq Int
  /\ Balances \subseteq Nat
  /\ Allowances \subseteq Nat
  /\ Lapses \subseteq Nat
  /\ Freezable \subseteq Users \cup Merchants
  /\ MAX_POOL_MEMBERS \in Nat
  /\ CAPTURE_WINDOW_SECS \in Nat
  /\ MAX_POOL_HORIZON_SECS \in Nat
  /\ MaxU32 \in Nat

VARIABLES
  mandates,       \* storage: registered id -> mandate
  pools,          \* storage: registered id -> [status, member_count]
  members,        \* storage: pool id -> list of member ids
  balance,        \* tokens: asset -> user -> balance
  allowance,      \* tokens: asset -> user -> allowance to this contract
  approvedUntil,  \* tokens: asset -> user -> its last instant
  authorized,     \* tokens: asset -> account -> trustline authorised
  paid,           \* history: id -> total transferred under the mandate
  usedSeqs        \* history: id -> sequence numbers of its transfers

poolVars  == <<mandates, pools, members>>
tokenVars == <<balance, allowance, approvedUntil, authorized>>
trail     == <<paid, usedSeqs>>
vars == <<now, adminVars, poolVars, tokenVars, trail>>

Mandate ==
  [terms : MandateParams, spent : Nat, seq : 0 .. MaxU32,
   status : {"Active", "Revoked", "Exhausted"},
   pool_state : {"Unlinked", "Committed", "Captured", "Released"}]

Pool == [status : {"Open", "Cleared", "Aborted"}, member_count : Nat]

TypeOK ==
  /\ AdminTypeOK
  /\ DOMAIN mandates \subseteq MandateIds
  /\ mandates \in [DOMAIN mandates -> Mandate]
  /\ DOMAIN pools \subseteq PoolIds
  /\ pools \in [DOMAIN pools -> Pool]
  /\ members \in [PoolIds -> Seq(MandateIds)]
  /\ balance \in [Assets -> [Users -> Nat]]
  /\ allowance \in [Assets -> [Users -> Nat]]
  /\ approvedUntil \in [Assets -> [Users -> Nat]]
  /\ authorized \in [Assets -> [Users \cup Merchants -> BOOLEAN]]
  /\ paid \in [MandateIds -> Nat]
  /\ usedSeqs \in [MandateIds -> SUBSET Nat]

Init ==
  /\ AdminInit
  /\ mandates = <<>>
  /\ pools = <<>>
  /\ members = [p \in PoolIds |-> <<>>]
  /\ balance \in [Assets -> [Users -> Balances]]
  /\ allowance = [a \in Assets |-> [u \in Users |-> 0]]
  /\ approvedUntil = [a \in Assets |-> [u \in Users |-> 0]]
  /\ authorized = [a \in Assets |-> [x \in Users \cup Merchants |-> TRUE]]
  /\ paid = [m \in MandateIds |-> 0]
  /\ usedSeqs = [m \in MandateIds |-> {}]

-----------------------------------------------------------------------------
\* Reading the stored rows.

IsOpen(p)      == p \in DOMAIN pools /\ pools[p].status = "Open"
Deadline(p)    == PoolTerms[p].clearing_deadline
WindowEnd(p)   == Deadline(p) + CAPTURE_WINDOW_SECS
Terms(m)       == mandates[m].terms
ScheduleOf(m)  == Terms(m).price_schedule
UserOf(m)      == Terms(m).user
Remaining(m)   == Terms(m).max_amount - mandates[m].spent
IsCommitted(m) == mandates[m].pool_state = "Committed"

MembersOf(p) == {members[p][i] : i \in DOMAIN members[p]}

\* What token.allowance reads: nothing once the approval has lapsed.
Allowed(u, a) == IF now <= approvedUntil[a][u] THEN allowance[a][u] ELSE 0

\* Fault: the balance is not looked at.
CanPayByAllowance(u, a, n) == Allowed(u, a) >= n /\ authorized[a][u]

\* The user can be charged up to n right now: allowance, balance, trustline.
CanPay(u, a, n) ==
  /\ Allowed(u, a) >= n
  /\ balance[a][u] >= n
  /\ authorized[a][u]

-----------------------------------------------------------------------------
\* Registration.

\* The pool id is a hash of the terms, so an id has one set of terms.
RegisterPool(p) ==
  LET t == PoolTerms[p]
  IN  /\ p \notin DOMAIN pools
      /\ t.threshold_qty # 0 \/ t.threshold_value # 0
      /\ t.threshold_qty <= MAX_POOL_MEMBERS * MAX_QTY
      /\ t.threshold_value <= MAX_POOL_MEMBERS * MAX_UNIT_PRICE * MAX_QTY
      /\ t.min_child_value <= MAX_UNIT_PRICE * MAX_QTY
      /\ now < t.clearing_deadline
      /\ WindowEnd(p) - now <= MAX_POOL_HORIZON_SECS
      /\ pools' = [q \in DOMAIN pools \cup {p} |->
                     IF q = p THEN [status |-> "Open", member_count |-> 0]
                              ELSE pools[q]]
      /\ members' = [members EXCEPT ![p] = <<>>]
      /\ UNCHANGED <<now, adminVars, mandates, tokenVars, trail>>

\* Fault: the child need only outlive the deadline, not the capture window.
FitsPoolUntilDeadline(t) ==
  LET p == t.pool_id
  IN  /\ IsOpen(p)
      /\ now < Deadline(p)
      /\ t.merchant = PoolTerms[p].merchant
      /\ t.asset = PoolTerms[p].asset
      /\ ValidSchedule(t.price_schedule)
      /\ WorstCase(t.price_schedule) <= t.max_amount
      /\ WorstCase(t.price_schedule) >= PoolTerms[p].min_child_value
      /\ t.expiry > Deadline(p)

\* The compatibility rules a pooled mandate is signed under.
FitsPool(t) ==
  LET p == t.pool_id
  IN  /\ IsOpen(p)
      /\ now < Deadline(p)
      /\ t.merchant = PoolTerms[p].merchant
      /\ t.asset = PoolTerms[p].asset
      /\ ValidSchedule(t.price_schedule)
      /\ WorstCase(t.price_schedule) <= t.max_amount
      /\ WorstCase(t.price_schedule) >= PoolTerms[p].min_child_value
      /\ t.expiry > WindowEnd(p)

NewMandate(t) ==
  [terms |-> t, spent |-> 0, seq |-> 0, status |-> "Active",
   pool_state |-> "Unlinked"]

RegisterMandate(m, t) ==
  /\ t.max_amount > 0
  /\ t.expiry > now
  /\ m \notin DOMAIN mandates
  /\ IF t.pool_id = NoPool THEN t.price_schedule = <<>> ELSE FitsPool(t)
  /\ mandates' = [k \in DOMAIN mandates \cup {m} |->
                    IF k = m THEN NewMandate(t) ELSE mandates[k]]
  /\ UNCHANGED <<now, adminVars, pools, members, tokenVars, trail>>

-----------------------------------------------------------------------------
\* Membership.

\* Fault: whoever heads the list is removed.
WithoutHead(list, m) == IF list = <<>> THEN list ELSE Tail(list)

\* The list without the first occurrence of m.
Without(list, m) == RemoveFirst(list, m)

\* saturating_sub(1)
OneFewer(n) == IF n = 0 THEN 0 ELSE n - 1

\* Fault: the slot is not freed.
DropMemberKeepingSlot(p, m) ==
  /\ members' = [members EXCEPT ![p] = Without(@, m)]
  /\ UNCHANGED pools

\* Take m off the list of p and free its slot.
DropMember(p, m) ==
  /\ members' = [members EXCEPT ![p] = Without(@, m)]
  /\ pools' = [pools EXCEPT ![p].member_count = OneFewer(@)]

\* A committed child of an open pool leaves it; any other keeps its linkage.
RevokeMandate(m) ==
  /\ m \in DOMAIN mandates
  /\ \/ /\ IsCommitted(m) /\ IsOpen(Terms(m).pool_id)
        /\ DropMember(Terms(m).pool_id, m)
        /\ mandates' = [mandates EXCEPT ![m].status = "Revoked",
                                        ![m].pool_state = "Released"]
     \/ /\ ~(IsCommitted(m) /\ IsOpen(Terms(m).pool_id))
        /\ mandates' = [mandates EXCEPT ![m].status = "Revoked"]
        /\ UNCHANGED <<pools, members>>
  /\ UNCHANGED <<now, adminVars, tokenVars, trail>>

\* Fault: only the same mandate counts as a duplicate.
IsDuplicateMandate(p, m) == m \in MembersOf(p)

\* At most one committed child per user and pool.
IsDuplicate(p, m) ==
  \E k \in MembersOf(p) : IsCommitted(k) /\ UserOf(k) = UserOf(m)

CommitChild(m) ==
  LET p  == Terms(m).pool_id
      wc == WorstCase(ScheduleOf(m))
  IN  /\ m \in DOMAIN mandates
      /\ p # NoPool
      /\ mandates[m].status = "Active"
      /\ now < Terms(m).expiry
      /\ mandates[m].pool_state = "Unlinked"
      /\ IsOpen(p)
      /\ now < Deadline(p)
      /\ pools[p].member_count < MAX_POOL_MEMBERS
      /\ ~IsDuplicate(p, m)
      /\ Remaining(m) >= wc
      /\ CanPay(UserOf(m), PoolTerms[p].asset, wc)
      /\ mandates' = [mandates EXCEPT ![m].pool_state = "Committed"]
      /\ members' = [members EXCEPT ![p] = Append(@, m)]
      /\ pools' = [pools EXCEPT ![p].member_count = @ + 1]
      /\ UNCHANGED <<now, adminVars, tokenVars, trail>>

\* Decided before any price exists, on the worst case of the schedule.
IsEligible(p, m) ==
  LET wc == WorstCase(ScheduleOf(m))
  IN  /\ IsCommitted(m)
      /\ mandates[m].status = "Active"
      /\ now < Terms(m).expiry
      /\ Remaining(m) >= wc
      /\ CanPay(UserOf(m), PoolTerms[p].asset, wc)

EvictChild(p, m) ==
  /\ IsOpen(p)
  /\ m \in DOMAIN mandates
  /\ Terms(m).pool_id = p
  /\ IsCommitted(m)
  /\ ~IsEligible(p, m)
  /\ DropMember(p, m)
  /\ mandates' = [mandates EXCEPT ![m].pool_state = "Released"]
  /\ UNCHANGED <<now, adminVars, tokenVars, trail>>

-----------------------------------------------------------------------------
\* The outcome of a pool now.  Rows are positions in the member list, so that
\* a member listed twice would count, and pay, twice.

\* The fee rate every pool of this build pins.
FEE_BPS_PINNED == 0

Schedules(p) == [i \in DOMAIN members[p] |-> ScheduleOf(members[p][i])]

EligibleRows(p) == {i \in DOMAIN members[p] : IsEligible(p, members[p][i])}

\* Fault: the window's last instant is taken for late.
FiresBeforeWindowEnd(p) ==
  /\ now < WindowEnd(p)
  /\ FiringBreakpoints(Schedules(p), EligibleRows(p),
                       PoolTerms[p].threshold_qty,
                       PoolTerms[p].threshold_value, FEE_BPS_PINNED) # {}

\* Fault: a met pool may be captured at any later time.
FiresForever(p) ==
  FiringBreakpoints(Schedules(p), EligibleRows(p),
                    PoolTerms[p].threshold_qty,
                    PoolTerms[p].threshold_value, FEE_BPS_PINNED) # {}

\* The rows clear() is given: none once the capture window has passed.
Fires(p) ==
  /\ now <= WindowEnd(p)
  /\ FiringBreakpoints(Schedules(p), EligibleRows(p),
                       PoolTerms[p].threshold_qty,
                       PoolTerms[p].threshold_value, FEE_BPS_PINNED) # {}

PriceOf(p) == ClearingPrice(Schedules(p), EligibleRows(p),
                            PoolTerms[p].threshold_qty,
                            PoolTerms[p].threshold_value, FEE_BPS_PINNED)

\* The allocated rows at a price: eligible, and buying something.
Allocations(p, price) ==
  {i \in EligibleRows(p) : Demand(Schedules(p)[i], price) > 0}

\* What each row pays.
Legs(p, price) ==
  [i \in Allocations(p, price) |-> price * Demand(Schedules(p)[i], price)]

Winners(p, price) == {members[p][i] : i \in Allocations(p, price)}

\* The rows whose transfer is drawn on user u.
RowsOfUser(p, price, u) ==
  {i \in Allocations(p, price) : UserOf(members[p][i]) = u}

DebitOf(p, price, u) == Total(Legs(p, price), RowsOfUser(p, price, u))

\* What the transfers made for mandate m add up to.
PaidFor(p, price, m) ==
  Total(Legs(p, price), {i \in Allocations(p, price) : members[p][i] = m})

\* What the effects loop charges member m, once.
ChargeOf(m, price) == price * Demand(ScheduleOf(m), price)

\* The guard of the effects loop that must never fail.
WithinBudgets(p, price) ==
  \A m \in Winners(p, price) : ChargeOf(m, price) <= Remaining(m)

\* No counter of a charged member is at its width, where the increment traps.
CountersAdvance(p, price) ==
  \A m \in Winners(p, price) : mandates[m].seq < MaxU32

\* Every transfer_from of the capture succeeds, one after the other.
TransfersSucceed(p, price) ==
  LET a == PoolTerms[p].asset
  IN  /\ \A i \in Allocations(p, price) : authorized[a][UserOf(members[p][i])]
      /\ Allocations(p, price) # {} => authorized[a][PoolTerms[p].merchant]
      /\ \A u \in Users : /\ DebitOf(p, price, u) <= Allowed(u, a)
                          /\ DebitOf(p, price, u) <= balance[a][u]

-----------------------------------------------------------------------------
\* Closing a pool.

Closable(p) == IsOpen(p) /\ now >= Deadline(p)

\* Fault: only members that could still pay are let go.
ReleaseEligible(p) ==
  [m \in DOMAIN mandates |->
     IF m \in MembersOf(p) /\ IsEligible(p, m)
     THEN [mandates[m] EXCEPT !.pool_state = "Released"]
     ELSE mandates[m]]

\* Every committed member is let go.
ReleaseAll(p) ==
  [m \in DOMAIN mandates |->
     IF m \in MembersOf(p) /\ IsCommitted(m)
     THEN [mandates[m] EXCEPT !.pool_state = "Released"]
     ELSE mandates[m]]

\* No outcome fires.  The emergency stop does not block this.
AbortPool(p) ==
  /\ Closable(p)
  /\ ~Fires(p)
  /\ pools' = [pools EXCEPT ![p].status = "Aborted"]
  /\ mandates' = ReleaseAll(p)
  /\ UNCHANGED <<now, adminVars, members, tokenVars, trail>>

\* Fault: the capture does not advance the payment counter.
CapturedKeepingSeq(m, price) ==
  LET spent == mandates[m].spent + ChargeOf(m, price)
  IN  [mandates[m] EXCEPT
         !.spent = spent,
         !.pool_state = "Captured",
         !.status = IF spent = Terms(m).max_amount THEN "Exhausted" ELSE @]

\* A charged member: spent and seq advance, and the linkage is final.
Captured(m, price) ==
  LET spent == mandates[m].spent + ChargeOf(m, price)
  IN  [mandates[m] EXCEPT
         !.spent = spent,
         !.seq = @ + 1,
         !.pool_state = "Captured",
         !.status = IF spent = Terms(m).max_amount THEN "Exhausted" ELSE @]

\* The capture: effects for every member, then every transfer, or nothing.
CapturePool(p) ==
  /\ Closable(p)
  /\ Fires(p)
  /\ ~paused
  /\ \E price \in {PriceOf(p)} :
       LET a == PoolTerms[p].asset
       IN  /\ WithinBudgets(p, price)
           /\ CountersAdvance(p, price)
           /\ TransfersSucceed(p, price)
           /\ mandates' = [m \in DOMAIN mandates |->
                IF m \notin MembersOf(p) \/ ~IsCommitted(m) THEN mandates[m]
                ELSE IF m \in Winners(p, price) THEN Captured(m, price)
                ELSE [mandates[m] EXCEPT !.pool_state = "Released"]]
           /\ balance' = [balance EXCEPT ![a] =
                [u \in Users |-> @[u] - DebitOf(p, price, u)]]
           /\ allowance' = [allowance EXCEPT ![a] =
                [u \in Users |-> @[u] - DebitOf(p, price, u)]]
           /\ paid' = [m \in MandateIds |-> paid[m] + PaidFor(p, price, m)]
           /\ usedSeqs' = [m \in MandateIds |->
                IF m \in Winners(p, price) THEN usedSeqs[m] \cup {mandates[m].seq}
                                           ELSE usedSeqs[m]]
  /\ pools' = [pools EXCEPT ![p].status = "Cleared"]
  /\ UNCHANGED <<now, adminVars, members, approvedUntil, authorized>>

ClearPool(p) == AbortPool(p) \/ CapturePool(p)

-----------------------------------------------------------------------------
\* The solo path.

\* Fault: a committed child may be spent from.
CheckIgnoringPool(m, amount) ==
  /\ amount > 0
  /\ mandates[m].status = "Active"
  /\ now < Terms(m).expiry
  /\ mandates[m].spent + amount <= Terms(m).max_amount

\* Fault: the instant of expiry still counts as alive.
CheckThroughExpiry(m, amount) ==
  /\ amount > 0
  /\ mandates[m].status = "Active"
  /\ mandates[m].pool_state \in {"Unlinked", "Released"}
  /\ now <= Terms(m).expiry
  /\ mandates[m].spent + amount <= Terms(m).max_amount

\* Every check a payment is subject to.
Check(m, amount) ==
  /\ amount > 0
  /\ mandates[m].status = "Active"
  /\ mandates[m].pool_state \in {"Unlinked", "Released"}
  /\ now < Terms(m).expiry
  /\ mandates[m].spent + amount <= Terms(m).max_amount

ExecutePayment(m, amount, expectedSeq) ==
  LET a     == Terms(m).asset
      u     == UserOf(m)
      spent == mandates[m].spent + amount
  IN  /\ ~paused
      /\ m \in DOMAIN mandates
      /\ expectedSeq = mandates[m].seq
      /\ Check(m, amount)
      /\ expectedSeq < MaxU32
      /\ CanPay(u, a, amount)
      /\ authorized[a][Terms(m).merchant]
      /\ mandates' = [mandates EXCEPT
           ![m].spent = spent,
           ![m].seq = @ + 1,
           ![m].status = IF spent = Terms(m).max_amount THEN "Exhausted" ELSE @]
      /\ balance' = [balance EXCEPT ![a][u] = @ - amount]
      /\ allowance' = [allowance EXCEPT ![a][u] = @ - amount]
      /\ paid' = [paid EXCEPT ![m] = @ + amount]
      /\ usedSeqs' = [usedSeqs EXCEPT ![m] = @ \cup {expectedSeq}]
      /\ UNCHANGED <<now, adminVars, pools, members, approvedUntil, authorized>>

-----------------------------------------------------------------------------
\* The token contracts, driven by users and issuers (external).

\* A user approves an allowance until a ledger that has not passed, or
\* withdraws it.  Afterwards time alone makes it lapse.
Approve(a, u, n, until) ==
  /\ n = 0 \/ until >= now
  /\ allowance' = [allowance EXCEPT ![a][u] = n]
  /\ approvedUntil' = [approvedUntil EXCEPT ![a][u] = IF n = 0 THEN 0 ELSE until]
  /\ UNCHANGED <<now, adminVars, poolVars, balance, authorized, trail>>

\* A user's other transfers.
SetBalance(a, u, n) ==
  /\ balance' = [balance EXCEPT ![a][u] = n]
  /\ UNCHANGED <<now, adminVars, poolVars, allowance, approvedUntil, authorized,
                 trail>>

\* The issuer freezes or unfreezes a trustline.
SetAuthorized(a, x, b) ==
  /\ authorized' = [authorized EXCEPT ![a][x] = b]
  /\ UNCHANGED <<now, adminVars, poolVars, balance, allowance, approvedUntil,
                 trail>>

TokenNext ==
  \E a \in Assets :
    \/ \E u \in Users, n \in Allowances, until \in Lapses :
         Approve(a, u, n, until)
    \/ \E u \in Users, n \in Balances : SetBalance(a, u, n)
    \/ \E x \in Freezable, b \in BOOLEAN : SetAuthorized(a, x, b)

-----------------------------------------------------------------------------
Environment ==
  \/ Tick /\ UNCHANGED <<poolVars, tokenVars, trail>>
  \/ AdminNext /\ UNCHANGED <<poolVars, tokenVars, trail>>
  \/ TokenNext

Registry ==
  \/ \E p \in PoolIds : RegisterPool(p) \/ AbortPool(p) \/ CapturePool(p)
  \/ \E m \in MandateIds, t \in UNION {TermsFor[k] : k \in MandateIds} :
       t \in TermsFor[m] /\ RegisterMandate(m, t)
  \/ \E m \in MandateIds : RevokeMandate(m) \/ CommitChild(m)
  \/ \E p \in PoolIds, m \in MandateIds : EvictChild(p, m)
  \/ \E m \in MandateIds, amount \in Amounts, n \in 0 .. MaxU32 :
       ExecutePayment(m, amount, n)

Next == Environment \/ Registry

Spec == Init /\ [][Next]_vars

\* Time passes, and anyone may close a pool: somebody eventually does.
Fairness ==
  /\ WF_vars(Tick /\ UNCHANGED <<poolVars, tokenVars, trail>>)
  /\ \A p \in PoolIds : WF_vars(ClearPool(p))

FairSpec == Spec /\ Fairness

-----------------------------------------------------------------------------
(* Properties. *)

\* The member list, the children's linkage, and the counter agree.  An open
\* pool lists each committed child once and nobody else, and counts them; a
\* committed child's pool is open.  (commit_child, evict_child,
\* revoke_mandate and clear_pool each update all three.)
MembershipAgrees ==
  /\ \A p \in DOMAIN pools : IsOpen(p) =>
       /\ IsInjective(members[p])
       /\ \A m \in MembersOf(p) : /\ m \in DOMAIN mandates
                                  /\ IsCommitted(m)
                                  /\ Terms(m).pool_id = p
       /\ pools[p].member_count = Len(members[p])
  /\ \A m \in DOMAIN mandates : IsCommitted(m) =>
       IsOpen(Terms(m).pool_id) /\ m \in MembersOf(Terms(m).pool_id)

\* A pool that fires can be captured: no member can make the transaction
\* fail, whatever it did with its allowance, its balance, its budget or its
\* other mandates.  (The eligibility filter and the dedup of commit_child; the
\* guard of the effects loop is unreachable.)  What the filter does not look
\* at is the merchant, and a counter at its width, which traps at pool.rs:309.
NoCaptureWedge ==
  \A p \in DOMAIN pools :
    (/\ Closable(p) /\ Fires(p)
     /\ authorized[PoolTerms[p].asset][PoolTerms[p].merchant]
     /\ CountersAdvance(p, PriceOf(p)))
      => WithinBudgets(p, PriceOf(p)) /\ TransfersSucceed(p, PriceOf(p))

\* The books match the money on both paths: what a mandate has spent is what
\* the token moved under it, within the budget, and each sequence number
\* stands for exactly one transfer.
BooksMatchTransfers ==
  \A m \in DOMAIN mandates :
    /\ mandates[m].spent = paid[m]
    /\ paid[m] <= Terms(m).max_amount
    /\ usedSeqs[m] = 0 .. mandates[m].seq - 1
    /\ mandates[m].status = "Exhausted" => paid[m] = Terms(m).max_amount
    /\ mandates[m].status = "Active" => paid[m] < Terms(m).max_amount

\* A member whose consent and means stand at the close: the filter restated
\* from the outside, on the state before the capture.
Willing(p, m) ==
  /\ mandates[m].status = "Active"
  /\ now < Terms(m).expiry
  /\ paid[m] + WorstCase(ScheduleOf(m)) <= Terms(m).max_amount
  /\ CanPay(UserOf(m), PoolTerms[p].asset, WorstCase(ScheduleOf(m)))

\* At one price q, the willing members buy enough and pay enough.
Sells(p, q) ==
  LET S == {m \in MembersOf(p) : Willing(p, m)}
  IN  /\ Total([m \in S |-> Demand(ScheduleOf(m), q)], S)
           >= PoolTerms[p].threshold_qty
      /\ Total([m \in S |-> q * Demand(ScheduleOf(m), q)], S)
           >= PoolTerms[p].threshold_value
      /\ \E m \in S : Demand(ScheduleOf(m), q) > 0

\* A pool that clears does so inside its window at the lowest price at which
\* it sells, and that price is the same for all: each willing member pays it
\* for exactly its demand, and nobody else pays anything.
UniformLowestPrice ==
  [][\A p \in DOMAIN pools :
       IsOpen(p) /\ pools'[p].status = "Cleared" =>
         /\ now \in Deadline(p) .. WindowEnd(p)
         /\ \E price \in 1 .. MAX_UNIT_PRICE :
              /\ Sells(p, price)
              /\ \A q \in 1 .. price - 1 : ~Sells(p, q)
              /\ \A m \in MandateIds :
                   paid'[m] - paid[m] =
                     IF m \in MembersOf(p) /\ Willing(p, m)
                     THEN price * Demand(ScheduleOf(m), price) ELSE 0]_vars

\* An abort is earned: a pool is aborted only when it could not sell at any
\* price, or its window has passed.
AbortOnlyWhenUnsold ==
  [][\A p \in DOMAIN pools :
       IsOpen(p) /\ pools'[p].status = "Aborted" =>
         \/ now > WindowEnd(p)
         \/ now >= Deadline(p) /\ \A q \in 1 .. MAX_UNIT_PRICE : ~Sells(p, q)]_vars

\* Anyone may evict, so an eviction must not choose the outcome: at that
\* instant the pool would fire as before, at the same price, for the same
\* children.
Preview(p) ==
  IF Fires(p) THEN [price |-> PriceOf(p), winners |-> Winners(p, PriceOf(p))]
              ELSE [price |-> 0, winners |-> {}]

EvictionIsNeutral ==
  [][\A p \in DOMAIN pools :
       (\E m \in MandateIds : EvictChild(p, m)) => Preview(p)' = Preview(p)]_vars

\* The eligible rows whose user's approval lapses with the step.
LapsingRows(p) ==
  {i \in EligibleRows(p) :
     approvedUntil[PoolTerms[p].asset][UserOf(members[p][i])] < now'}

\* The expiry of a mandate is no lever on the close (registry.rs:86): inside
\* the window the passing of time makes nobody eligible, makes only those
\* ineligible whose own approval lapses, and while none does the pool would
\* fire as before, at the same price, for the same children.
ExpiryIsNoLever ==
  [][\A p \in DOMAIN pools :
       IsOpen(p) /\ now' # now /\ now >= Deadline(p) /\ now' <= WindowEnd(p)
         => /\ EligibleRows(p)' = EligibleRows(p) \ LapsingRows(p)
            /\ LapsingRows(p) = {} => Preview(p)' = Preview(p)]_vars

\* What the mandates promise: every unit moved under a mandate is within its
\* budget, before its expiry and before its revocation.
Authority == INSTANCE SpendAuthority WITH
  Ids     <- MandateIds,
  clock   <- now,
  limit   <- [m \in DOMAIN mandates |-> Terms(m).max_amount],
  expiry  <- [m \in DOMAIN mandates |-> Terms(m).expiry],
  moved   <- paid,
  revoked <- {m \in DOMAIN mandates : mandates[m].status = "Revoked"}

RefinesAuthority == Authority!Spec

\* While a child is committed its money is spoken for: only the close of its
\* own pool, at or after the deadline, moves anything under it.
CommittedIsReserved ==
  [][\A m \in DOMAIN mandates :
       IsCommitted(m) /\ paid'[m] # paid[m] =>
         LET p == Terms(m).pool_id
         IN  IsOpen(p) /\ ~IsOpen(p)' /\ now >= Deadline(p) /\ ~paused]_vars

\* The module comment of pool.rs: a commit stays revocable until the deadline,
\* and no later.  In the code the exit stays open until somebody closes the
\* pool, so a member may still leave a met pool after its deadline.
FinalAfterDeadline ==
  [][\A m \in DOMAIN mandates :
       IsCommitted(m) /\ mandates'[m].status # mandates[m].status
         /\ mandates'[m].pool_state = "Released"
         => now < Deadline(Terms(m).pool_id)]_vars

\* The comment of revoke_mandate: for a committed member it is the one exit
\* before the deadline.  In the code an eviction is another, and it leaves
\* the mandate active.
RevocationIsTheOnlyExit ==
  [][\A m \in DOMAIN mandates :
       IsCommitted(m) /\ ~IsCommitted(m)' /\ now < Deadline(Terms(m).pool_id)
         => mandates'[m].status = "Revoked"]_vars

\* Every pool is eventually closed, and every committed child eventually let
\* go or captured, even if the stop is never lifted or the merchant is frozen
\* for the whole window.
EveryPoolSettles ==
  \A p \in PoolIds : IsOpen(p) ~> (p \in DOMAIN pools /\ ~IsOpen(p))

EveryChildSettles ==
  \A m \in MandateIds :
    (m \in DOMAIN mandates /\ IsCommitted(m))
      ~> (m \in DOMAIN mandates /\ ~IsCommitted(m))
=============================================================================
