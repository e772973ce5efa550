------------------------------ MODULE Reentry ------------------------------
(***************************************************************************)
(* Re-entry, one external call at a time: a registry, the clearing pool it *)
(* may have and the reference policy that may be the agent of a mandate,   *)
(* under a token that calls back from transfer_from.  The host refuses     *)
(* re-entry; this module does not, and asks whether the order in which     *)
(* each contract writes and calls is enough by itself.  That the token's   *)
(* reads do not call back, those between the status read and the close of  *)
(* clear_pool among them (pool.rs:390-413), is still taken from the host.  *)
(* The other modules take a transaction as one step.                       *)
(*                                                                         *)
(* A frame is a call on the stack: what it has left to do, and the store   *)
(* as it found it, which is put back when it fails.                        *)
(***************************************************************************)
EXTENDS Integers, FiniteSetsExt, SequencesExt

CONSTANTS
  Mandates,    \* registered mandates, live throughout
  PoolLegs,    \* committed mandate -> what it pays if the pool is captured
  Policed,     \* mandates whose agent is the reference policy
  Nonces,      \* nonces of the requests sent to it
  Amounts,     \* payment amounts asked for
  MaxAmount,   \* what each mandate allows
  Priors,      \* bound: what members have spent before they committed
  Threshold,   \* members the pool needs
  MaxDepth     \* bound: calls on the stack

Committed == DOMAIN PoolLegs

ASSUME ReentryAssumption ==
  /\ Committed \subseteq Mandates
  /\ IsFiniteSet(Committed)
  /\ Policed \subseteq Mandates \ Committed
  /\ \A m \in Committed : PoolLegs[m] \in 1 .. MaxAmount
  /\ Amounts \subseteq Nat
  /\ MaxAmount \in Nat \ {0}
  /\ Priors \subseteq 0 .. MaxAmount - 1
  /\ Threshold \in Nat \ {0}
  /\ MaxDepth \in Nat \ {0}

VARIABLES
  store,   \* what the contracts keep (rows, pool, consumed, executing), and
           \* as history what was moved and which nonces were served
  stack,   \* the calls running, outermost first
  late     \* the capture window is over

reentryVars == <<store, stack, late>>

ReentryInit ==
  /\ \E prior \in [Committed -> Priors] :
       LET spent(m) == IF m \in Committed THEN prior[m] ELSE 0
       IN  store = [rows |-> [m \in Mandates |->
                       [spent |-> spent(m),
                        seq |-> IF spent(m) > 0 THEN 1 ELSE 0,
                        status |-> "Active",
                        pool_state |-> IF m \in Committed THEN "Committed"
                                                          ELSE "Unlinked"]],
                    pool |-> "Open", consumed |-> {}, executing |-> {},
                    moved |-> [m \in Mandates |-> spent(m)],
                    served |-> [n \in Nonces |-> 0]]
  /\ stack = <<>>
  /\ late = FALSE

-----------------------------------------------------------------------------
\* What a call does, in its order.

WithRow(s, m, row) == [s EXCEPT !.rows[m] = row]

\* spent grows and the mandate is exhausted when nothing is left.
Charged(row, n) ==
  [row EXCEPT !.spent = @ + n, !.seq = @ + 1,
              !.status = IF row.spent + n = MaxAmount THEN "Exhausted" ELSE @]

\* Fault: the transfer comes first.
PaySteps_TransferFirst(m, n, row) ==
  << [do |-> "transfer", id |-> m, amount |-> n],
     [do |-> "write", id |-> m, row |-> Charged(row, n)] >>

\* execute_payment, once its checks have passed on the row as it was read.
PaySteps(m, n, row) ==
  << [do |-> "write", id |-> m, row |-> Charged(row, n)],
     [do |-> "transfer", id |-> m, amount |-> n] >>

\* Every member in the list: charged if it has an allocation, or let go.
MemberSteps(list, legs) ==
  [i \in DOMAIN list |->
     [do |-> IF list[i] \in Range(legs) THEN "charge" ELSE "release",
      id |-> list[i], amount |-> PoolLegs[list[i]]]]

TransferSteps(legs) ==
  [i \in DOMAIN legs |->
     [do |-> "transfer", id |-> legs[i], amount |-> PoolLegs[legs[i]]]]

\* Fault: the pool is closed once everybody has paid.
CaptureSteps_CloseLast(list, legs) ==
  MemberSteps(list, legs) \o TransferSteps(legs) \o << [do |-> "close"] >>

\* Fault: all is written once everybody has paid.
CaptureSteps_TransferFirst(list, legs) ==
  TransferSteps(legs) \o << [do |-> "close"] >> \o MemberSteps(list, legs)

\* clear_pool, once the outcome fires: the members in the order in which they
\* committed, then the allocations in the order of their ids.
CaptureSteps(list, legs) ==
  << [do |-> "close"] >> \o MemberSteps(list, legs) \o TransferSteps(legs)

\* Fault: the lock is left to the next call.
ExecuteSteps_NoUnlock(m, n, nonce) ==
  << [do |-> "lock", id |-> m],
     [do |-> "burn", nonce |-> nonce],
     [do |-> "call", id |-> m, amount |-> n, nonce |-> nonce] >>

\* Fault: the nonce is burnt once it has paid, and nothing is locked.
ExecuteSteps_BurnLast(m, n, nonce) ==
  << [do |-> "call", id |-> m, amount |-> n, nonce |-> nonce],
     [do |-> "burn", nonce |-> nonce] >>

\* execute, once the request has passed.
ExecuteSteps(m, n, nonce) ==
  << [do |-> "lock", id |-> m],
     [do |-> "burn", nonce |-> nonce],
     [do |-> "call", id |-> m, amount |-> n, nonce |-> nonce],
     [do |-> "unlock", id |-> m] >>

-----------------------------------------------------------------------------
\* The stack.

Running == stack # <<>>
Top     == stack[Len(stack)]
Step    == Head(Top.todo)
Does(w) == Running /\ Top.todo # <<>> /\ Step.do = w

\* The token has control: before it moves the money, and after.
InToken == Does("transfer") \/ Does("moved")

\* A transaction may begin, or the token calls back.
MayCall == Len(stack) < MaxDepth /\ (~Running \/ InToken)

Push(todo) ==
  stack' = Append(stack, [todo |-> todo, saved |-> store])

TodoBecomes(todo) ==
  stack' = [stack EXCEPT ![Len(stack)].todo = todo]

NextStep == TodoBecomes(Tail(Top.todo))

-----------------------------------------------------------------------------
\* Entry points.

\* Fault: the budget is compared with the payment alone.
PayableAlone(m, n) ==
  /\ n > 0
  /\ store.rows[m].pool_state # "Committed"
  /\ store.rows[m].status = "Active"
  /\ n <= MaxAmount

Payable(m, n) ==
  /\ n > 0
  /\ store.rows[m].pool_state # "Committed"
  /\ store.rows[m].status = "Active"
  /\ n <= MaxAmount - store.rows[m].spent

\* execute_payment with the sequence number the row has by then.
ExecutePayment(m, n) ==
  /\ MayCall
  /\ m \notin Policed
  /\ Payable(m, n)
  /\ Push(PaySteps(m, n, store.rows[m]))
  /\ UNCHANGED <<store, late>>

RevokeMandate(m) ==
  /\ MayCall
  /\ store' = [store EXCEPT
       !.rows[m].status = "Revoked",
       !.rows[m].pool_state =
         IF @ = "Committed" /\ store.pool = "Open" THEN "Released" ELSE @]
  /\ UNCHANGED <<stack, late>>

Listed == {m \in Committed : store.rows[m].pool_state = "Committed"}

Eligible ==
  {m \in Listed : /\ store.rows[m].status = "Active"
                  /\ PoolLegs[m] <= MaxAmount - store.rows[m].spent}

Fires == ~late /\ Cardinality(Eligible) >= Threshold

\* The status is read, the members are judged and the price is found in one
\* step: the calls in between are reads of the token.
CapturePool ==
  /\ MayCall
  /\ store.pool = "Open"
  /\ Fires
  /\ \E list \in SetToSeqs(Listed), legs \in SetToSeqs(Eligible) :
       Push(CaptureSteps(list, legs))
  /\ UNCHANGED <<store, late>>

\* No transfer is made on this path.
AbortPool ==
  /\ MayCall
  /\ store.pool = "Open"
  /\ ~Fires
  /\ store' = [store EXCEPT
       !.pool = "Aborted",
       !.rows = [m \in Mandates |->
                   IF @[m].pool_state = "Committed"
                   THEN [@[m] EXCEPT !.pool_state = "Released"] ELSE @[m]]]
  /\ UNCHANGED <<stack, late>>

\* The reference policy's execute, of a request that its policy allows.
Execute(m, n, nonce) ==
  /\ MayCall
  /\ nonce \notin store.consumed
  /\ m \notin store.executing
  /\ store.rows[m].status = "Active"
  /\ Push(ExecuteSteps(m, n, nonce))
  /\ UNCHANGED <<store, late>>

-----------------------------------------------------------------------------
\* A call goes on.

\* The steps that only change the store.
Effect(s, step) ==
  CASE step.do = "write"  -> WithRow(s, step.id, step.row)
    [] step.do = "close"  -> [s EXCEPT !.pool = "Cleared"]
    [] step.do = "charge" ->
         IF s.rows[step.id].pool_state # "Committed" THEN s
         ELSE WithRow(s, step.id,
                [Charged(s.rows[step.id], step.amount)
                   EXCEPT !.pool_state = "Captured"])
    [] step.do = "release" ->
         IF s.rows[step.id].pool_state # "Committed" THEN s
         ELSE [s EXCEPT !.rows[step.id].pool_state = "Released"]
    [] step.do = "lock"   -> [s EXCEPT !.executing = @ \cup {step.id}]
    [] step.do = "burn"   -> [s EXCEPT !.consumed = @ \cup {step.nonce}]
    [] step.do = "unlock" -> [s EXCEPT !.executing = @ \ {step.id}]

Overcharges ==
  /\ Does("charge")
  /\ store.rows[Step.id].pool_state = "Committed"
  /\ store.rows[Step.id].spent + Step.amount > MaxAmount

Proceed ==
  /\ \E w \in {"write", "close", "charge", "release",
               "lock", "burn", "unlock"} : Does(w)
  /\ ~Overcharges
  /\ store' = Effect(store, Step)
  /\ NextStep
  /\ UNCHANGED late

\* The policy calls the registry, which checks the row as it is now.
CallRegistry ==
  /\ Does("call")
  /\ Payable(Step.id, Step.amount)
  /\ stack' = Append([stack EXCEPT ![Len(stack)].todo =
                        <<[Step EXCEPT !.do = "called"]>> \o Tail(@)],
                [todo |-> PaySteps(Step.id, Step.amount, store.rows[Step.id]),
                 saved |-> store])
  /\ UNCHANGED <<store, late>>

\* The registry has paid; the policy goes on.
RegistryReturned ==
  /\ Does("called")
  /\ store' = [store EXCEPT !.served[Step.nonce] = @ + 1]
  /\ NextStep
  /\ UNCHANGED late

\* The token moves the money.
Transfer ==
  /\ Does("transfer")
  /\ store' = [store EXCEPT !.moved[Step.id] = @ + Step.amount]
  /\ TodoBecomes(<< [do |-> "moved"] >> \o Tail(Top.todo))
  /\ UNCHANGED late

\* The token returns.
TransferReturned == Does("moved") /\ NextStep /\ UNCHANGED <<store, late>>

Return ==
  /\ Running /\ Top.todo = <<>>
  /\ stack' = Front(stack)
  /\ UNCHANGED <<store, late>>

\* The frame that fails with the one on top: a failed payment fails the
\* policy's call; a token may go on after a call of its own failed.
Failing ==
  IF Len(stack) > 1 /\ Head(stack[Len(stack) - 1].todo).do = "called"
  THEN Len(stack) - 1 ELSE Len(stack)

\* The token fails the transfer, or the registry rejects the call.
Fail ==
  /\ \/ InToken
     \/ Overcharges
     \/ Does("call") /\ ~Payable(Step.id, Step.amount)
  /\ store' = stack[Failing].saved
  /\ stack' = SubSeq(stack, 1, Failing - 1)
  /\ UNCHANGED late

WindowEnds == ~Running /\ ~late /\ late' = TRUE /\ UNCHANGED <<store, stack>>

ReentryNext ==
  \/ Proceed \/ CallRegistry \/ RegistryReturned
  \/ Transfer \/ TransferReturned \/ Return \/ Fail
  \/ CapturePool \/ AbortPool \/ WindowEnds
  \/ \E m \in Mandates : \/ RevokeMandate(m)
                         \/ \E n \in Amounts : ExecutePayment(m, n)
  \/ \E m \in Policed, n \in Amounts, nonce \in Nonces : Execute(m, n, nonce)

ReentrySpec == ReentryInit /\ [][ReentryNext]_reentryVars

-----------------------------------------------------------------------------
(* Properties. *)

\* However the token calls back from its transfers, once the transaction is
\* over it has moved exactly what the books say, within what the user allowed:
\* nobody pays a leg or a payment twice, or one that is then forgotten
\* (pool.rs:284, payment.rs:53, reentry_probe.rs:1).  Nothing is said of a
\* callback from the reads before the close (pool.rs:390).
BooksHold ==
  ~Running =>
    \A m \in Mandates : /\ store.moved[m] = store.rows[m].spent
                         /\ store.moved[m] <= MaxAmount

\* A pool that was captured is never aborted, nor the other way round, not
\* even for the time of a callback from a transfer: a clear_pool from inside
\* the transfers of a capture finds the pool closed (pool.rs:284).
OneOutcome ==
  /\ store.pool = "Aborted" =>
       \A m \in Committed : store.rows[m].pool_state # "Captured"
  /\ store.pool = "Cleared" /\ ~Running =>
       \A m \in Committed : store.rows[m].pool_state # "Committed"

\* The frame is a request that waits for the registry to pay.
Paying(frame, m) ==
  /\ frame.todo # <<>>
  /\ Head(frame.todo).do = "called"
  /\ Head(frame.todo).id = m

\* A nonce pays once, though the token sends the request again while it is
\* being paid (extension lib.rs:124).
NonceOnce == \A nonce \in Nonces : store.served[nonce] <= 1

\* One request at a time is executing for a mandate, whatever the token
\* sends meanwhile, and the lock is never left behind: neither a failure nor
\* the end of the call leaves a mandate that can no longer pay
\* (extension lib.rs:137, 159).
LockHoldsAndIsReleased ==
  /\ \A m \in Policed :
       Cardinality({i \in DOMAIN stack : Paying(stack[i], m)}) <= 1
  /\ ~Running => store.executing = {}
=============================================================================
