# Verification of the REAPP mandate contracts

TLA+ models of the contracts in `src/contracts`, TLC runs on small instances,
and TLAPS proofs that hold for every instance.  The repository's code is the
reference: each definition is a translation of the lines `PROJECT.json` ("map")
names for it, and where a comment of the code says something else the run that
shows it is listed under "findings".

A *mandate* is a user's signed permission for an agent to pay one merchant, in
one asset, up to a budget and until an expiry.  The user grants the registry
contract a token allowance; the registry is the only party that can use it, and
it does so through the *solo* path (`execute_payment`) or, in the composite
contract, through the close of a *clearing pool*: a deadline auction at which
many mandates buy at one uniform price, all in one transaction.

## 1. Inventory

The system is a set of contracts on a ledger whose host runs one transaction
after another.  A contract call runs alone and to the end; if it returns an
error or traps, nothing it did remains.  So the concurrency is between
*transactions*: users, agents, keepers, merchants' originators, token issuers
and administrators each send calls whenever they like, in every order, and the
clock moves between them.

| component | state it keeps | operations that change it | correct means |
|---|---|---|---|
| composite registry: mandates and solo payments (`composites/.../registry.rs`, `payment.rs`, `mandate.rs`) | mandate rows: terms, `spent`, `seq`, `status`, `pool_state` | `register_mandate`, `revoke_mandate`, `execute_payment` | money moves only under a live, unrevoked mandate and within its budget; a sequence number pays once; a committed child cannot be spent solo |
| composite registry: pools (`pool.rs`, `pooltypes.rs`) | pool rows: terms, `status`, `member_count`; a member list per pool | `register_pool`, `commit_child`, `evict_child`, `clear_pool` | list, count and linkage agree; a pool that is met can be captured whatever its members do; all pay the same lowest price; a pool that is not captured lets everyone go; nobody gains by choosing when to call |
| clearing function (`clearing.rs`) | none (pure) | `clear` | the lowest price that meets both thresholds; independent of the order of the members |
| administration plane (`composites/.../admin.rs`, `simple/.../admin.rs`) | admin, stop flag, pending upgrade | `set_admin`, `pause`, `unpause`, `schedule_upgrade`, `cancel_upgrade`, `execute_upgrade` | no new code without a full delay of notice |
| storage (`storage.rs` of each contract) | the rows above, each with a time to live | `extend_ttl` on every touch | a row outlives the need for it |
| simple registry (`simple/...`) | mandate rows | `register_mandate`, `revoke_mandate`, `execute_payment` | as the composite's solo path |
| mainnet registry (`mainnet/mandate-registry`) | mandate rows, allowed assets, role holders, stop flag | the same three, `set_asset_allowed`, `pause`, `unpause`, `upgrade`, role management | as above, plus separation of roles, a bounded lifetime, and counters that stop at their width |
| timelock controller (`mainnet/timelock-controller`) | operations by id, minimum delay, roles | `schedule`, `execute`, `cancel`, `update_delay`, `__check_auth` | an operation runs once, after its delay and its predecessor, unless cancelled |
| reference policy (`extensions/reference-policy`) | a policy per mandate, consumed nonces, a re-entry lock | `install_policy`, `execute` | a request pays at most once, inside its window and under the cap; the policy only ever narrows what the mandate allows |
| events, errors, scripts, workflows | none | | output and tooling |

How they interact.  The registries call token contracts (`allowance`,
`balance`, `authorized`, `transfer_from`); users and issuers change the token's
state behind their back.  The clearing function is called by `clear_pool` and
by the read-only `simulate_clear` on rows that `build_child_views` makes from
the stored members and the live token state.  The administration plane shares
the stop flag with the money paths.  The reference policy is a mandate's
*agent*: it calls the simple registry's `execute_payment`, and a failure there
rolls its own nonce back.  On mainnet the timelock is the registry's
administrator and holds its upgrader and asset roles, so those calls reach the
registry only as operations the timelock executes; the stop and its lifting
belong to accounts.

What is hard here:

* *stale checks*: funds and allowances checked at `commit_child` reserve
  nothing; a user can move them, share them between pools, or have its
  trustline frozen before the close;
* *one transaction for many members*: one leg that fails would revert the
  capture of everybody, so eligibility has to foresee every failure;
* *three copies of membership*: the list, the counter and each child's linkage,
  written by five operations;
* *time at the boundaries*: deadline, end of the capture window, expiry and
  upgrade delay, each inclusive or exclusive;
* *permissionless calls*: anyone may commit, evict and close at any instant, so
  no choice of instant may matter more than intended.  The code takes one such
  choice away (no child expires inside the window, `registry.rs:86`) and leaves
  another: an approval carries the ledger at which it lapses, and when that
  falls inside the window, whoever closes the pool chooses, by the ledger it
  closes in, whether that member is still eligible (`pool.rs:390`);
* *stuck states*: the stop, a frozen merchant, a pool nobody closes in time;
* *delegated notice*: the mainnet registry upgrades at once; that users get
  notice rests on the timelock, on who holds which role, and on the delay, each
  of which can itself be changed by an operation;
* *two ways to run an operation*: through `execute`, and, for operations on the
  timelock itself, through `__check_auth` as a call of the admin function;
* *rows that expire*: every row has a time to live, extended by some of the
  calls that touch it and by an estimate of the ledgers' pace;
* *a token that calls back*: the order of writes and transfers, and the
  extension's lock, are there for it;
* *the price search*: intervals, a binary search, integer rounding of the fee.

`PROJECT.json` lists each of these as a hazard at its line, with the properties
that would show it going wrong.

## 2. The modules

```
Schedule ── Clearing ─┬─ ClearingScan ─┬─ MCClearingScan
               │      │                └─ ClearingScanProofs
               │      └─ ClearingProofs ──┴──┐
               │                             │
AdminPlane ─┬──┴─ Composite ─┬─ MCComposite  │
            │         │      └─ CompositeProofs
            │         └── (SpendAuthority, as a refinement)
            ├ AdminPlaneProofs, used by CompositeProofs and PolicyProofs
            │      └── (AnnouncedChange, as a refinement)
            │
            └ SimpleRegistry ── ReferencePolicy ─┬─ MCReferencePolicy
                    │                            └─ PolicyProofs
                    └── (SpendAuthority, as a refinement)

AccessControl ─┬─ MainnetRegistry ─┬─ MCMainnetRegistry
               │       │           └─ MainnetGovernance ─┬─ MainnetProofs
               │       └── (SpendAuthority)       │      └─ MCMainnetGovernance
               └─ Timelock ───────────────────────┘
                       │  └── (AnnouncedChange)
                       └── MCTimelock

RowLife ─┬─ PoolRows ────┐
         ├─ MandateRows ─┼─┬─ StorageProofs
         └─ PolicyRows ──┘ └─ MCStorageRows

Reentry ─┬─ MCReentry
         └─ ReentryProofs
```

* **Schedule** (`mandate.rs`): a demand curve, what the gate accepts of it, its
  demand at a price, its worst case.
* **Clearing** (`clearing.rs`): the outcome of a close as a function of the
  eligible children, through the intervals between breakpoints.
* **ClearingScan** (`clearing.rs`): the same function as the code computes it,
  one loop iteration per step: sort by id, union of breakpoints, interval scan,
  bisection.  It is what justifies using `Clearing` in the registry.
* **AdminPlane** (`admin.rs`): rotation, stop, announced upgrade.  The state
  variable `wasm` stands for the code the contract runs.
* **Composite** (`registry.rs`, `payment.rs`, `pool.rs`, `storage.rs`): the
  registry on top of `AdminPlane` and `Clearing`, with the token contracts as
  its environment.  One action per entry point; `clear_pool` has two,
  `AbortPool` and `CapturePool`.
* **SimpleRegistry** (`simple/mandate-registry`: `registry.rs`, `payment.rs`):
  mandates and payments without pools, on the same `AdminPlane` (the two
  `admin.rs` differ in the length of the delay only).  Here the agent of a
  mandate is kept, because it may be a contract with rules of its own.
* **ReferencePolicy** (`extensions/reference-policy`): the extension composed
  with the registry it pays through.  It is the agent of a mandate; requests
  may be sent any number of times, in any order, late or never.  Burning the
  nonce and the registry's call are one action, because they are one
  transaction.
* **SpendAuthority**: the abstract promise to a user, without pools, agents,
  tokens or a stop: a mandate is granted once with a limit and an expiry; money
  moves under it only while it is granted, alive and not revoked, never beyond
  the limit, possibly under several mandates in one step.
* **AnnouncedChange**: the abstract promise of delayed administration: a change
  is announced with at least the notice in force, may be withdrawn, and takes
  effect no earlier than announced; only a change known to do so shortens the
  notice.  `AdminPlane` implements it with one slot and a fixed delay, the
  timelock with many operations and a delay that can change.
* **AccessControl** (external library): the administrator, the offer of the
  administration, the holders and the manager of each role, as one record that
  each mainnet contract keeps.
* **MainnetRegistry** (`mainnet/mandate-registry`: `registry.rs`, `payment.rs`,
  `admin.rs`, `lib.rs`): mandates of bounded life in listed assets, a counter
  that ends at its width, the stop, the asset list and the upgrade, each behind
  its role.
* **Timelock** (`mainnet/timelock-controller`): `schedule`, `cancel`, `execute`,
  `update_delay`, `__check_auth` and the roles.  The library that keeps the
  operations is external, modelled from its use.
* **MainnetGovernance**: the two together in the deployment profile; executing
  an operation on the registry is one transaction over both.
* **RowLife** (the host's time to live, external), **PoolRows** (composite
  `storage.rs` as `pool.rs` and `registry.rs` use it), **MandateRows** (mainnet
  `storage.rs`), **PolicyRows** (the extension's `storage.rs`): when rows are
  written and extended, and whether what a call reads is still there.  What the
  calls do besides is in the other modules.
* **Reentry** (`pool.rs`, `payment.rs`, the extension's `execute`): the same
  calls one external call at a time, under a token that calls back from
  `transfer_from` and may fail; a stack of frames, each with what it has left
  to do and the store it restores when it fails.  A capture charges the members
  in any order, and then transfers in any other.
* **MC...**: instances for TLC.  `MCStorageRows` puts the three kinds of rows on
  one ledger; each behaviour follows one of them, because they share nothing
  but the ledger.  `AdminPlane` is checked as part of the simple registry.
* **...Proofs**: theorems and proofs, section 4.

### State against code

| variable | code |
|---|---|
| `now` | `env.ledger().timestamp()` |
| `admin`, `paused`, `pending` | instance rows `Admin`, `Paused`, `PendingUpgrade` |
| `mandates[m]` | persistent row `Mandate(m)`: `terms` are the signed parameters; absent = `NotFound` |
| `pools[p]` | row `Pool(p)`: its terms are `PoolTerms[p]`, because the id is the hash of the terms |
| `members[p]` | row `PoolMembers(p)`, empty when absent |
| `balance`, `allowance`, `approvedUntil`, `authorized` | the token contracts: SEP-41 balances of users, allowances to the registry and the ledger until which each counts (as that ledger's instant), SAC trustline flags |
| `funds[a][u]` (simple) | the token contracts: what `transfer_from` can move for the user, the smaller of balance and allowance, 0 while frozen |
| `policies[m]`, `consumed[m]` | the extension's rows: the installed binding (the mandate's terms at that time and the user's choice) and the burnt nonces |
| `allowed`, `paused`, `wasm`, `regRoles` (mainnet) | rows `AllowedAsset(a)` and `Paused`, the contract's code, the library's role record |
| `funds[a][u]` (mainnet) | as in the simple registry |
| `unlistedAt[a]` | history: when the asset last left the list |
| `ledger`, `minDelay`, `tlRoles` (timelock) | the ledger's sequence number, the library's minimum delay, the role record |
| `readyAt[o]`, `done` | the library's operation row: the ready ledger while pending, or the mark of an operation that ran; neither: unset |
| `ran` | history: the operations that ran, in order |
| `assuredUntil` | history: the ledger up to which some user could count on nothing changing |
| `poolRow`, `listRow`, `childRow`, `row`, `assetRow`, `instance`, `policyRow`, `nonceRow` | the ledger until which each row lives |
| `lastCall` | environment: when the registry was last called |
| `store`, `stack` (Reentry) | all rows a transaction may change, and the calls running |
| `served` | history: the payments made with each nonce |
| `paid`, `usedSeqs` | history, not in the code: what the tokens moved under a mandate and which sequence numbers those transfers carried |

### What is abstracted, and why that is faithful

* A call that fails changes nothing, so it is no step; an action's guard is the
  conjunction of the checks, in the code's meaning.  Overflow traps (release
  builds keep overflow checks), so an overflowing call is a failing call.
* `require_auth` is the host's check and is taken as passed: any call the
  signer could make, it makes.  Agents and originators only sign, so they are
  not in the state.
* The host refuses re-entry, so one action is one transaction, in every module
  but `Reentry`.  There the host's ban is dropped for calls out of a token's
  `transfer_from`, the place the code orders its writes for; that the read-only
  calls to tokens (`allowance`, `balance`, `authorized`) and to the registry
  (`get_mandate`) do not call back is still taken from the host.  Those
  `clear_pool` makes between reading the pool's status and closing it
  (`pool.rs:390-413`) are part of one step there, so `BooksHold`, `OneOutcome`
  and their theorems speak of callbacks from transfers only.
* `Reentry` keeps what the order of writes and calls can disturb: rows, pool,
  nonces, lock and moved amounts.  Time is one bit (the window is over),
  mandates are registered, and eligibility is being committed, active and
  within budget; the funds filter is in `Composite`.
* A user's other dealings with the token are `SetBalance` and `Approve`, which
  set any value of a small set.  `Approve` also names the ledger until which the
  allowance counts; once it has passed, by time alone, the contract reads 0
  (`Allowed`).  In the simple and the mainnet registry `funds` may become any
  value at any time, a lapse included; no property there depends on which step
  makes it so.  The merchant's balance is not kept, and users and merchants are
  different accounts in the runs.
* The payment counter of `Composite` has the width `MaxU32`, at which its
  increment traps: a solo payment fails, and so does every capture in which
  such a member buys.  The filter does not look at the counter, so such a member
  blocks a met pool until its window is over.  It takes a member 2^32 - 1 solo
  payments; `NoCaptureWedge` names it among its premises.
* `trustline_authorized` treats a token without the method as authorised:
  `authorized` stays TRUE for accounts that are not in `Freezable`.
* Member rows are kept as positions of the list and not as a set, so that a
  member listed twice would count and pay twice: that it never is, is proved.
* The fee rate every pool of this build pins is 0; `Clearing` and
  `ClearingScan` keep the rate as a parameter.
* `WasmHashes` are builds that keep the administration plane.  Nothing can be
  said about code that drops it.
* The allocation root and all events are output.
* The policy's hash stands for the policy: a request names the policy itself.
  The extension's re-entry lock is set and cleared within one transaction, so
  `ReferencePolicy` never sees it set: it is in `Reentry`.  The extension serves
  one registry in the model.
* An operation's id is the hash of its contents and a salt, so an id has one
  target, call and predecessor; the same contents under another salt are another
  id.  An operation whose target refuses the call stays pending: the transaction
  fails whole.  The offer of an administration has a deadline, which is not kept:
  the offer may lapse at any time.
* The timelock is not its own proposer, canceller or executor.
* `WasmHashes` of the mainnet registry are builds that keep its interface.
* A row read after its time to live is a failed call: restoring an archived row
  is a transaction of its own that anybody may pay for, and not needed if the
  properties of the row modules hold.

## 3. The runs

| run | question | instance |
|---|---|---|
| `auction` | bookkeeping, uniform lowest price, earned aborts, reservation, neutral evictions, the promise to users | one pool, two bidders with curves of one and two points, of which the first may pay solo before it commits, and a solo mandate on its allowance |
| `settle` | can a member wedge a capture; what can time alone change inside the window; does every pool get closed and every child let go | one user behind two pools, two bids in one pool or one in each, allowances of 0 or 2 for bids of 2, given until the deadline or beyond the window, freezes of user and merchant, a stop that comes and goes for ever |
| `scan` | do the loops find the lowest price | every pair of valid curves of up to two points with prices to 4 and quantities to 2, in both id orders, all thresholds around them, with and without a fee |
| `policy` | do the extension's nonces and the registry's counter agree; does the policy govern every payment of its mandate; does the registry keep the promise to users; is notice given of new code | a mandate that may be granted to the extension under two terms, one for an ordinary agent, one user's funds, three nonces; two admins, a new build, delay 2 |
| `mainnet` | do the books hold when the counter ends before the budget; how long does a mandate outlive the listing of its asset; is the promise to users kept | two mandates on one user's funds, one in an asset that comes and goes, stop, upgrade, an administration that may change hands, lives of up to 2 within 4 instants |
| `timelock` | does an operation run once, in order, and with the notice it was announced under | an operation on a target, a shorter delay that must follow it, a handover; self-administered or under an external administrator; an executor who may be removed |
| `governance` | what can a user of the deployed registry count on; does what is announced come | a new asset, an upgrade that must follow it, a shorter delay, an offer of the registry's administration to an account, which may take it and act on its own |
| `storage_rows` | is a pool archived inside its window; is a mandate usable for all its life; do policies and burnt nonces outlive the mandate | two children and deadlines near and far; one mandate with the listed asset and the instance; two nonces; ledgers at 3/4 of the expected pace and at the pace |
| `reentry` | is the order of writes and calls enough under a token that calls back from its transfers | a pool of two with different legs, members that have spent before, a mandate of the extension, two nonces, two calls deep |
| `late_revoke`, `eviction`, `renounced` | findings, below | |

Bounds.  `MaxTime` 3 passes the deadline (1), the last instant of the window
(2), and one later instant, and expiries of 2 and 3 fall inside and after the
window; more time adds no new comparison.  Two bidders are the fewest for which
the set of buyers depends on the price, and two pools the fewest that can share
an allowance.  In `auction` the pool fires at price 2, strictly inside the only
interval, when one bidder is in, and at 1 when both are: the search, a priced
out bidder and an excluded bidder all occur.  A user either approves 6, the
worst case of the larger bid, or nothing, so a member can lose its eligibility
and be evicted while the other still fires the pool.  The first bidder's budget
of 10 leaves room for two payments of 2 before it commits, and the width
`MaxU32` of the counter is 2: after one payment the capture charges what is left
of the budget and takes the last number, after two the member blocks the pool.
Approvals there outlast the window (`Lapses` 3); in `settle` they may also lapse
at 1, the deadline, so that a member may be eligible at one instant of the
window and not at the next.  In `settle` the bids outlive the run, so no child
is let go by its expiry alone, but for one term that would expire inside the
window and must be refused; it has no solo payments, which would make the
liveness check too long: what they take from the allowance `Approve` takes too,
what they take from the budget before a commit is in `auction`, and `NoWedge`
proves `NoCaptureWedge` with them.  In `policy` the longer-lived terms (budget 3, expiry 3) are too
long for a policy at instant 0 and not later, the other (2, 2) are short enough
at once; there are windows that start and end at each instant that matters and
one longer than a request may have; spendable funds of 1 and 3 make the token
refuse some payments that pass every check; three nonces are as many as
payments of 1 fit into the larger budget.  `MaxSeq` 3 exceeds the
number of payments any mandate of that instance can make.  In `mainnet` the counter's
width is 2 and the larger budget 3, so the third payment of 1 meets the end of
the counter with budget left; a mandate may start just before its asset is
delisted and live for the whole cap of 2, within 4 instants.  In `timelock` and
`governance` delays are 1 or 2 within 4 ledgers: an operation can be announced
under 2, the delay brought down to 1, and another announced under 1 and run,
all within the run; the one pair with a predecessor crosses the two kinds of
operation in `timelock` and stays on the registry in `governance`.
`storage_rows` scales a day and a month of ledgers down to a few, keeping the
order of the numbers: a new row's life below the threshold, the cap of the host
at the longest extension asked for or above it, a pace faster than the code's
estimate by less than its margin of 2; `MaxTime` lets the longest-lived pool,
mandate or policy live to its end.  In `reentry` a depth of 3 calls is the
transaction, a call from its token, and a call from the token of that; the legs
differ, the payments of 1 and 2 fill a budget of 2 in one or two steps, and
each failure restores what its call found.  No symmetry is declared: the
identities differ in their terms.  The registry may run out of work (every
mandate dead, no more ids), so deadlock is not checked in its runs.

Fairness.  Only `settle`, `scan` and `governance` assume any.  `settle`: the
clock advances (ledgers close), and for each pool a `clear_pool` that would
succeed is eventually sent; it is permissionless and every member profits from
it, and the stop does not block an abort (`pool.rs:278`).  Nothing is assumed
of users, issuers or the administrator: the stop may stay on, and a merchant
may stay frozen.  A pool then settles because past its window it can only
abort.  `scan`: a loop in a transaction keeps running.  `governance`: ledgers
close, and each operation on the registry that stays executable is eventually
executed; with no executor list anyone may do it (`contract.rs:306`), and its
proposer wants it.  Nothing is assumed of cancellers and proposers, and weak
fairness is enough, because nothing but its execution, its cancellation or the
loss of the roles ends an operation's being executable.  (Ledgers end at
`MaxLedger`; an operation not due by then is not counted.)

What `storage_rows` assumes of the environment is in `PoolRowsAssumption`,
`MandateRowsAssumption` and `PolicyRowsAssumption`: ledgers close slowly enough
that the margin of 2 covers them, the host's cap on a time to live is not below
the longest extension a pool or policy asks for, and, for the mainnet registry,
somebody calls it at least every `MaxSilence` ledgers, which must not exceed the
threshold: that is what `keep_alive` is for.

### Findings

* `late_revoke`: a committed member can leave after the deadline, until
  somebody closes the pool; the comments say a commit is revocable *until the
  deadline*.
* `eviction`: revocation is called the one exit before the deadline of a
  committed member; pulling the allowance and being evicted is another, and it
  leaves the mandate active.
* `renounced`: the timelock's constructor makes an external administrator the
  *only* one, where the comments say the contract itself is always given the
  role and advise the external one to renounce; after that nobody can change
  roles or the delay, not even a timelocked operation.

One more comment is imprecise, without a run: `clearing.rs:13` says that each
leg's net rises by 0 or 1 per price step; it rises by about the quantity.  What
the binary search needs, that it never falls, holds.

## 4. What is proved

For every number of users, mandates, pools, assets and members, every cap,
window and schedule, from `CompositeAssumption`, `SimpleAssumption`,
`PolicyAssumption`, `AdminAssumption`, `ScheduleCaps`, `BpsDenomPositive`,
`MainnetAssumption`, `AccessAssumption`, `TimelockAssumption` and
`GovernanceAssumption` (types of the constants, that a timestamp plus the delay
fits its width, and that the deployment's operations are calls of the registry
or of the timelock), from `ReentryAssumption` (types; a pool has finitely many
members, each with a leg within its mandate, and the extension's mandates are
not pool children) and `InputsAreCalls` (a call of `clear` has children that
are listed once and hold accepted schedules, at least one threshold, and a fee
of at most the whole), and for the rows from the assumptions on the environment
named in section 3:

| theorem | says |
|---|---|
| `TypesHold` | every row keeps its type; in particular no transfer takes a balance or an allowance below 0 |
| `MembershipHolds` | list, counter and linkage agree |
| `BooksHold` | spent = moved, within the budget, each number used once |
| `NoWedge` | a pool that fires can be captured, if the merchant can receive and no buyer's counter is full |
| `CommittedReserved` | under a committed child only its pool's close moves money |
| `ExpiryGivesNoChoice` | inside the window time takes out exactly the children whose approval lapses, and while none does the pool would fire as before, at the same price, for the same children |
| `OutcomeHolds` | a pool fires exactly when it sells to its willing members at some price, and its price is the lowest |
| `PriceIsLowest`, `AbortIsEarned` | a pool clears at the lowest price, the same for every willing member, and is aborted only unsold or too late |
| `EvictionChangesNothing` | an eviction changes neither whether a pool fires, nor the price, nor the buyers |
| `ImplementsAuthority` | the registry implements `SpendAuthority` |
| `NoticeIsGiven`, `AdminTypeCorrect`, `PlaneImplementsNotice` | the upgrade plane gives notice and implements `AnnouncedChange` |
| `SimpleBooksHold`, `SimpleImplementsAuthority` | the simple registry keeps its books and implements `SpendAuthority` |
| `PolicyIsAnAgent`, `PolicyImplementsAuthority` | the extension with its registry implements the registry alone, and so `SpendAuthority` |
| `PolicyTypesHold`, `NonceOnce`, `CountersAgree`, `BindingHolds` | the extension's rows: types, one payment per burnt nonce, nonces = sequence numbers, binding = live terms |
| `PolicyGovernsAll` | every payment of a governed mandate is within its policy, singly and in total |
| `MainnetTypeCorrect`, `MainnetBooksMatchTransfers`, `MainnetImplementsAuthority` | the mainnet registry: types, books, `SpendAuthority`, whatever roles, list, stop and code do |
| `MainnetUnlistedAssetsDieOut` | a mandate in an asset that left the list is dead a maximal lifetime later |
| `TimelockTypeCorrect`, `OperationsRunOnce`, `PredecessorsRunFirst` | the timelock's operations |
| `TimelockImplementsNotice`, `TimelockGivesNotice` | the timelock implements `AnnouncedChange`, and what that means to a user: what is not announced now does not run within the notice now in force |
| `GovernanceTypeCorrect`, `DeploymentGivesNotice` | the same for code and asset list of the registry under the timelock, where roles could be handed on |
| `PoolRowsTypeCorrect`, `PoolsOutliveTheirWindows` | no pool is archived inside its window |
| `MandateRowsTypeCorrect`, `MandatesAreUsableForLife` | a mainnet mandate is usable, as far as storage goes, until it expires |
| `PolicyRowsTypeCorrect`, `PoliciesOutliveMandates` | policy and burnt nonces outlive the mandate |
| `LegWithinWorstCase`, `ClearingPriceInRange` | no price makes a curve cost more than its worst case; a clearing price is within the cap of a price |
| `ClearsAtLowestPrice` | the closed form of the clearing function finds the lowest price at which both thresholds are met, if there is one |
| `LoopsHold` | what each loop of `clear` has established, iteration by iteration |
| `BracketIsSound` | the binary search discards no candidate |
| `LowestPriceIsFound`, `LoopsComputeClearing` | the loops find the lowest price, and agree with the closed form |
| `AllocationsAreExact` | the outcome lists each buyer once, for its demand, by id, and totals the list |
| `StackInOrder` | under a token that calls back from its transfers to any depth and may fail anywhere, every frame finds the store as it must be |
| `BooksBalance`, `OutcomeIsFinal`, `NoncePaysOnce`, `LockIsExclusive` | then, too: spent = moved, one outcome per pool, one payment per nonce, one request at a time |

The argument.  The inductive invariant is `IInv` (`CompositeProofs`): the types,
`MembershipAgrees` and `BooksMatchTransfers`, and three facts they need.
`TermsHold`: what `register_mandate` accepted of a child stays true of its
stored terms, so a leg is within the worst case and the worst case within the
budget.  `OneChildPerUser`: an open pool lists no user twice.  It is what the
dedup of `commit_child` is for: the transfers of a capture are sums over the
rows of a user and of a mandate, and they equal one leg, and the single check
of the filter covers them, because there is one such row.
`NothingBeforeRegistration`: an unused id has no history.  There is a lemma per
action.  The capture's lemma goes through `LegWithinWorstCase` (whatever the
price, a row pays at most the worst case that was checked for it) and
`ClearingPriceInRange` (the price is at least 1, so a buyer's leg is positive
and the counter stays in step with the transfers).  `ExpiryGivesNoChoice` rests
on `TermsHold`: a child outlives the window, and a valid schedule's worst case
is at least 1, so an allowance that reads 0 never covers it.  `NoWedge` follows from the
invariant state by state; the action properties and the refinement follow from
it step by step.  `NoticeIsGiven` is a property over pairs of instants: its
proof carries, for a fixed build and instant, the invariant that the build is
neither running nor executable before the delay has passed.

The outcome of a pool compares two sums: the code adds over rows of the member
list that are eligible and buy, the properties over the members that are
willing.  `ClearingProofs` proves what sums over finite sets need (a sum over an
image, over a part that holds all that is not 0, of terms that grow) by
induction in its set form, over the set of the numbers for which a fact holds.
`IntervalIsMonotonic` is the monotonicity `clearing.rs:8-16` argues from:
between two breakpoints demand stands still, so the net value, fee and rounding
included, does not fall.  With `NextBreakpointSells` (a price that sells lies in
an interval whose upper end sells) it gives `ClearsAtLowestPrice`.  In
`CompositeProofs`, `OutcomeOfPool` carries this from rows to members; it needs
`OneChildPerUser` and `MembershipAgrees`, so that rows and members correspond
one to one.  `PriceIsLowest`, `AbortIsEarned` and `EvictionChangesNothing` are
then facts about one step.

The invariant of the loops (`IInv` of `ClearingScanProofs`) is a disjunction,
one part per loop: `Sorting` (the children before the position are in the list,
each once, by id), `Collecting` (so are the prices met so far), `Scanning` (no
interval before this one sells at its end, and the bracket starts above them),
`Bracketed` (the upper end nets the threshold, nothing of the interval below
the lower end does), and at the end `Sold` or `Unsold`.  `BracketHoldsAnswer`
alone is not inductive: that the quantity threshold is met inside the bracket
comes from the interval, and that nothing below the interval sells from the
scan.  That a bisection step keeps the bracket is monotonicity again.

For `Reentry` the properties hold between transactions only, or speak of the
whole stack; what is inductive (`IInv` of `ReentryProofs`) speaks of one frame
and of the two stores around it, the one it found and the one it handed to the
call above.  `Level`: the frame is in one of the forms its code can leave it in,
the books of the two stores differ by exactly the transfers whose charge is
written and whose money has not moved, and their locks by the one it holds.
`Keeps`: what it has burnt or locked is so in every store above.  `Settles`: after
a capture nobody is committed but those it is about to let go.  A call adds a
frame that finds what the one below handed it; a return joins two levels; a
failure puts back a store about which the frames below know all they need.  So
nothing has to be summed over the stack, and the depth does not matter.

For the simple registry the invariant is `SimpleInv` (`PolicyProofs`): types,
books, and no history of an unused id.  A step of `ReferencePolicy` is a step
of the registry or leaves it alone (`PolicyStepIsSimple`), so `SimpleInv` and
the refinement are inherited.  `PolicyInv` adds to it the three properties of
the extension's rows and what they need: a mandate of the extension without a
policy has paid nothing and burnt nothing (only `execute` can pay under it), and
what a policy paid is within its cap times the nonces it burnt.

For the mainnet registry the invariant is `MainnetInv` (`MainnetProofs`): types,
books, no history of an unused id, and `LifeIsBounded`, that no mandate expires
later than a maximal lifetime from now, which is what makes the last mandate of
a delisted asset end.

`TimelockInv` (`MainnetProofs`) is `RunsOnce` and `PredecessorFirst` with the
types; neither needs more, because an operation leaves `readyAt` in the step
that puts it into `done`.  The refinement maps the notice to the minimum delay
while the timelock administers itself and no one is offered the administration,
and to 0 otherwise; the two lemmas that carry it say that a call made in the
timelock's own name shortens the notice only if its operation is one of
`WeakeningOps`, and that a call by an account does not shorten it.
`TimelockGivesNotice` is proved through the abstract module: `NoSurpriseYet`, a
fact about an instant and the notice seen then, is kept by every abstract step.

`DeploymentGivesNotice` needs the composition.  `GovernanceInv` adds to both
invariants `AssuredTo(assuredUntil)`: as long as that ledger is not reached, the
profile of roles is in place, everything pending is ready only after it, and the
delay is long enough that nothing announced from now on is ready before it.  It
is inductive because each thing that could break it, a shorter delay, a role
granted, an administration offered, is itself an operation that had to be
announced: `ProfileResistsRegistryCalls` and `ProfileResistsOwnCalls` say that
accounts cannot bring it about by themselves.

The storage proofs share one idea: a row `Covers` a number of seconds if it
lives until after them even when ledgers close as fast as they may.  Closing a
ledger takes at least as much from what must be covered as from what is, an
extension only adds, and each operation that makes a row matter covers what is
left of the window or the life at that moment.  For the mainnet registry the
instance is covered by the calls and not by time: the last call left more ledgers
than may pass in silence.

The inductive invariants are stated in the modules of proofs, so no run of the
project checks them whole.  Of that of `CompositeProofs`, the parts `TypeOK`,
`MembershipAgrees` and `BooksMatchTransfers` are invariants of `auction`, and the
other modules' contain the invariants of their runs in the same way.  The type
invariants of the smaller modules are proved, and no run repeats them.

Only model-checked: the liveness properties of `settle` (`EveryPoolSettles`,
`EveryChildSettles`), `scan` (`Returns`) and `governance` (`DueIsSettled`).
Fairness and `ENABLED` are out of the prover's reach.  Every invariant, action
property and refinement that a run checks is also a theorem, and the run shows
that its premises occur.

## 5. Not modelled, and what is left

Not modelled:

* events and error codes: output; a call that fails changes no state, and which
  error it reports does not matter to any property;
* the deployment scripts and workflows: build and release tooling;
* the tests' probe contracts, except the token that calls back (`Reentry`);
* XDR encodings and hashes: ids are model values, so a hash is injective;
* the time to live of the instance of the composite and the simple registry:
  their code never extends it, and bounds no mandate's life, so it makes no
  promise to check.  Their mandate rows outside a pool are written as `Written`
  in `PoolRows` has it;
* the timelock as its own proposer, canceller or executor, and operations of
  the timelock on contracts other than the registry within `MainnetGovernance`
  (`Timelock` has them);
* the allocation root of a capture: an event.

The order the project was built in: `Schedule`, `Clearing`, `ClearingScan`,
`AdminPlane`, `Composite` with `SpendAuthority`; `SimpleRegistry` and
`ReferencePolicy`; `MainnetRegistry`, `Timelock` and both together with
`AnnouncedChange`; the rows; `Reentry`.  The proofs of each came with it.

Left, most useful first:

1. Several mandates and a pool on the rows of one registry, with the instance.
2. The clearing function's calls as `clear_pool` makes them: that the views
   `build_child_views` hands over satisfy `InputsAreCalls` follows from
   `TermsHold` and `OneChildPerUser` of `CompositeProofs`, but no theorem joins
   the two modules.
3. Two pools, or a pool and a policy, drawing on one user's funds under a token
   that calls back: `Reentry` has one pool, and leaves funds to the token, which
   may refuse any transfer.
