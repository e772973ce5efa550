---------------------------- MODULE ClearingScan ----------------------------
(***************************************************************************)
(* The loops of clearing::clear, one iteration a step: sort the eligible   *)
(* children by id, collect the breakpoints in ascending order, scan the    *)
(* intervals from below, and bisect the first that can clear.  The result  *)
(* is compared with Clearing, which the composite registry uses, and with  *)
(* the reference: the lowest price at which both thresholds are met.       *)
(***************************************************************************)
EXTENDS Clearing, SequencesExt

CONSTANT Inputs    \* the calls: [views, thresholdQty, thresholdValue, feeBps]

\* A child as build_child_views presents it.
View == [mandate_id : Nat, schedule : Seq(SchedulePoint), eligible : BOOLEAN]

\* The calls the registry makes: the children of a pool, each once and with a
\* schedule register_mandate accepted, under thresholds register_pool did not
\* refuse (pool.rs:58) and a fee of at most the whole.
ASSUME InputsAreCalls ==
  \A in \in Inputs :
    /\ in.views \in Seq(View)
    /\ \A i \in DOMAIN in.views : ValidSchedule(in.views[i].schedule)
    /\ \A i, j \in DOMAIN in.views :
         in.views[i].mandate_id = in.views[j].mandate_id => i = j
    /\ in.thresholdQty \in Nat /\ in.thresholdValue \in Nat
    /\ in.thresholdQty # 0 \/ in.thresholdValue # 0
    /\ in.feeBps \in 0 .. BPS_DENOM

VARIABLES
  input,        \* the call being served
  phase,        \* the loop that runs: "sort", "union", "scan", "bisect", "done"
  next,         \* position in the list the loop walks
  point,        \* position in the schedule of the child being collected
  kids,         \* eligible views, in id order
  breakpoints,  \* ascending, without duplicates
  lo, hi,       \* the bracket of the binary search; lo = prev + 1 before it
  outcome       \* what clear() returns

vars == <<input, phase, next, point, kids, breakpoints, lo, hi, outcome>>

NoFire == [fires |-> FALSE, clearing_price |-> 0, allocations |-> <<>>,
           total_qty |-> 0, net_value |-> 0]

\* The children as Clearing sees them: rows of a list.
SchedulesOf(list) == [i \in DOMAIN list |-> list[i].schedule]

TotalQtyOf(p) == TotalQty(SchedulesOf(kids), DOMAIN kids, p)
NetValueOf(p) == NetValue(SchedulesOf(kids), DOMAIN kids, p, input.feeBps)

\* What the child at position n is allocated at price p.
AllocationOf(n, p) == [mandate_id |-> kids[n].mandate_id,
                       qty |-> Demand(kids[n].schedule, p)]

\* The allocations of the first n children: positive quantities, in id order.
Allocated(p) ==
  LET upTo[n \in 0 .. Len(kids)] ==
        IF n = 0 THEN <<>>
        ELSE IF AllocationOf(n, p).qty = 0 THEN upTo[n - 1]
        ELSE Append(upTo[n - 1], AllocationOf(n, p))
  IN  upTo[Len(kids)]

OutcomeAt(p) ==
  [fires |-> TRUE, clearing_price |-> p, allocations |-> Allocated(p),
   total_qty |-> TotalQtyOf(p), net_value |-> NetValueOf(p)]

Init ==
  /\ input \in Inputs
  /\ phase = "sort"
  /\ next = 1 /\ point = 1
  /\ kids = <<>>
  /\ breakpoints = <<>>
  /\ lo = 1 /\ hi = 0
  /\ outcome = NoFire

-----------------------------------------------------------------------------
\* The first position whose element satisfies Stop, or the end.
FirstPosition(list, Stop(_)) ==
  Min({i \in DOMAIN list : Stop(list[i])} \cup {Len(list) + 1})

\* Fault: a later child is put before an equal or greater id only at the head.
InsertByIdAtHead(list, view) == <<view>> \o list

InsertById(list, view) ==
  InsertAt(list, FirstPosition(list, LAMBDA k : k.mandate_id > view.mandate_id),
           view)

\* Loop 1: the next view, skipped unless eligible.
SortView ==
  /\ phase = "sort"
  /\ next \in DOMAIN input.views
  /\ kids' = IF input.views[next].eligible
             THEN InsertById(kids, input.views[next]) ELSE kids
  /\ next' = next + 1
  /\ UNCHANGED <<input, phase, point, breakpoints, lo, hi, outcome>>

\* No eligible child: nothing fires.
Sorted ==
  /\ phase = "sort"
  /\ next \notin DOMAIN input.views
  /\ phase' = IF kids = <<>> THEN "done" ELSE "union"
  /\ next' = 1
  /\ UNCHANGED <<input, point, kids, breakpoints, lo, hi, outcome>>

\* Fault: equal prices are collected again, and the order follows arrival.
AppendPrice(list, p) == Append(list, p)

InsertPrice(list, p) ==
  IF Contains(list, p) THEN list
  ELSE InsertAt(list, FirstPosition(list, LAMBDA q : q > p), p)

\* Loop 2: the next breakpoint of the next child.
CollectPoint ==
  /\ phase = "union"
  /\ next \in DOMAIN kids
  /\ breakpoints' = InsertPrice(breakpoints, kids[next].schedule[point].unit_price)
  /\ IF point < Len(kids[next].schedule)
     THEN point' = point + 1 /\ UNCHANGED next
     ELSE point' = 1 /\ next' = next + 1
  /\ UNCHANGED <<input, phase, kids, lo, hi, outcome>>

Collected ==
  /\ phase = "union"
  /\ next \notin DOMAIN kids
  /\ phase' = "scan"
  /\ next' = 1
  /\ UNCHANGED <<input, point, kids, breakpoints, lo, hi, outcome>>

\* Fault: the quantity threshold must be exceeded.
IntervalExceeds(b) ==
  /\ TotalQtyOf(b) > input.thresholdQty
  /\ NetValueOf(b) >= input.thresholdValue

IntervalClears(b) ==
  /\ TotalQtyOf(b) >= input.thresholdQty
  /\ NetValueOf(b) >= input.thresholdValue

\* Loop 3: the next interval, (previous breakpoint, b].
ScanInterval ==
  /\ phase = "scan"
  /\ next \in DOMAIN breakpoints
  /\ LET b == breakpoints[next]
     IN  IF IntervalClears(b)
         THEN /\ phase' = "bisect"
              /\ hi' = b
              /\ UNCHANGED <<lo, next>>
         ELSE /\ lo' = b + 1
              /\ next' = next + 1
              /\ UNCHANGED <<phase, hi>>
  /\ UNCHANGED <<input, point, kids, breakpoints, outcome>>

\* No interval clears.
Scanned ==
  /\ phase = "scan"
  /\ next \notin DOMAIN breakpoints
  /\ phase' = "done"
  /\ UNCHANGED <<input, next, point, kids, breakpoints, lo, hi, outcome>>

\* Fault: a probe that falls short is kept in the bracket.
MidKept == lo + (hi - lo) \div 2

\* Fault: the probe is rounded up when the bracket restarts behind it.
MidRoundedUp == lo + (hi - lo + 1) \div 2 + 1

\* Where the bracket restarts when the probe falls short.
MidPlusOne == lo + (hi - lo) \div 2 + 1

\* Loop 4: halve the bracket around the lowest price that nets the value.
Bisect ==
  /\ phase = "bisect"
  /\ lo < hi
  /\ LET mid == lo + (hi - lo) \div 2
     IN  IF NetValueOf(mid) >= input.thresholdValue
         THEN hi' = mid /\ UNCHANGED lo
         ELSE lo' = MidPlusOne /\ UNCHANGED hi
  /\ UNCHANGED <<input, phase, next, point, kids, breakpoints, outcome>>

Bisected ==
  /\ phase = "bisect"
  /\ lo >= hi
  /\ phase' = "done"
  /\ outcome' = OutcomeAt(lo)
  /\ UNCHANGED <<input, next, point, kids, breakpoints, lo, hi>>

Next ==
  \/ SortView \/ Sorted
  \/ CollectPoint \/ Collected
  \/ ScanInterval \/ Scanned
  \/ Bisect \/ Bisected

\* The loops run inside one transaction: nothing can stop them half way.
Spec == Init /\ [][Next]_vars /\ WF_vars(Next)

-----------------------------------------------------------------------------
(* Properties. *)

\* The eligible children of the call, as a set of rows of its views.
EligibleViews == {i \in DOMAIN input.views : input.views[i].eligible}

QtyAt(p) == TotalQty(SchedulesOf(input.views), EligibleViews, p)
NetAt(p) == NetValue(SchedulesOf(input.views), EligibleViews, p, input.feeBps)

\* A price at which the pool can clear, whatever the code's intervals are.
Feasible(p) == /\ QtyAt(p) >= input.thresholdQty
               /\ NetAt(p) >= input.thresholdValue

\* The loops find the globally lowest feasible integer price, and fire exactly
\* when there is one: the interval scan and the binary search miss none, for
\* any order of the views.  (clearing.rs:8-16)
FindsLowestPrice ==
  phase = "done" =>
    LET feasible == {p \in 1 .. MAX_UNIT_PRICE : Feasible(p)}
    IN  /\ outcome.fires <=> feasible # {}
        /\ outcome.fires => outcome.clearing_price = Min(feasible)

\* The loops and the closed form the composite model uses agree.
AgreesWithClearing ==
  phase = "done" =>
    LET S      == SchedulesOf(input.views)
        firing == FiringBreakpoints(S, EligibleViews, input.thresholdQty,
                                    input.thresholdValue, input.feeBps)
    IN  /\ outcome.fires <=> firing # {}
        /\ outcome.fires => outcome.clearing_price =
             ClearingPrice(S, EligibleViews, input.thresholdQty,
                           input.thresholdValue, input.feeBps)

\* Every buyer is allocated its demand at the price, once, in id order, and
\* the outcome's totals are those of its allocations, fee deducted leg by leg.
\* (the order in which capture transfers, and the root it publishes)
AllocationsAreCanonical ==
  phase = "done" /\ outcome.fires =>
    LET p     == outcome.clearing_price
        rows  == outcome.allocations
        ids   == [i \in DOMAIN rows |-> rows[i].mandate_id]
        kid(id) == CHOOSE i \in EligibleViews : input.views[i].mandate_id = id
    IN  /\ \A i, j \in DOMAIN ids : i < j => ids[i] < ids[j]
        /\ \A i \in DOMAIN rows :
             rows[i].qty = Demand(input.views[kid(ids[i])].schedule, p)
        /\ Range(ids) = {input.views[i].mandate_id :
             i \in {k \in EligibleViews : Demand(input.views[k].schedule, p) > 0}}
        /\ outcome.total_qty = Total([i \in DOMAIN rows |-> rows[i].qty], DOMAIN rows)
        /\ outcome.net_value =
             Total([i \in DOMAIN rows |-> NetLeg(rows[i].qty, p, input.feeBps)],
                   DOMAIN rows)

\* The bracket always holds the answer: its upper end nets the threshold, and
\* no price of the interval below its lower end does.
BracketHoldsAnswer ==
  phase = "bisect" =>
    /\ lo <= hi
    /\ NetAt(hi) >= input.thresholdValue
    /\ \A p \in 1 .. lo - 1 : ~Feasible(p)

\* clear() returns.
Returns == <>(phase = "done")
=============================================================================
