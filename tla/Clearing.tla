------------------------------ MODULE Clearing ------------------------------
(***************************************************************************)
(* The clearing function of the composite contract (clearing.rs), as a     *)
(* function of the eligible children.  K is a finite set of children and   *)
(* sched[k] the schedule of child k.  The function is stated through its   *)
(* intervals: demand is constant between two neighbouring breakpoints, so  *)
(* the answer lies in the first interval that meets both thresholds at its *)
(* upper end.  ClearingScan models the loops that compute it.              *)
(***************************************************************************)
EXTENDS Schedule

CONSTANT BPS_DENOM       \* basis points in a whole: the fee's denominator

ASSUME BpsDenomPositive == BPS_DENOM \in Nat \ {0}

\* The sum of f over K.
Total(f, K) == FoldFunctionOnSet(+, 0, f, K)

\* The fee of a leg, rounded down.
FeeOf(leg, feeBps) == (leg * feeBps) \div BPS_DENOM

\* What the merchant nets for q units at price p.
NetLeg(q, p, feeBps) == p * q - FeeOf(p * q, feeBps)

TotalQty(sched, K, p) == Total([k \in K |-> Demand(sched[k], p)], K)

NetValue(sched, K, p, feeBps) ==
  Total([k \in K |-> NetLeg(Demand(sched[k], p), p, feeBps)], K)

\* Every price at which the demand of some child changes.
Breakpoints(sched, K) ==
  UNION {{sched[k][i].unit_price : i \in DOMAIN sched[k]} : k \in K}

\* Both thresholds are met at price p.
MeetsThresholds(sched, K, p, thresholdQty, thresholdValue, feeBps) ==
  /\ TotalQty(sched, K, p) >= thresholdQty
  /\ NetValue(sched, K, p, feeBps) >= thresholdValue

\* The upper ends of the intervals in which the pool can clear.
FiringBreakpoints(sched, K, thresholdQty, thresholdValue, feeBps) ==
  {b \in Breakpoints(sched, K) :
     MeetsThresholds(sched, K, b, thresholdQty, thresholdValue, feeBps)}

\* Fault: the upper end is taken without a search.
OnlyUpperEnd(sched, K, b, thresholdValue, feeBps) == {b}

\* The prices of the interval that ends in b which net the threshold value.
PricesUpTo(sched, K, b, thresholdValue, feeBps) ==
  LET prev == Max({0} \cup {c \in Breakpoints(sched, K) : c < b})
  IN  {p \in prev + 1 .. b : NetValue(sched, K, p, feeBps) >= thresholdValue}

\* The uniform price: the lowest in the first interval that can clear.
ClearingPrice(sched, K, thresholdQty, thresholdValue, feeBps) ==
  LET first == Min(FiringBreakpoints(sched, K, thresholdQty, thresholdValue, feeBps))
  IN  Min(PricesUpTo(sched, K, first, thresholdValue, feeBps))
=============================================================================
