--------------------------- MODULE MCClearingScan ---------------------------
(***************************************************************************)
(* Every call of clear() with two views, in either id order, over schedules *)
(* of at most two points, and thresholds around what they can reach.        *)
(***************************************************************************)
EXTENDS ClearingScan

CONSTANTS FeeRates, MaxThresholdValue

SmallSchedules ==
  LET points == [unit_price : 1 .. MAX_UNIT_PRICE, max_qty : 1 .. MAX_QTY]
  IN  {s \in [1 .. 1 -> points] \cup [1 .. 2 -> points] : ValidSchedule(s)}

Views == {<<[mandate_id |-> i, schedule |-> s, eligible |-> TRUE],
            [mandate_id |-> 3 - i, schedule |-> t, eligible |-> e]>> :
            i \in 1 .. 2, s \in SmallSchedules, t \in SmallSchedules,
            e \in BOOLEAN}

\* register_pool refuses a pool without a threshold.
SmallInputs ==
  {in \in [views : Views, thresholdQty : 0 .. MAX_QTY + 1,
           thresholdValue : 0 .. MaxThresholdValue, feeBps : FeeRates] :
     in.thresholdQty # 0 \/ in.thresholdValue # 0}
=============================================================================
