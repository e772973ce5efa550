\* Two children, schedules of up to two points, with and without a fee.
SPECIFICATION Spec
CONSTANTS
  MAX_SCHEDULE_POINTS = 2
  MAX_UNIT_PRICE = 4
  MAX_QTY = 2
  BPS_DENOM = 4
  FeeRates = {0, 1}
  MaxThresholdValue = 6
  Inputs <- SmallInputs
INVARIANTS FindsLowestPrice AgreesWithClearing AllocationsAreCanonical BracketHoldsAnswer
PROPERTY Returns
CHECK_DEADLOCK FALSE
