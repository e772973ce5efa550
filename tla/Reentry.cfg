\* A pool of two members and a mandate of the reference policy.
CONSTANTS
  m1 = m1
  m2 = m2
  Mandates = {m1, m2, m3}
  Policed = {m3}
  Nonces = {n1, n2}
  Amounts = {1, 2}
  MaxAmount = 2
  Priors = {0, 1}
  Threshold = 1
  MaxDepth = 3
  PoolLegs <- MCPoolLegs
SPECIFICATION ReentrySpec
INVARIANTS BooksHold OneOutcome NonceOnce LockHoldsAndIsReleased
CHECK_DEADLOCK FALSE
