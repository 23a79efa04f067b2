SPECIFICATION Spec
CONSTANTS
  r1 = r1
  r2 = r2
  d1 = d1
  d2 = d2
  p1 = p1
  TestRow = TestRow
  NoRow = NoRow
  Recipients = {r1}
  Dispatchers = {d1}
  Preparers = {p1}
  BatchSize = 5
  MaxAttempts = 2
  Pinned = TRUE
  Budget <- OutageBudget
SYMMETRY Symmetry
INVARIANTS OptOutBarrier
PROPERTIES RowsSettleOnce CampaignEndsOnce
CHECK_DEADLOCK FALSE
