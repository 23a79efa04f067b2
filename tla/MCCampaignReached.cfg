SPECIFICATION Spec
CONSTANTS
  r1 = r1
  r2 = r2
  d1 = d1
  d2 = d2
  p1 = p1
  TestRow = TestRow
  NoRow = NoRow
  Recipients = {r1}
  Dispatchers = {d1}
  Preparers = {p1}
  BatchSize = 5
  MaxAttempts = 2
  Pinned = TRUE
  Budget <- LiveBudget
SYMMETRY Symmetry
PROPERTIES ReachedIsNotRetried
CHECK_DEADLOCK FALSE
