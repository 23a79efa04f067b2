SPECIFICATION Spec
CONSTANTS
  r1 = r1
  r2 = r2
  d1 = d1
  d2 = d2
  p1 = p1
  TestRow = TestRow
  NoRow = NoRow
  Recipients = {r1, r2}
  Dispatchers = {d1, d2}
  Preparers = {p1}
  BatchSize = 5
  MaxAttempts = 3
  Pinned = TRUE
  Budget <- DispatchBudget
SYMMETRY Symmetry
INVARIANTS ClaimExclusive PauseBarrier SentIsCounted
CHECK_DEADLOCK FALSE
