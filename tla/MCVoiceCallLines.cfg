SPECIFICATION Spec
CONSTANTS
  c1 = c1
  c2 = c2
  e1 = e1
  e2 = e2
  NoCall = NoCall
  Calls = {c1, c2}
  Enders = {e1}
  Limit = 1
  Speech <- Words
  Budget <- LinesBudget
SYMMETRY Symmetry
INVARIANTS LimitKept Accounted
CHECK_DEADLOCK FALSE
