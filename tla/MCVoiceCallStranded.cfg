SPECIFICATION FairSpec
CONSTANTS
  c1 = c1
  c2 = c2
  e1 = e1
  e2 = e2
  NoCall = NoCall
  Calls = {c1}
  Enders = {e1, e2}
  Limit = 1
  Speech <- Words
  Budget <- CrashBudget
PROPERTIES StrandedIsClosed
CHECK_DEADLOCK FALSE
