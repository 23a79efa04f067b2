SPECIFICATION FairSpec
CONSTANTS
  Explored = {"escalation", "inbound", "queue", "desk", "screens", "sales"}
  q1 = q1
  q2 = q2
  p1 = p1
  i1 = i1
  m1 = m1
  m2 = m2
  u1 = u1
  u2 = u2
  c1 = c1
  c2 = c2
  r1 = r1
  r2 = r2
  s1 = s1
  s2 = s2
  Questions = {q1, q2}
  PhoneReplies = {p1}
  InboxReplies = {i1}
  NoQuestion = NoQuestion
  AutoLearning = TRUE
  Disturbances = 1
  Deliveries <- DeliveredOnce
  OptOuts = {m2}
  JobAttempts = 2
  ActionLimit = 0
  TurnCap = 1
  InboundFaults = 1
  Retriers = {u1, u2}
  Attempts = 3
  QueueFaults = 1
  Reports = 1
  Convs = {c1, c2}
  Members = {m1}
  DeskRequests = {r1, r2}
  DeskFaults = 1
  MaxItems = 2
  Updates = 1
  PageLimit = 1
  Reconnections = 1
  Fetches = 2
  ScreenFaults = 2
  SalesMessages = {s1, s2}
  SalesFaults = 1
INVARIANTS MessagingTypeOK RelaysAreArmed CopiesAreExplained AssignmentIsRecorded SalesTurnsHold 
PROPERTIES ImplementsLedger NewestAnswered SettledInTheEnd
CHECK_DEADLOCK FALSE
