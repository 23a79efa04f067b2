SPECIFICATION Spec
CONSTANTS
  Explored = {"inbound", "auth", "subscription", "knowledge", "records", "versions", "roles", "lines", "intake", "numbers",
              "conversation", "drafts", "sites", "dialogue",
              "verification", "spending", "identity", "prices", "browser", "opening", "throttle"}
  q1 = q1
  q2 = q2
  p1 = p1
  m1 = m1
  m2 = m2
  r1 = r1
  r2 = r2
  r3 = r3
  s0 = s0
  a1 = a1
  a2 = a2
  d1 = d1
  d2 = d2
  j1 = j1
  j2 = j2
  k1 = k1
  k2 = k2
  c1 = c1
  c2 = c2
  e1 = e1
  t1 = t1
  t2 = t2
  o1 = o1
  n0 = n0
  s1 = s1
  p2 = p2
  b0 = b0
  Deliveries <- Redelivered
  OptOuts = {m2}
  JobAttempts = 2
  ActionLimit = 0
  TurnCap = 1
  InboundFaults = 0
  Requests = {r1, r2, r3}
  FirstSession = s0
  Passwords = 1
  AuthCrashes = 1
  Asks = {a1, a2}
  Decisions = {d1, d2}
  Editions = 1
  Ingestions = {j1, j2}
  Chunks = 2
  IngestAttempts = 2
  IngestFaults = 1
  Customers = {c1, c2}
  Arrivals <- OneArrival
  Merges <- OneMerge
  Erasures = {e1}
  RecordFaults = 1
  Configs = {k1, k2}
  Changes = {r1, r2, r3}
  VersionFaults = 1
  ToolCalls = {t1, t2}
  ToolKinds = {"followup", "custom"}
  ToolLimit = 1
  MaxFailures = 2
  ToolFaults = 1
  VoiceOrgs = {o1}
  NumberRequests = {r1, r2, r3}
  Nothing = n0
  NumberFaults = 1
  Intakes = {r1, r2}
  IntakeRows <- SheetRows
  IntakePhones = {p1, p2}
  BadPhone = b0
  IntakeFaults = 1
  Lines = {k1, k2, c1}
  FirstLine = k1
  LineRequests = {r1, r2}
  Receivers = {p1}
  LineFaults = 1
  LineEvents = 1
  Codes = {d1, d2}
  OldCodes = {d1}
  RoleRows = {t1, t2, k1, k2}
  AgentRow = k1
  TeamRow = t1
  RoleActors = {r1, r2}
  RoleFaults = 1
  Drafts = {d1, d2}
  Leads = {p1, p2}
  LeadLists <- DraftLists
  EnrolCap = 1
  DraftFaults = 1
  SiteLeads = {a1, a2}
  Analyses = {r1, r2}
  MaxRedirects = 1
  Subpages = 1
  NoProfile = n0
  SiteFaults = 1
  DialogueTools = {t1}
  Utterances = 1
  DialogueFaults = 1
  Scopes = {s1}
  CodeRequests = {q1, q2}
  Verifies = {r1, r2}
  CodeLimit = 1
  AttemptLimit = 1
  VerificationFaults = 1
  PaidCalls = {c1, c2}
  LineLimit = 1
  CallCost = 1
  Preparers = {d1}
  BatchSize = 2
  CallBudgets = {0, 1}
  TextBudgets = {1}
  SpendFaults = 1
  Callers = {c1}
  CampaignTexts = {t1}
  Chats = {m1, m2}
  Arriving = "+9665x"
  HistoryLimit = 1
  IdentityFaults = 1
  Prices = {2500, 2550}
  Percents = {3, 7}
  Amounts <- Quotes
  TextLength = 2
  Tries = 2
  Tabs = {t1, t2}
  Users = {r1, r2}
  OrgsOf <- TheirOrgs
  OwnOrg <- FirstOrg
  NoOrg = n0
  SignIns = 2
  Openings = {q1, q2}
  Spellings = {a1, a2}
  PlainSpelling = a1
  OpeningFaults = 1
  Hosts = {k1, k2}
  Logins = {p1}
  MaxPerHost = 2
  MaxPerLogin = 1
  Window = 2
  Lockout = 2
  Horizon = 3
  Restarts = 1
INVARIANTS PlatformTypeOK InboundHolds  IndexedOnce   ToldTruly
            LinesHold DialogueHolds 
CHECK_DEADLOCK FALSE
