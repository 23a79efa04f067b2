---------------------------- MODULE MCPlatform ----------------------------
(***************************************************************************)
(* The parts of the platform that share no state with each other, each on  *)
(* a small instance.  A behaviour is one of one of the parts: `part' says  *)
(* which, and the others stay where they start.                            *)
(***************************************************************************)
EXTENDS InboundMessage, AuthSession, Subscriptions, KnowledgeIngestion, CustomerRecords,
        AgentVersions, CallConversation, VoiceNumbers, LeadIntake, WhatsappInstances, RoleGrants,
        CampaignDrafts, WebsiteProfiles, CallDialogue, CallerVerification, SpendingLimits,
        CallerIdentity, QuotedPrices, BrowserSession, AccountOpening, LoginThrottle, TLC

CONSTANTS
  Explored,  \* the parts a run looks at
  q1, q2, p1, m1, m2, r1, r2, r3, s0, a1, a2, d1, d2, j1, j2, k1, k2, c1, c2, e1, t1, t2,
  o1, n0, s1, p2, b0

\* Rows of a file: valid numbers, one of them twice, and one that is none.
SheetRows == {<<p1, b0, p1, p2>>, <<p1>>}

\* A message delivered twice and one delivered once.
Redelivered == {<<m1, 1>>, <<m1, 2>>, <<m2, 1>>}

\* One customer who writes again, and may turn out to be another.
OneArrival == {<<c1, 1>>}
OneMerge == {<<c1, c2>>}

\* The lists of two campaigns: one of two leads or of one twice, the other of one of them.
DraftLists == [d \in {d1, d2} |-> IF d = d1 THEN {<<p1, p2>>, <<p1, p1>>} ELSE {<<p1>>}]

\* Amounts a text may name: the prices, and another.
Quotes == {[digits |-> 25, point |-> 0], [digits |-> 26, point |-> 0], [digits |-> 2550, point |-> 2]}

\* The organizations of two people: one is in both, and sees the first.
TheirOrgs == [u \in {r1, r2} |-> IF u = r1 THEN {o1, s1} ELSE {s1}]
FirstOrg == [u \in {r1, r2} |-> IF u = r1 THEN o1 ELSE s1]

VARIABLE part

Init ==
  /\ part \in Explored
  /\ InboundInit /\ AuthInit /\ IngestionInit
  /\ RecordsInit /\ VersionsInit
  /\ ConversationInit /\ NumbersInit /\ IntakeInit /\ LinesInit /\ RolesInit
  /\ SubscriptionInit /\ (part = "subscription" \/ subscription.status = "NONE")
  /\ DraftsInit /\ SitesInit /\ DialogueInit /\ VerificationInit
  /\ IdentityInit /\ PricesInit /\ (part = "prices" \/ PricesAtRest)
  /\ BrowserInit /\ OpeningInit /\ ThrottleInit
  /\ SpendingInit /\ (part = "spending" \/ SpendingAtRest)

\* One part moves, the others do not.
Only(mine, next, variables) ==
  IF part = mine THEN next ELSE UNCHANGED variables

Next ==
  /\ UNCHANGED part
  /\ Only("inbound", InboundNext, inboundVars)
  /\ Only("auth", AuthNext, authVars)
  /\ Only("subscription", SubscriptionNext, subVars)
  /\ Only("knowledge", IngestionNext, kbVars)
  /\ Only("records", RecordsNext, recordVars)
  /\ Only("versions", VersionsNext, versionVars)
  /\ Only("roles", RolesNext, roleVars)
  /\ Only("lines", LinesNext, lineVars)
  /\ Only("intake", IntakeNext, intakeVars)
  /\ Only("numbers", NumbersNext, numberVars)
  /\ Only("conversation", ConversationNext, convVars)
  /\ Only("drafts", DraftsNext, draftVars)
  /\ Only("sites", SitesNext, siteVars)
  /\ Only("dialogue", DialogueNext, dialogueVars)
  /\ Only("verification", VerificationNext, verificationVars)
  /\ Only("spending", SpendingNext, spendVars)
  /\ Only("identity", IdentityNext, identityVars)
  /\ Only("prices", PricesNext, priceVars)
  /\ Only("browser", BrowserNext, browserVars)
  /\ Only("opening", OpeningNext, openingVars)
  /\ Only("throttle", ThrottleNext, throttleVars)

vars == <<part, inboundVars, authVars, subVars, kbVars, recordVars, versionVars, convVars, numberVars,
          intakeVars, lineVars, roleVars, draftVars, siteVars, dialogueVars, verificationVars, spendVars,
          identityVars, priceVars, browserVars, openingVars, throttleVars>>

Spec == Init /\ [][Next]_vars

\* The types of the part that moves; the others stay as they start.
PlatformTypeOK ==
  /\ part = "inbound" => InboundTypeOK
  /\ part = "auth" => AuthTypeOK
  /\ part = "subscription" => SubscriptionTypeOK
  /\ part = "knowledge" => IngestionTypeOK
  /\ part = "records" => RecordsTypeOK
  /\ part = "versions" => VersionsTypeOK
  /\ part = "conversation" => ConversationTypeOK
  /\ part = "numbers" => NumbersTypeOK
  /\ part = "intake" => IntakeTypeOK
  /\ part = "lines" => LinesTypeOK
  /\ part = "roles" => RolesTypeOK
  /\ part = "drafts" => DraftsTypeOK
  /\ part = "sites" => SitesTypeOK
  /\ part = "dialogue" => DialogueTypeOK
  /\ part = "verification" => VerificationTypeOK
  /\ part = "spending" => SpendingTypeOK
  /\ part = "identity" => IdentityTypeOK
  /\ part = "prices" => PricesTypeOK
  /\ part = "browser" => BrowserTypeOK
  /\ part = "opening" => OpeningTypeOK
  /\ part = "throttle" => ThrottleTypeOK

\* From a file of numbers to a campaign's texts: what is counted is what is there, nobody is
\* enrolled or sent to twice, each lead's site has one decided profile, what a text says of
\* money is the product's, and every channel finds the same customer (lead-import,
\* campaigns.service, website-intelligence, sales-agent, caller-identity).
OutreachHolds == LeadsAreAccounted /\ DraftsHold /\ ProfilesHold /\ PricesHold /\ IdentityHolds

\* How an account is opened, how often its password may be tried, who is signed in, what a
\* browser remembers of it, what the organization has asked and paid for, and what its roles
\* let its members do (auth.service, platform.service, auth-throttle.guard, useAuth,
\* subscription-requests.service, organizations.service, sync-roles, bootstrap-roles).
AccountsHold ==
  /\ OpeningsHold /\ ThrottleHolds /\ AccountHolds
  /\ BrowserHolds /\ SubscribedAsAsked /\ RolesHold

\* What calls are made with: codes and attempts to give them are limited, calls and texts
\* exceed a budget only by what was under way, and the numbers paid for are those shown
\* (verification.service, voice-usage.service, voice-numbers.service).
CallsHold == VerificationHolds /\ SpendingHolds /\ NumbersAreHeld
=============================================================================
