--------------------------- MODULE CampaignDrafts ---------------------------
(***************************************************************************)
(* From a list of leads to a campaign (campaigns.service.ts): who is       *)
(* enrolled is decided by a check of each lead and written one row at a    *)
(* time, while other campaigns are created, prepared and sent.  Campaign   *)
(* takes over when rows are dispatched; here a row is sent in one step.    *)
(***************************************************************************)
EXTENDS Naturals, Sequences, FiniteSets, SequencesExt

CONSTANTS
  Drafts,      \* campaigns to be
  Leads,       \* leads of the organization
  LeadLists,   \* lists of leads that the request for each may hold, a lead twice too
  EnrolCap,    \* canaryMaxRecipients or maxLeadsPerCampaign
  DraftFaults  \* bound: statements, texts and sends that fail, deaths of the process, overrides,
               \* dry runs, cancellations, removals of the product and new entries on the
               \* do-not-contact list, together

ASSUME DraftsAssumption ==
  /\ IsFiniteSet(Leads) /\ EnrolCap \in Nat /\ DraftFaults \in Nat
  /\ LeadLists \in [Drafts -> SUBSET (Seq(Leads) \ {<<>>})]

VARIABLES
  product,    \* sales_products: the row of the one slug, "none", "live" or "removed"
  campaign,   \* campaigns: each [status, total, skipped]
  creation,   \* create() of each: [at, left, override, enrolled, skipped, finding]
  enrolled,   \* campaign_recipients: each campaign's rows [status, text], by lead
  onDncList,  \* leads on the do-not-contact list
  leftOut,    \* history: leads that the last dry run of a campaign did not name as ones a
              \* start would send to, and who have not changed since
  doubled,    \* history: campaigns whose owner overrides earlier contact, or whose creation
              \* overlapped another's
  muddled,    \* history: campaigns with a statement failed, a lead listed twice, or
              \* prepared while rows were still being created
  draftFaults

draftVars == <<product, campaign, creation, enrolled, onDncList, leftOut, doubled, muddled, draftFaults>>

DraftStatus == {"NONE", "DRAFT", "PREPARING", "READY", "RUNNING", "CANCELLED"}
RowStatus == {"NONE", "PENDING", "QUEUED", "SENT", "FAILED", "SKIPPED", "CANCELLED"}
CreationSteps == {"idle", "check", "enrol", "done", "failed"}
NoCreation ==
  [at |-> "idle", left |-> <<>>, override |-> FALSE, enrolled |-> 0, skipped |-> 0, finding |-> "NONE"]
NoRow == [status |-> "NONE", text |-> "PENDING"]

Once == draftFaults < DraftFaults /\ draftFaults' = draftFaults + 1
OnceIf(rare) == IF rare THEN Once ELSE UNCHANGED draftFaults

DraftsTypeOK ==
  /\ product \in {"none", "live", "removed"}
  /\ campaign \in [Drafts -> [status : DraftStatus, total : Nat, skipped : Nat]]
  /\ creation \in [Drafts -> [at : CreationSteps, left : Seq(Leads), override : BOOLEAN,
                             enrolled : Nat, skipped : Nat, finding : RowStatus]]
  /\ enrolled \in [Drafts -> [Leads -> [status : RowStatus, text : {"PENDING", "READY", "FAILED"}]]]
  /\ leftOut \in [Drafts -> SUBSET Leads]
  /\ onDncList \subseteq Leads /\ doubled \subseteq Drafts /\ muddled \subseteq Drafts
  /\ draftFaults \in 0..DraftFaults

DraftsInit ==
  /\ product = "none"
  /\ campaign = [d \in Drafts |-> [status |-> "NONE", total |-> 0, skipped |-> 0]]
  /\ creation = [d \in Drafts |-> NoCreation]
  /\ enrolled = [d \in Drafts |-> [l \in Leads |-> NoRow]]
  /\ onDncList = {} /\ doubled = {} /\ muddled = {} /\ draftFaults = 0
  /\ leftOut = [d \in Drafts |-> {}]

creating == <<campaign, creation>>
draftHistory == <<leftOut, doubled, muddled, draftFaults>>
settled == <<leftOut, doubled, muddled>>

Touch(leads) == leftOut' = [d \in Drafts |-> leftOut[d] \ leads]

-----------------------------------------------------------------------------
(* The product that is advertised *)

\* The check passes over a removed product, and the unique index of slugs does not: the
\* creation fails.
CreateProduct ==
  /\ product = "none" /\ product' = "live"
  /\ UNCHANGED <<creating, enrolled, onDncList, draftHistory>>

RemoveProduct ==
  /\ product = "live" /\ product' = "removed" /\ Once
  /\ UNCHANGED <<creating, enrolled, onDncList, settled>>

-----------------------------------------------------------------------------
(* create() *)

Enrolments(l) == {d \in Drafts : enrolled[d][l].status \in {"PENDING", "QUEUED"}}
SentBefore(l) == \E d \in Drafts : enrolled[d][l].status = "SENT"
Open == {"DRAFT", "PREPARING", "READY", "RUNNING"}

\* What stands against a lead, in the order of the code.
CheckEligibility(l) ==
  CASE l \in onDncList -> "DNC"
    [] l \notin onDncList /\ SentBefore(l) -> "PREVIOUSLY_CONTACTED"
    [] OTHER -> IF \E d \in Enrolments(l) : campaign[d].status \in Open THEN "ACTIVE_CAMPAIGN" ELSE "NONE"

CreateDraft(d, leads, override) ==
  /\ creation[d].at = "idle" /\ product = "live"
  /\ creation' = [creation EXCEPT ![d].at = "check", ![d].left = leads, ![d].override = override]
  /\ campaign' = [campaign EXCEPT ![d].status = "DRAFT"]
  /\ doubled' = LET others == {e \in Drafts \ {d} : creation[e].at \in {"check", "enrol"}} IN
       doubled \cup others \cup (IF override \/ others # {} THEN {d} ELSE {})
  /\ muddled' = IF IsInjective(leads) THEN muddled ELSE muddled \cup {d}
  /\ OnceIf(override) /\ UNCHANGED <<product, enrolled, onDncList, leftOut>>

MayEnrol(d, found) == found = "NONE" \/ (found = "PREVIOUSLY_CONTACTED" /\ creation[d].override)

\* One lead more than the cap (a slip OutreachHolds must notice).
EnrolStatusInclusive(d, found) ==
  IF MayEnrol(d, found) /\ creation[d].enrolled <= EnrolCap THEN "PENDING" ELSE "SKIPPED"

EnrolStatus(d, found) ==
  IF MayEnrol(d, found) /\ creation[d].enrolled < EnrolCap THEN "PENDING" ELSE "SKIPPED"

\* The lead is counted when it is checked, before its row is there.
CheckLead(d) ==
  /\ creation[d].at = "check" /\ creation[d].left # <<>>
  /\ LET status == EnrolStatus(d, CheckEligibility(Head(creation[d].left)))
         one == IF status = "PENDING" THEN 1 ELSE 0
     IN creation' = [creation EXCEPT ![d] = [creation[d] EXCEPT !.at = "enrol", !.finding = status,
                                                               !.enrolled = @ + one, !.skipped = @ + 1 - one]]
  /\ UNCHANGED <<product, campaign, enrolled, onDncList, draftHistory>>

NextLead(d, more) ==
  creation' = [creation EXCEPT ![d] = [creation[d] EXCEPT !.at = "check", !.left = Tail(@), !.skipped = @ + more]]

CreateRecipient(d) ==
  LET l == Head(creation[d].left) IN
  /\ creation[d].at = "enrol" /\ enrolled[d][l] = NoRow
  /\ enrolled' = [enrolled EXCEPT ![d][l].status = creation[d].finding]
  /\ NextLead(d, 0) /\ Touch({l})
  /\ UNCHANGED <<product, campaign, onDncList, doubled, muddled, draftFaults>>

\* The row is there already: the lead is counted as skipped, whatever it was counted as.
CreateRecipientFails(d) ==
  /\ creation[d].at = "enrol" /\ enrolled[d][Head(creation[d].left)] # NoRow
  /\ NextLead(d, 1)
  /\ UNCHANGED <<product, campaign, enrolled, onDncList, draftHistory>>

RecipientStatementFails(d) ==
  /\ creation[d].at = "enrol" /\ Once
  /\ NextLead(d, 1)
  /\ muddled' = muddled \cup {d}
  /\ UNCHANGED <<product, campaign, enrolled, onDncList, leftOut, doubled>>

CountDraft(d) ==
  /\ creation[d].at = "check" /\ creation[d].left = <<>>
  /\ campaign' = [campaign EXCEPT ![d].total = creation[d].enrolled, ![d].skipped = creation[d].skipped]
  /\ creation' = [creation EXCEPT ![d] = [NoCreation EXCEPT !.at = "done"]]
  /\ UNCHANGED <<product, enrolled, onDncList, draftHistory>>

\* A check or the last write fails, or the process dies: the campaign stays with the rows it has.
CreationDies(d) ==
  /\ creation[d].at = "check" /\ Once
  /\ creation' = [creation EXCEPT ![d] = [NoCreation EXCEPT !.at = "failed"]]
  /\ muddled' = muddled \cup {d}
  /\ UNCHANGED <<product, campaign, enrolled, onDncList, leftOut, doubled>>

-----------------------------------------------------------------------------
(* What happens to the campaign meanwhile, and after *)

PrepareDraft(d) ==
  /\ campaign[d].status = "DRAFT" /\ campaign' = [campaign EXCEPT ![d].status = "PREPARING"]
  /\ UNCHANGED <<product, creation, enrolled, onDncList, leftOut, doubled, draftFaults>>
  /\ muddled' = IF creation[d].at \in {"done", "failed"} THEN muddled ELSE muddled \cup {d}

Unwritten(d) == {l \in Leads : enrolled[d][l].text = "PENDING" /\ enrolled[d][l].status \in {"PENDING", "QUEUED"}}

\* The batches of a preparation, and what is there when they find nobody left.
PrepareBatch(d, written) ==
  /\ enrolled' = [enrolled EXCEPT ![d] = [l \in Leads |->
       IF l \in Unwritten(d) THEN [@[l] EXCEPT !.text = IF l \in written THEN "READY" ELSE "FAILED"] ELSE @[l]]]
  /\ campaign[d].status = "PREPARING" /\ campaign' = [campaign EXCEPT ![d].status = "READY"]
  /\ Touch(Unwritten(d)) /\ OnceIf(written # Unwritten(d))
  /\ UNCHANGED <<product, creation, onDncList, doubled, muddled>>

StartDraft(d) ==
  /\ campaign[d].status = "READY"
  /\ campaign' = [campaign EXCEPT ![d].status = "RUNNING"]
  /\ enrolled' = [enrolled EXCEPT ![d] = [l \in Leads |->
       IF @[l].status = "PENDING" /\ @[l].text = "READY" THEN [@[l] EXCEPT !.status = "QUEUED"] ELSE @[l]]]
  /\ UNCHANGED <<product, creation, onDncList, draftHistory>>

\* Rows that are created after it stay PENDING.
CancelDraft(d) ==
  /\ campaign[d].status \in Open /\ campaign' = [campaign EXCEPT ![d].status = "CANCELLED"]
  /\ enrolled' = [enrolled EXCEPT ![d] = [l \in Leads |->
       IF @[l].status \in {"PENDING", "QUEUED"} THEN [@[l] EXCEPT !.status = "CANCELLED"] ELSE @[l]]]
  /\ Once /\ UNCHANGED <<product, creation, onDncList, settled>>

\* A dispatcher's batch: the do-not-contact list is looked at again, earlier contact is not.
SendRow(d, l, outcome) ==
  /\ campaign[d].status = "RUNNING" /\ enrolled[d][l].status = "QUEUED"
  /\ enrolled' = [enrolled EXCEPT ![d][l].status = IF l \in onDncList THEN "SKIPPED" ELSE outcome]
  /\ OnceIf(outcome = "FAILED")
  /\ UNCHANGED <<product, creating, onDncList, settled>>

OptOut(l) ==
  /\ l \notin onDncList /\ onDncList' = onDncList \cup {l}
  /\ Once /\ Touch({l})
  /\ UNCHANGED <<product, creating, enrolled, doubled, muddled>>

\* The report of a dry run, and the messages shown to the owner, change nothing.
WouldSend(d, l) ==
  /\ enrolled[d][l].status \in {"PENDING", "QUEUED", "FAILED"}
  /\ CheckEligibility(l) # "DNC"
  /\ enrolled[d][l].text = "READY"

DryRun(d) ==
  /\ campaign[d].status # "NONE" /\ Once
  /\ leftOut' = [leftOut EXCEPT ![d] = {l \in Leads : enrolled[d][l].status # "SENT" /\ ~WouldSend(d, l)}]
  /\ UNCHANGED <<product, creating, enrolled, onDncList, doubled, muddled>>

DraftsNext ==
  \/ CreateProduct \/ RemoveProduct
  \/ \E l \in Leads : OptOut(l)
  \/ \E d \in Drafts :
       \/ \E leads \in LeadLists[d], override \in BOOLEAN : CreateDraft(d, leads, override)
       \/ CheckLead(d) \/ CreateRecipient(d) \/ CreateRecipientFails(d)
       \/ RecipientStatementFails(d) \/ CountDraft(d) \/ CreationDies(d)
       \/ PrepareDraft(d) \/ StartDraft(d) \/ CancelDraft(d) \/ DryRun(d)
       \/ \E written \in SUBSET Unwritten(d) : PrepareBatch(d, written)
       \/ \E l \in Leads, outcome \in {"SENT", "FAILED"} : SendRow(d, l, outcome)

DraftsSpec == DraftsInit /\ [][DraftsNext]_draftVars

-----------------------------------------------------------------------------
Enrolled(d) == {l \in Leads : enrolled[d][l].status \in {"PENDING", "QUEUED", "SENT", "FAILED"}}
Recipients(d) == {l \in Leads : enrolled[d][l] # NoRow}

(* A campaign whose creation ended undisturbed counts its rows: everybody on  *)
(* the list has one, and those not enrolled are the skipped ones.  No more    *)
(* than the cap are enrolled.                                                 *)
CountsAreRows ==
  \A d \in Drafts :
    /\ Cardinality(Enrolled(d)) <= EnrolCap
    /\ creation[d].at = "done" /\ d \notin muddled =>
         campaign[d].total + campaign[d].skipped = Cardinality(Recipients(d))
    /\ campaign[d].total >= Cardinality(Enrolled(d)) \/ creation[d].at # "done"

(* Nobody is sent two campaigns' messages, unless the owner has overridden an *)
(* earlier contact or the two campaigns were created at the same time: the    *)
(* send looks at neither.                                                     *)
NobodySentTwice ==
  \A d, e \in Drafts : \A l \in Leads :
    /\ d # e /\ enrolled[d][l].status = "SENT" /\ enrolled[e][l].status = "SENT"
    => d \in doubled \/ e \in doubled

(* Nobody is sent to whom a dry run has left out, unless the row or the lead  *)
(* has changed since.                                                         *)
DryRunForetells ==
  \A d \in Drafts : \A l \in leftOut[d] : enrolled[d][l].status # "SENT"

(* Nobody waits unwritten in a campaign that is past its preparation, unless  *)
(* it was prepared while its rows were still being created.                   *)
NobodyLeftBehind ==
  \A d \in Drafts : campaign[d].status \in {"READY", "RUNNING"} /\ Unwritten(d) # {} => d \in muddled

DraftsHold == CountsAreRows /\ NobodySentTwice /\ DryRunForetells /\ NobodyLeftBehind
=============================================================================
