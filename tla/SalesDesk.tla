----------------------------- MODULE SalesDesk -----------------------------
(***************************************************************************)
(* The sales conversation with a lead that a campaign has reached          *)
(* (sales-conversation.service.ts): each message is a handler of its own,  *)
(* and those of one customer overlap.  Whatever goes wrong, the message is *)
(* left to the support chain.  The lead's status has a history             *)
(* (leads.service.ts), the owner is alerted once (hot-lead.service.ts).    *)
(***************************************************************************)
EXTENDS Naturals

CONSTANTS
  SalesMessages,  \* messages of the customer
  SalesFaults     \* bound: statements that fail, deaths of the process

ASSUME SalesAssumption == SalesFaults \in Nat

VARIABLES
  sale,        \* each handler: [at, optOut, decision, hot], optOut of its message
  moving,      \* its LeadsService.transition: [at, to], [at |-> "no"] outside
  leadNow,     \* leads.status
  trail,       \* the newest of lead_state_transitions: its toStatus
  dncListed,   \* the customer is in dnc_entries
  alertRow,    \* hot_lead_alerts has the lead and campaign
  ownerAlerts, \* alerts the owner has received
  replied,     \* messages the customer has received a sales reply to
  salesFaults,
  interleaved, \* history: two transitions met, or one was not recorded
  broken       \* history: messages whose handler met a failing statement

saleVars == <<sale, moving, leadNow, trail, dncListed, alertRow, ownerAlerts, replied, salesFaults,
              interleaved, broken>>

SaleDecisions == {"REPLY", "OFFER_DISCOUNT", "CUSTOM_SOFTWARE", "HANDOFF", "NO_REPLY"}
SaleSteps == {"idle", "dnc", "contact", "read", "turn", "alert", "claim", "tellOwner", "decide",
              "send", "sent", "handled", "support", "dead"}
LeadStatuses == {"CONTACTED", "REPLIED", "INTERESTED", "NOT_INTERESTED", "READY_TO_BUY", "HOT",
                 "DO_NOT_CONTACT", "CUSTOM_SOFTWARE_REQUEST", "HANDED_TO_SUPPORT"}

\* No transition under way.
Still == [at |-> "no", to |-> "CONTACTED"]

SalesTypeOK ==
  /\ sale \in [SalesMessages -> [at : SaleSteps, optOut : BOOLEAN, decision : SaleDecisions, hot : BOOLEAN]]
  /\ moving \in [SalesMessages -> [at : {"no", "look", "write", "record"}, to : LeadStatuses]]
  /\ {leadNow, trail} \subseteq LeadStatuses
  /\ dncListed \in BOOLEAN /\ alertRow \in BOOLEAN /\ interleaved \in BOOLEAN /\ ownerAlerts \in Nat
  /\ replied \subseteq SalesMessages /\ broken \subseteq SalesMessages /\ salesFaults \in 0..SalesFaults

SalesInit ==
  /\ sale = [s \in SalesMessages |-> [at |-> "idle", optOut |-> FALSE, decision |-> "NO_REPLY", hot |-> FALSE]]
  /\ moving = [s \in SalesMessages |-> Still]
  /\ leadNow = "CONTACTED" /\ trail = "CONTACTED" /\ dncListed = FALSE
  /\ alertRow = FALSE /\ ownerAlerts = 0 /\ replied = {} /\ salesFaults = 0
  /\ interleaved = FALSE /\ broken = {}

leadVars == <<leadNow, trail, interleaved>>
alertVars == <<alertRow, ownerAlerts>>
failVars == <<salesFaults, broken>>

\* The next statement of a handler, once its transition is over.
Handles(s, from, to) ==
  /\ sale[s].at = from /\ moving[s].at = "no" /\ sale' = [sale EXCEPT ![s].at = to]

\* ... which is followed by a transition.
AndMoves(s, status) == moving' = [moving EXCEPT ![s] = [at |-> "look", to |-> status]]

SalesFault(s) ==
  salesFaults < SalesFaults /\ salesFaults' = salesFaults + 1 /\ broken' = broken \cup {s}

-----------------------------------------------------------------------------
(* LeadsService.transition: read, write by id, record *)

MovingElsewhere(s) == \E u \in SalesMessages \ {s} : moving[u].at \in {"write", "record"}

LookAtLead(s) ==
  /\ moving[s].at = "look"
  /\ moving' = [moving EXCEPT ![s] = IF leadNow = @.to THEN Still ELSE [@ EXCEPT !.at = "write"]]
  /\ UNCHANGED <<sale, leadVars, dncListed, alertVars, replied, failVars>>

WriteLead(s) ==
  /\ moving[s].at = "write" /\ moving' = [moving EXCEPT ![s].at = "record"]
  /\ leadNow' = moving[s].to /\ interleaved' = (interleaved \/ MovingElsewhere(s))
  /\ UNCHANGED <<sale, trail, dncListed, alertVars, replied, failVars>>

RecordTransition(s) ==
  /\ moving[s].at = "record" /\ moving' = [moving EXCEPT ![s] = Still]
  /\ trail' = moving[s].to
  /\ UNCHANGED <<sale, leadNow, interleaved, dncListed, alertVars, replied, failVars>>

-----------------------------------------------------------------------------
(* handleInbound *)

\* An opt-out that marks the contact and leaves the list alone (a slip SalesTurnsHold must notice).
NotOnTheList(s, optOut) ==
  /\ sale[s].at = "idle"
  /\ sale' = [sale EXCEPT ![s].at = IF optOut THEN "contact" ELSE "read", ![s].optOut = optOut]
  /\ UNCHANGED <<moving, leadVars, dncListed, alertVars, replied, failVars>>

\* A message of a conversation that a campaign began, up to the recipient's row, which is in
\* Campaign.
SalesMessage(s, optOut) ==
  /\ sale[s].at = "idle"
  /\ sale' = [sale EXCEPT ![s].at = IF optOut THEN "dnc" ELSE "read", ![s].optOut = optOut]
  /\ UNCHANGED <<moving, leadVars, dncListed, alertVars, replied, failVars>>

\* addNormalized, whose loop over the number's leads is a transition of its own.
AddToDnc(s) ==
  /\ Handles(s, "dnc", "contact") /\ dncListed' = TRUE /\ AndMoves(s, "DO_NOT_CONTACT")
  /\ UNCHANGED <<leadVars, alertVars, replied, failVars>>

OptOutContact(s) ==
  /\ Handles(s, "contact", "handled") /\ AndMoves(s, "DO_NOT_CONTACT")
  /\ UNCHANGED <<leadVars, dncListed, alertVars, replied, failVars>>

\* What a message is taken for, where the status or the alert depends on it; a classifier that
\* fails says OTHER and LOW, and the words of a buyer say PURCHASE_INTENT whatever it says.
SaleIntents == {"PURCHASE_INTENT", "INTERESTED", "NOT_INTERESTED", "OTHER"}
InterestLevels == {"LOW", "HIGH", "READY_TO_BUY"}

\* leadStatusForIntent
LeadStatusFor(intent, level, current) ==
  IF intent = "PURCHASE_INTENT" \/ level = "READY_TO_BUY" THEN "READY_TO_BUY"
  ELSE IF intent = "NOT_INTERESTED" THEN "NOT_INTERESTED"
  ELSE IF intent = "INTERESTED" \/ level = "HIGH" THEN "INTERESTED"
  ELSE IF current = "CONTACTED" THEN "REPLIED" ELSE current

\* The lead is read and the message classified meanwhile.
ClassifyIntent(s, intent, level) ==
  /\ sale[s].at = "read" /\ moving[s].at = "no"
  /\ sale' = [sale EXCEPT ![s].at = "turn",
                          ![s].hot = intent = "PURCHASE_INTENT" \/ level = "READY_TO_BUY"]
  /\ AndMoves(s, LeadStatusFor(intent, level, leadNow))
  /\ UNCHANGED <<leadVars, dncListed, alertVars, replied, failVars>>

\* Without its product or lead the message is not a sales message any more.
NothingToSell(s) ==
  /\ Handles(s, "read", "support")
  /\ UNCHANGED <<moving, leadVars, dncListed, alertVars, replied, failVars>>

\* processSalesTurn, and what makes the lead hot.
TakeTurn(s, decision) ==
  /\ sale[s].at = "turn" /\ moving[s].at = "no"
  /\ LET hot == sale[s].hot \/ decision = "OFFER_DISCOUNT"
     IN /\ sale' = [sale EXCEPT ![s].at = IF hot THEN "alert" ELSE "decide",
                               ![s].decision = decision, ![s].hot = FALSE]
        /\ IF hot THEN AndMoves(s, "HOT") ELSE UNCHANGED moving
  /\ UNCHANGED <<leadVars, dncListed, alertVars, replied, failVars>>

-----------------------------------------------------------------------------
(* notifyIfNeeded *)

\* The owner may have left no telephone number.
LookForAlert(s) ==
  /\ \/ Handles(s, "alert", "decide")
     \/ ~alertRow /\ Handles(s, "alert", "claim")
  /\ UNCHANGED <<moving, leadVars, dncListed, alertVars, replied, failVars>>

\* The row is unique: a second one is an exception, and the message goes to support.
ClaimAlert(s) ==
  /\ Handles(s, "claim", IF alertRow THEN "support" ELSE "tellOwner") /\ alertRow' = TRUE
  /\ UNCHANGED <<moving, leadVars, dncListed, ownerAlerts, replied, failVars>>

\* No connection, or a provider that refuses, is no error.
TellOwner(s) ==
  /\ Handles(s, "tellOwner", "decide") /\ ownerAlerts' \in {ownerAlerts, ownerAlerts + 1}
  /\ UNCHANGED <<moving, leadVars, dncListed, alertRow, replied, failVars>>

-----------------------------------------------------------------------------
(* What was decided *)

Decided(s, to) ==
  /\ sale[s].at = "decide" /\ moving[s].at = "no"
  /\ sale' = [sale EXCEPT ![s].at = to, ![s].decision = "NO_REPLY"]

DecideReply(s) ==
  /\ sale[s].decision \in {"REPLY", "OFFER_DISCOUNT"} /\ Decided(s, "send")
  /\ UNCHANGED <<moving, leadVars, dncListed, alertVars, replied, failVars>>

DecideHandOver(s) ==
  /\ sale[s].decision \in {"CUSTOM_SOFTWARE", "HANDOFF"} /\ Decided(s, "handled")
  /\ AndMoves(s, IF sale[s].decision = "HANDOFF" THEN "HANDED_TO_SUPPORT" ELSE "CUSTOM_SOFTWARE_REQUEST")
  /\ UNCHANGED <<leadVars, dncListed, alertVars, replied, failVars>>

DecideNothing(s) ==
  /\ sale[s].decision = "NO_REPLY" /\ Decided(s, "handled")
  /\ UNCHANGED <<moving, leadVars, dncListed, alertVars, replied, failVars>>

\* sendSalesMessage; a refusal is written on the message.
SendReply(s) ==
  /\ \/ Handles(s, "send", "sent") /\ replied' = replied \cup {s}
     \/ Handles(s, "send", "handled") /\ UNCHANGED replied
  /\ UNCHANGED <<moving, leadVars, dncListed, alertVars, failVars>>

MarkSalesSent(s) ==
  /\ Handles(s, "sent", "handled")
  /\ UNCHANGED <<moving, leadVars, dncListed, alertVars, replied, failVars>>

Lost(s) == interleaved' = (interleaved \/ moving[s].at = "record")
Stop(s, at) ==
  /\ sale' = [sale EXCEPT ![s].at = at, ![s].decision = "NO_REPLY", ![s].hot = FALSE]
  /\ moving' = [moving EXCEPT ![s] = Still] /\ Lost(s)
  /\ UNCHANGED <<leadNow, trail, dncListed, alertVars, replied>>

\* The catch of handleInbound, also for the transition that follows the last statement.
SalesFails(s) ==
  /\ sale[s].at \notin {"idle", "support", "dead"}
  /\ sale[s].at # "handled" \/ moving[s].at # "no"
  /\ SalesFault(s) /\ Stop(s, "support")

SalesDies(s) ==
  /\ sale[s].at \notin {"idle", "support", "dead"} /\ SalesFault(s) /\ Stop(s, "dead")

SalesNext ==
  \E s \in SalesMessages :
    \/ \E optOut \in BOOLEAN : SalesMessage(s, optOut)
    \/ AddToDnc(s) \/ OptOutContact(s) \/ NothingToSell(s)
    \/ \E intent \in SaleIntents, level \in InterestLevels : ClassifyIntent(s, intent, level)
    \/ \E decision \in SaleDecisions : TakeTurn(s, decision)
    \/ LookForAlert(s) \/ ClaimAlert(s) \/ TellOwner(s)
    \/ DecideReply(s) \/ DecideHandOver(s) \/ DecideNothing(s) \/ SendReply(s) \/ MarkSalesSent(s)
    \/ LookAtLead(s) \/ WriteLead(s) \/ RecordTransition(s)
    \/ SalesFails(s) \/ SalesDies(s)

SalesSpec == SalesInit /\ [][SalesNext]_saleVars

-----------------------------------------------------------------------------

\* However the handlers of one customer's messages interleave: the owner is alerted once; a
\* message that was answered is left to support only if a statement failed; one that asked not
\* to be contacted is never answered, and handled only with the number on the list; and the
\* newest transition is the lead's status, unless transitions overlap, which read, write and
\* record without a lock (leads.service.ts:198-206).
SalesTurnsHold ==
  /\ ownerAlerts <= 1
  /\ \A s \in replied : sale[s].at = "support" => s \in broken
  /\ \A s \in {u \in SalesMessages : sale[u].optOut} : s \notin replied /\ (sale[s].at = "handled" => dncListed)
  /\ interleaved \/ trail = leadNow \/ \E s \in SalesMessages : moving[s].at = "record"
=============================================================================
