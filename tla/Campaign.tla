------------------------------ MODULE Campaign ------------------------------
(***************************************************************************)
(* One marketing campaign of the API process                               *)
(* (apps/api/src/marketing/campaigns): its status, its recipient rows, the *)
(* inline loops that prepare and dispatch it, the reaper of stranded rows, *)
(* and what happens around them: replies, opt-outs, a lost WhatsApp        *)
(* connection, the kill switch, the crash of the process.                  *)
(*                                                                         *)
(* A step is what one awaited database statement or provider call does:    *)
(* between two awaits the process may be overtaken by any other handler.   *)
(***************************************************************************)
EXTENDS Naturals, FiniteSets

CONSTANTS
  Recipients,   \* campaign_recipients rows with isTest = false
  TestRow,      \* the isTest row that sendTest upserts
  NoRow,        \* no recipient at hand
  Dispatchers,  \* start/resume requests, each with the runDispatch it spawns
  Preparers,    \* prepare/regenerate requests, each with its runPreparation
  BatchSize,    \* batch of one dispatchBatch or prepareBatch call (5 in the code)
  MaxAttempts,  \* MAX_ATTEMPTS of the reaper (3 in the code)
  Pinned,       \* the campaign names its channelConnectionId
  Budget        \* bounds: how often each event of the environment may happen

Rows == Recipients \cup {TestRow}

Events == {"start", "reply", "dnc", "crash", "throw", "elapse", "test", "toggle", "regen", "exhaust"}

ASSUME CampaignAssumption ==
  /\ IsFiniteSet(Recipients) /\ IsFiniteSet(Dispatchers)
  /\ TestRow \notin Recipients /\ NoRow \notin Rows
  /\ BatchSize \in Nat \ {0}
  /\ MaxAttempts \in Nat \ {0}
  /\ Pinned \in BOOLEAN
  /\ Budget \in [Events -> Nat]

VARIABLES
  campaign,     \* campaigns.status
  sentCount,    \* campaigns.sentCount
  failedCount,  \* campaigns.failedCount
  status,       \* campaign_recipients.status of every row
  pers,         \* campaign_recipients.personalizationStatus
  attempts,     \* campaign_recipients.attemptCount
  last,         \* lastAttemptAt: never set, recent, or older than STRANDED_AFTER_MS
  provId,       \* whether campaign_recipients.providerMessageId is set
  lead,         \* leads.status of the recipient's lead
  dnc,          \* an active dnc_entries row for the recipient's number
  recent,       \* an isMarketing message row of the contact inside the frequency window
  linked,       \* the conversation's metadata.salesContext names the recipient
  kill,         \* the kill switch is on, or the module's entitlement is off
  connected,    \* the channel connection is CONNECTED
  pc, rec, batch, saw,  \* each dispatcher: next step, recipient, rest of the batch, last read
  prep,         \* each preparer: next step, rest of the batch, status read before it
  cancelling,   \* cancel() has set CANCELLED and not yet closed the rows
  pauseDue,     \* a disconnect was stored and its campaigns are not yet paused
  dncStep,      \* what addNormalized still has to do for the number
  reaper,       \* the reaper's snapshot and the counter it still has to raise
  tester,       \* a test send in flight
  calls,        \* history: messages the provider accepted for each recipient
  atStop,       \* history: dispatchers past the re-check when the campaign stopped running
  atDnc,        \* history: dispatchers past the gate when the number was opted out
  spent         \* how many of each bounded event have happened

campaignVars == <<campaign, sentCount, failedCount, atStop>>
rowVars == <<status, pers, attempts, last, provId>>
worldVars == <<lead, dnc, recent, linked, kill, connected, atDnc>>
dispatchVars == <<pc, rec, batch, saw>>
handlerVars == <<prep, cancelling, pauseDue, dncStep, reaper, tester>>
vars == <<campaignVars, rowVars, worldVars, dispatchVars, handlerVars, calls, spent>>

-----------------------------------------------------------------------------
CampaignStatus ==
  {"DRAFT", "PREPARING", "READY", "RUNNING", "PAUSED", "COMPLETED", "CANCELLED"}
RowStatus ==
  {"NONE", "PENDING", "QUEUED", "SENDING", "SENT", "REPLIED", "FAILED", "SKIPPED", "CANCELLED"}
Steps ==
  {"idle", "requeue", "batch", "next", "checks", "drop", "claim", "recheck", "revert",
   "gate", "skip", "link", "create", "send", "finish", "count", "leadRead", "leadWrite",
   "fail", "countFail", "countQueued", "countSending", "complete"}
\* The steps of a dispatcher that is not inside sendToRecipient.
Unassigned == {"idle", "requeue", "batch", "next", "countQueued", "countSending", "complete"}
PrepSteps == {"idle", "read", "work", "flip", "regenCampaign"}

\* sendToRecipient's try block: an exception there is recorded on the row.
TryBlock == {"gate", "skip", "link", "create", "send", "finish", "count", "leadRead", "leadWrite"}
\* From the claim to the message row; the claim's holder cannot be overtaken by the reaper.
Holding == {"recheck", "revert", "gate", "skip", "link", "create"}
PastGate == {"link", "create", "send"}
PastRecheck == {"gate", "skip", "link", "create", "send"}

Init ==
  /\ campaign = "DRAFT" /\ sentCount = 0 /\ failedCount = 0
  /\ \E enrolled \in [Recipients -> {"PENDING", "SKIPPED"}] :
       status = [r \in Rows |-> IF r = TestRow THEN "NONE" ELSE enrolled[r]]
  /\ pers = [r \in Recipients |-> "PENDING"]
  /\ attempts = [r \in Rows |-> 0]
  /\ last = [r \in Rows |-> "never"]
  /\ provId = [r \in Rows |-> FALSE]
  /\ lead = [r \in Recipients |-> "ELIGIBLE"]
  /\ dnc = [r \in Recipients |-> FALSE]
  /\ recent = [r \in Recipients |-> FALSE]
  /\ linked = [r \in Recipients |-> FALSE]
  /\ kill = FALSE /\ connected = TRUE
  /\ pc = [d \in Dispatchers |-> "idle"]
  /\ rec = [d \in Dispatchers |-> NoRow]
  /\ batch = [d \in Dispatchers |-> {}]
  /\ saw = [d \in Dispatchers |-> FALSE]
  /\ prep = [p \in Preparers |-> [pc |-> "idle", todo |-> {}, saw |-> FALSE]]
  /\ cancelling = FALSE /\ pauseDue = FALSE
  /\ dncStep = [r \in Recipients |-> "none"]
  /\ reaper = [rows |-> {}, withId |-> {}, exhausted |-> {}, due |-> "none"]
  /\ tester = "idle"
  /\ calls = [r \in Recipients |-> 0]
  /\ atStop = {} /\ atDnc = [r \in Recipients |-> {}]
  /\ spent = [e \in Events |-> 0]

Spend(e) == spent[e] < Budget[e] /\ spent' = [spent EXCEPT ![e] = @ + 1]

\* The campaign takes a status other than RUNNING.
StopAs(s) ==
  /\ campaign' = s
  /\ atStop' = {d \in Dispatchers : pc[d] \in PastRecheck}

Running == campaign = "RUNNING"

\* The same update by id alone (a slip RowsSettleOnce must notice).
MoveById(r, from, to) == status' = [status EXCEPT ![r] = to]

\* updateMany({ where: { id: r, status: { in: from } }, data: { status: to } })
Move(r, from, to) ==
  status' = [status EXCEPT ![r] = IF @ \in from THEN to ELSE @]

RowsWith(s) == {r \in Recipients : status[r] = s}

\* findMany with take: BatchSize returns all of S or BatchSize members of it.
Batches(S) ==
  {B \in SUBSET S : Cardinality(B) <= BatchSize /\ (B = S \/ Cardinality(B) = BatchSize)}

-----------------------------------------------------------------------------
(* start(), resume() and the dispatch loop they spawn *)

Goto(d, step) == pc' = [pc EXCEPT ![d] = step]

\* The loop of dispatcher d ends; nothing of it outlives the call.
Leave(d) ==
  /\ Goto(d, "idle")
  /\ rec' = [rec EXCEPT ![d] = NoRow]
  /\ batch' = [batch EXCEPT ![d] = {}]
  /\ saw' = [saw EXCEPT ![d] = FALSE]

\* The next round would still name the last recipient (a slip TypeOK must notice).
ReturnKeepingRec(d) ==
  /\ Goto(d, "next")
  /\ saw' = [saw EXCEPT ![d] = FALSE]
  /\ UNCHANGED <<rec, batch>>

\* dispatchBatch goes on with the rest of its batch.
Return(d) ==
  /\ Goto(d, "next")
  /\ rec' = [rec EXCEPT ![d] = NoRow]
  /\ saw' = [saw EXCEPT ![d] = FALSE]
  /\ UNCHANGED batch

Step(d, from, to) == pc[d] = from /\ Goto(d, to) /\ UNCHANGED <<rec, batch, saw>>

\* start(): the atomic READY | PAUSED -> RUNNING guard.
Start(d) ==
  /\ campaign \in {"READY", "PAUSED"}
  /\ Step(d, "idle", "requeue")
  /\ campaign' = "RUNNING"
  /\ Spend("start")
  /\ UNCHANGED <<sentCount, failedCount, atStop, rowVars, worldVars, handlerVars, calls>>

\* The rows are queued and no loop is spawned (a slip QueueDrains must notice).
RequeueOnly(d) ==
  /\ Step(d, "requeue", "idle")
  /\ status' = [r \in Rows |->
       IF r \in RowsWith("PENDING") /\ pers[r] = "READY" THEN "QUEUED" ELSE status[r]]
  /\ UNCHANGED <<campaignVars, pers, attempts, last, provId, worldVars, handlerVars, calls, spent>>

\* start(): its second statement queues the prepared rows.
Requeue(d) ==
  /\ Step(d, "requeue", "batch")
  /\ status' = [r \in Rows |->
       IF r \in RowsWith("PENDING") /\ pers[r] = "READY" THEN "QUEUED" ELSE status[r]]
  /\ UNCHANGED <<campaignVars, pers, attempts, last, provId, worldVars, handlerVars, calls, spent>>

\* dispatchBatch reads the campaign and up to BatchSize QUEUED rows.
ReadBatch(d) ==
  /\ pc[d] = "batch"
  /\ \/ /\ Running
        /\ \E B \in Batches(RowsWith("QUEUED")) : batch' = [batch EXCEPT ![d] = B]
        /\ Goto(d, "next")
        /\ UNCHANGED <<rec, saw>>
     \/ ~Running /\ Leave(d)
  /\ UNCHANGED <<campaignVars, rowVars, worldVars, handlerVars, calls, spent>>

\* runDispatch gives up after its 500 rounds, however many this stands for.
Exhaust(d) ==
  /\ pc[d] = "batch" /\ Leave(d)
  /\ Spend("exhaust")
  /\ UNCHANGED <<campaignVars, rowVars, worldVars, handlerVars, calls>>

\* The loop's status check and sendToRecipient's first read, which repeats it.
NextRecipient(d) ==
  /\ pc[d] = "next"
  /\ \/ /\ Running
        /\ \E r \in batch[d] :
             /\ rec' = [rec EXCEPT ![d] = r]
             /\ batch' = [batch EXCEPT ![d] = @ \ {r}]
             /\ saw' = [saw EXCEPT ![d] = pers[r] = "READY"]
        /\ Goto(d, "checks")
     \/ /\ batch[d] = {} \/ ~Running
        /\ Goto(d, "countQueued")
        /\ batch' = [batch EXCEPT ![d] = {}]
        /\ UNCHANGED <<rec, saw>>
  /\ UNCHANGED <<campaignVars, rowVars, worldVars, handlerVars, calls, spent>>

\* sendToRecipient before the claim: entitlement and kill switch, do-not-contact,
\* personalization, connection, in that order. Two of them end the whole batch.
Check(d) ==
  /\ pc[d] = "checks"
  /\ \/ /\ kill \/ (~dnc[rec[d]] /\ saw[d] /\ ~connected)
        /\ Goto(d, "countQueued")
        /\ rec' = [rec EXCEPT ![d] = NoRow]
        /\ batch' = [batch EXCEPT ![d] = {}]
        /\ saw' = [saw EXCEPT ![d] = FALSE]
     \/ ~kill /\ dnc[rec[d]] /\ Step(d, "checks", "drop")
     \/ ~kill /\ ~dnc[rec[d]] /\ ~saw[d] /\ Return(d)
     \/ ~kill /\ ~dnc[rec[d]] /\ saw[d] /\ connected /\ Step(d, "checks", "claim")
  /\ UNCHANGED <<campaignVars, rowVars, worldVars, handlerVars, calls, spent>>

\* markSkipped: before the claim ("drop") or inside the try block ("skip").
MarkSkipped(d) ==
  /\ pc[d] \in {"drop", "skip"}
  /\ Move(rec[d], {"PENDING", "QUEUED", "SENDING"}, "SKIPPED")
  /\ Return(d)
  /\ UNCHANGED <<campaignVars, pers, attempts, last, provId, worldVars, handlerVars, calls, spent>>

\* A claim that trusts the status read with the batch (a slip ClaimExclusive must notice).
ClaimUnguarded(d) ==
  /\ Step(d, "claim", "recheck")
  /\ Move(rec[d], RowStatus, "SENDING")
  /\ attempts' = [attempts EXCEPT ![rec[d]] = @ + 1]
  /\ last' = [last EXCEPT ![rec[d]] = "recent"]
  /\ UNCHANGED <<campaignVars, pers, provId, worldVars, handlerVars, calls, spent>>

\* The atomic claim QUEUED -> SENDING.
Claim(d) ==
  /\ pc[d] = "claim"
  /\ IF status[rec[d]] = "QUEUED"
     THEN /\ Move(rec[d], {"QUEUED"}, "SENDING")
          /\ attempts' = [attempts EXCEPT ![rec[d]] = @ + 1]
          /\ last' = [last EXCEPT ![rec[d]] = "recent"]
          /\ Step(d, "claim", "recheck")
     ELSE Return(d) /\ UNCHANGED <<status, attempts, last>>
  /\ UNCHANGED <<campaignVars, pers, provId, worldVars, handlerVars, calls, spent>>

\* No second look at the campaign (a slip PauseBarrier must notice).
RecheckNothing(d) ==
  /\ Step(d, "recheck", "gate")
  /\ UNCHANGED <<campaignVars, rowVars, worldVars, handlerVars, calls, spent>>

\* The campaign is read again after the claim, to close the pause race.
Recheck(d) ==
  /\ Step(d, "recheck", IF Running THEN "gate" ELSE "revert")
  /\ UNCHANGED <<campaignVars, rowVars, worldVars, handlerVars, calls, spent>>

Revert(d) ==
  /\ pc[d] = "revert"
  /\ Move(rec[d], {"SENDING"}, "QUEUED")
  /\ Return(d)
  /\ UNCHANGED <<campaignVars, pers, attempts, last, provId, worldVars, handlerVars, calls, spent>>

-----------------------------------------------------------------------------
(* sendToRecipient: the try block *)

\* The gate without its frequency cap (a slip OnePerWindow must notice) ...
GateWithoutFrequency(d) ==
  /\ pc[d] = "gate"
  /\ \/ Step(d, "gate", "skip")
     \/ ~kill /\ ~dnc[rec[d]] /\ Step(d, "gate", "link")
  /\ UNCHANGED <<campaignVars, rowVars, worldVars, handlerVars, calls, spent>>

\* ... or relying on the do-not-contact check before the claim (OptOutBarrier must notice).
GateWithoutDnc(d) ==
  /\ pc[d] = "gate"
  /\ \/ Step(d, "gate", "skip")
     \/ ~kill /\ ~recent[rec[d]] /\ Step(d, "gate", "link")
  /\ UNCHANGED <<campaignVars, rowVars, worldVars, handlerVars, calls, spent>>

\* OutboundGuard.check: kill switch, do-not-contact, contact frequency; the daily cap
\* and the quiet hours depend on the rest of the organization and on the clock.
Gate(d) ==
  /\ pc[d] = "gate"
  /\ \/ Step(d, "gate", "skip")
     \/ ~kill /\ ~dnc[rec[d]] /\ ~recent[rec[d]] /\ Step(d, "gate", "link")
  /\ UNCHANGED <<campaignVars, rowVars, worldVars, handlerVars, calls, spent>>

\* The conversation is found or created and its salesContext written.
Link(d) ==
  /\ Step(d, "link", "create")
  /\ linked' = [linked EXCEPT ![rec[d]] = TRUE]
  /\ UNCHANGED <<campaignVars, rowVars, lead, dnc, recent, kill, connected, atDnc, handlerVars, calls, spent>>

\* The isMarketing message row is written before the provider is called.
Create(d) ==
  /\ Step(d, "create", "send")
  /\ recent' = [recent EXCEPT ![rec[d]] = TRUE]
  /\ UNCHANGED <<campaignVars, rowVars, lead, dnc, linked, kill, connected, atDnc, handlerVars, calls, spent>>

\* The provider accepts the text; the answer may still be lost (Throw at "finish").
Send(d) ==
  /\ Step(d, "send", "finish")
  /\ calls' = [calls EXCEPT ![rec[d]] = @ + 1]
  /\ UNCHANGED <<campaignVars, rowVars, worldVars, handlerVars, spent>>

\* SENT written by id, whatever the row has become (a slip ImplementsOutreach must notice).
FinishById(d) ==
  /\ Step(d, "finish", "count")
  /\ MoveById(rec[d], {"SENDING"}, "SENT")
  /\ provId' = [provId EXCEPT ![rec[d]] = TRUE]
  /\ UNCHANGED <<campaignVars, pers, attempts, last, worldVars, handlerVars, calls, spent>>

\* The guarded SENDING -> SENT.
Finish(d) ==
  /\ Step(d, "finish", "count")
  /\ Move(rec[d], {"SENDING"}, "SENT")
  /\ provId' = [provId EXCEPT ![rec[d]] = @ \/ status[rec[d]] = "SENDING"]
  /\ UNCHANGED <<campaignVars, pers, attempts, last, worldVars, handlerVars, calls, spent>>

\* The counter written from a value read before (a slip SentIsCounted must notice).
CountSentStale(d) ==
  /\ Step(d, "count", "leadRead")
  /\ sentCount' \in {sentCount, sentCount + 1}
  /\ UNCHANGED <<campaign, failedCount, atStop, rowVars, worldVars, handlerVars, calls, spent>>

CountSent(d) ==
  /\ Step(d, "count", "leadRead")
  /\ sentCount' = sentCount + 1
  /\ UNCHANGED <<campaign, failedCount, atStop, rowVars, worldVars, handlerVars, calls, spent>>

\* The lead's status is read ...
ReadLead(d) ==
  /\ pc[d] = "leadRead"
  /\ IF lead[rec[d]] = "ELIGIBLE" THEN Step(d, "leadRead", "leadWrite") ELSE Return(d)
  /\ UNCHANGED <<campaignVars, rowVars, worldVars, handlerVars, calls, spent>>

\* ... and overwritten by id, whatever it has become.
WriteLead(d) ==
  /\ pc[d] = "leadWrite" /\ Return(d)
  /\ lead' = [lead EXCEPT ![rec[d]] = "CONTACTED"]
  /\ UNCHANGED <<campaignVars, rowVars, dnc, recent, linked, kill, connected, atDnc, handlerVars, calls, spent>>

\* A provider or database error inside the try block.
Throw(d) ==
  /\ pc[d] \in TryBlock /\ Step(d, pc[d], "fail")
  /\ Spend("throw")
  /\ UNCHANGED <<campaignVars, rowVars, worldVars, handlerVars, calls>>

\* catch: the guarded SENDING -> FAILED, then the unguarded counter.
Fail(d) ==
  /\ Step(d, "fail", "countFail")
  /\ Move(rec[d], {"SENDING"}, "FAILED")
  /\ UNCHANGED <<campaignVars, pers, attempts, last, provId, worldVars, handlerVars, calls, spent>>

CountFailed(d) ==
  /\ pc[d] = "countFail" /\ Return(d)
  /\ failedCount' = failedCount + 1
  /\ UNCHANGED <<campaign, sentCount, atStop, rowVars, worldVars, handlerVars, calls, spent>>

\* An error anywhere else rejects runDispatch, whose caller swallows it.
Abort(d) ==
  /\ pc[d] \notin TryBlock \cup {"idle"} /\ Leave(d)
  /\ Spend("throw")
  /\ UNCHANGED <<campaignVars, rowVars, worldVars, handlerVars, calls>>

-----------------------------------------------------------------------------
(* dispatchBatch after its loop: two counts, then RUNNING -> COMPLETED *)

CountQueued(d) ==
  /\ pc[d] = "countQueued" /\ Goto(d, "countSending")
  /\ saw' = [saw EXCEPT ![d] = RowsWith("QUEUED") = {}]
  /\ UNCHANGED <<rec, batch, campaignVars, rowVars, worldVars, handlerVars, calls, spent>>

CountSending(d) ==
  /\ pc[d] = "countSending"
  /\ Goto(d, IF saw[d] /\ RowsWith("SENDING") = {} THEN "complete" ELSE "batch")
  /\ saw' = [saw EXCEPT ![d] = FALSE]
  /\ UNCHANGED <<rec, batch, campaignVars, rowVars, worldVars, handlerVars, calls, spent>>

Complete(d) ==
  /\ pc[d] = "complete" /\ Leave(d)
  /\ IF Running THEN StopAs("COMPLETED") ELSE UNCHANGED <<campaign, atStop>>
  /\ UNCHANGED <<sentCount, failedCount, rowVars, worldVars, handlerVars, calls, spent>>

-----------------------------------------------------------------------------
(* prepare(), regeneratePersonalization() and the preparation loop they spawn *)

SetPrep(p, step, todo, seen) ==
  prep' = [prep EXCEPT ![p] = [pc |-> step, todo |-> todo, saw |-> seen]]

Unprepared == {r \in Recipients : pers[r] = "PENDING" /\ status[r] \in {"PENDING", "QUEUED"}}

Prepare(p) ==
  /\ prep[p].pc = "idle" /\ campaign = "DRAFT"
  /\ campaign' = "PREPARING"
  /\ SetPrep(p, "read", {}, FALSE)
  /\ UNCHANGED <<sentCount, failedCount, atStop, rowVars, worldVars, dispatchVars,
                 cancelling, pauseDue, dncStep, reaper, tester, calls, spent>>

\* The row goes back to PENDING; the campaign's status was read before it.
Regenerate(p, r) ==
  /\ prep[p].pc = "idle" /\ status[r] = "PENDING"
  /\ pers' = [pers EXCEPT ![r] = "PENDING"]
  /\ SetPrep(p, IF campaign = "READY" THEN "regenCampaign" ELSE "read", {}, FALSE)
  /\ Spend("regen")
  /\ UNCHANGED <<campaignVars, status, attempts, last, provId, worldVars, dispatchVars,
                 cancelling, pauseDue, dncStep, reaper, tester, calls>>

\* READY -> PREPARING on what was read, without a guard on what the status is now.
RegenCampaign(p) ==
  /\ prep[p].pc = "regenCampaign"
  /\ StopAs("PREPARING")
  /\ SetPrep(p, "read", {}, FALSE)
  /\ UNCHANGED <<sentCount, failedCount, rowVars, worldVars, dispatchVars,
                 cancelling, pauseDue, dncStep, reaper, tester, calls, spent>>

\* prepareBatch reads the campaign and its next unprepared rows, or finds nothing to prepare.
PrepRead(p) ==
  /\ prep[p].pc = "read"
  /\ IF campaign \in {"PREPARING", "READY", "RUNNING"}
     THEN \E B \in Batches(Unprepared) : SetPrep(p, "work", B, campaign = "PREPARING")
     ELSE SetPrep(p, "idle", {}, FALSE)
  /\ UNCHANGED <<campaignVars, rowVars, worldVars, dispatchVars,
                 cancelling, pauseDue, dncStep, reaper, tester, calls, spent>>

\* The AI budget is spent: a RUNNING campaign is paused and the loop ends.
OverBudget(p) ==
  /\ prep[p].pc = "read" /\ campaign \in {"PREPARING", "READY", "RUNNING"}
  /\ IF Running THEN StopAs("PAUSED") ELSE UNCHANGED <<campaign, atStop>>
  /\ SetPrep(p, "idle", {}, FALSE)
  /\ Spend("toggle")
  /\ UNCHANGED <<sentCount, failedCount, rowVars, worldVars, dispatchVars,
                 cancelling, pauseDue, dncStep, reaper, tester, calls>>

\* One personalization is generated, or fails, and is written by id.
Personalize(p) ==
  /\ prep[p].pc = "work"
  /\ \E r \in prep[p].todo, outcome \in {"READY", "FAILED"} :
       /\ pers' = [pers EXCEPT ![r] = outcome]
       /\ SetPrep(p, "work", prep[p].todo \ {r}, prep[p].saw)
  /\ UNCHANGED <<campaignVars, status, attempts, last, provId, worldVars, dispatchVars,
                 cancelling, pauseDue, dncStep, reaper, tester, calls, spent>>

PrepCount(p) ==
  /\ prep[p].pc = "work" /\ prep[p].todo = {}
  /\ SetPrep(p, CASE Unprepared # {} -> "read"
                  [] Unprepared = {} /\ prep[p].saw -> "flip"
                  [] OTHER -> "idle", {}, FALSE)
  /\ UNCHANGED <<campaignVars, rowVars, worldVars, dispatchVars,
                 cancelling, pauseDue, dncStep, reaper, tester, calls, spent>>

\* The same by id alone (a slip CampaignEndsOnce must notice).
PrepFlipById(p) ==
  /\ prep[p].pc = "flip"
  /\ campaign' = "READY"
  /\ SetPrep(p, "idle", {}, FALSE)
  /\ UNCHANGED <<sentCount, failedCount, atStop, rowVars, worldVars, dispatchVars,
                 cancelling, pauseDue, dncStep, reaper, tester, calls, spent>>

\* The guarded PREPARING -> READY.
PrepFlip(p) ==
  /\ prep[p].pc = "flip"
  /\ campaign' = IF campaign = "PREPARING" THEN "READY" ELSE campaign
  /\ SetPrep(p, "idle", {}, FALSE)
  /\ UNCHANGED <<sentCount, failedCount, atStop, rowVars, worldVars, dispatchVars,
                 cancelling, pauseDue, dncStep, reaper, tester, calls, spent>>

\* A database error rejects the request or runPreparation, whose caller swallows it.
AbortPrep(p) ==
  /\ prep[p].pc # "idle" /\ SetPrep(p, "idle", {}, FALSE)
  /\ Spend("throw")
  /\ UNCHANGED <<campaignVars, rowVars, worldVars, dispatchVars,
                 cancelling, pauseDue, dncStep, reaper, tester, calls>>

-----------------------------------------------------------------------------
(* The other operator actions and the world around the campaign *)

Pause ==
  /\ Running /\ StopAs("PAUSED")
  /\ UNCHANGED <<sentCount, failedCount, rowVars, worldVars, dispatchVars, handlerVars, calls, spent>>

Cancel ==
  /\ campaign \in {"DRAFT", "PREPARING", "READY", "RUNNING", "PAUSED"}
  /\ StopAs("CANCELLED") /\ cancelling' = TRUE
  /\ UNCHANGED <<sentCount, failedCount, rowVars, worldVars, dispatchVars,
                 prep, pauseDue, dncStep, reaper, tester, calls, spent>>

\* cancel() closes the rows that no dispatcher has claimed.
CancelRows ==
  /\ cancelling /\ cancelling' = FALSE
  /\ status' = [r \in Rows |->
       IF r \in RowsWith("PENDING") \cup RowsWith("QUEUED") THEN "CANCELLED" ELSE status[r]]
  /\ UNCHANGED <<campaignVars, pers, attempts, last, provId, worldVars, dispatchVars,
                 prep, pauseDue, dncStep, reaper, tester, calls, spent>>

\* handleConnectionUpdate stores the new state, then pauses the campaigns that name
\* this connection.
Disconnect ==
  /\ connected /\ connected' = FALSE /\ pauseDue' = Pinned
  /\ Spend("toggle")
  /\ UNCHANGED <<campaignVars, rowVars, lead, dnc, recent, linked, kill, atDnc, dispatchVars,
                 prep, cancelling, dncStep, reaper, tester, calls>>

DisconnectPause ==
  /\ pauseDue /\ pauseDue' = FALSE
  /\ IF Running THEN StopAs("PAUSED") ELSE UNCHANGED <<campaign, atStop>>
  /\ UNCHANGED <<sentCount, failedCount, rowVars, worldVars, dispatchVars,
                 prep, cancelling, dncStep, reaper, tester, calls, spent>>

Reconnect ==
  /\ ~connected /\ connected' = TRUE
  /\ UNCHANGED <<campaignVars, rowVars, lead, dnc, recent, linked, kill, atDnc, dispatchVars,
                 handlerVars, calls, spent>>

ToggleKill ==
  /\ kill' = ~kill
  /\ Spend("toggle")
  /\ UNCHANGED <<campaignVars, rowVars, lead, dnc, recent, linked, connected, atDnc, dispatchVars,
                 handlerVars, calls>>

\* addNormalized: the entry, then the lead, then the lead's open rows.
AddDnc(r) ==
  /\ ~dnc[r] /\ dnc' = [dnc EXCEPT ![r] = TRUE]
  /\ atDnc' = [atDnc EXCEPT ![r] = {d \in Dispatchers : rec[d] = r /\ pc[d] \in PastGate}]
  /\ dncStep' = [dncStep EXCEPT ![r] = "lead"]
  /\ Spend("dnc")
  /\ UNCHANGED <<campaignVars, rowVars, lead, recent, linked, kill, connected, dispatchVars,
                 prep, cancelling, pauseDue, reaper, tester, calls>>

DncLead(r) ==
  /\ dncStep[r] = "lead" /\ dncStep' = [dncStep EXCEPT ![r] = "rows"]
  /\ lead' = [lead EXCEPT ![r] = "DO_NOT_CONTACT"]
  /\ UNCHANGED <<campaignVars, rowVars, dnc, recent, linked, kill, connected, atDnc, dispatchVars,
                 prep, cancelling, pauseDue, reaper, tester, calls, spent>>

DncRows(r) ==
  /\ dncStep[r] = "rows" /\ dncStep' = [dncStep EXCEPT ![r] = "none"]
  /\ Move(r, {"PENDING", "QUEUED"}, "SKIPPED")
  /\ UNCHANGED <<campaignVars, pers, attempts, last, provId, worldVars, dispatchVars,
                 prep, cancelling, pauseDue, reaper, tester, calls, spent>>

\* handleInbound of a conversation that carries the recipient's salesContext. An opt-out
\* in the text goes on as AddDnc.
Reply(r) ==
  /\ linked[r]
  /\ Move(r, {"PENDING", "QUEUED", "SENDING", "SENT"}, "REPLIED")
  /\ Spend("reply")
  /\ UNCHANGED <<campaignVars, pers, attempts, last, provId, worldVars, dispatchVars,
                 handlerVars, calls>>

\* perContactMinIntervalHours pass; no send takes that long.
WindowElapses ==
  /\ \A d \in Dispatchers : pc[d] \notin {"gate", "link", "create", "send", "finish"}
  /\ recent' = [r \in Recipients |-> FALSE]
  /\ Spend("elapse")
  /\ UNCHANGED <<campaignVars, rowVars, lead, dnc, linked, kill, connected, atDnc, dispatchVars,
                 handlerVars, calls>>

-----------------------------------------------------------------------------
(* sendTest, the reaper, the crash *)

\* The upsert stamps lastAttemptAt only when the test row already exists.
TestStart ==
  /\ tester = "idle" /\ ~kill /\ connected
  /\ \E r \in Recipients : pers[r] = "READY"
  /\ last' = [last EXCEPT ![TestRow] = IF status[TestRow] = "NONE" THEN "never" ELSE "recent"]
  /\ status' = [status EXCEPT ![TestRow] = "SENDING"]
  /\ tester' = "send"
  /\ Spend("test")
  /\ UNCHANGED <<campaignVars, pers, attempts, provId, worldVars, dispatchVars,
                 prep, cancelling, pauseDue, dncStep, reaper, calls>>

TestFinish ==
  /\ tester = "send" /\ tester' = "idle"
  /\ \/ /\ status' = [status EXCEPT ![TestRow] = "SENT"]
        /\ provId' = [provId EXCEPT ![TestRow] = TRUE]
     \/ /\ status' = [status EXCEPT ![TestRow] = "FAILED"]
        /\ UNCHANGED provId
  /\ UNCHANGED <<campaignVars, pers, attempts, last, worldVars, dispatchVars,
                 prep, cancelling, pauseDue, dncStep, reaper, calls, spent>>

\* STRANDED_AFTER_MS pass on a claim. Of its live holder only the provider call, which
\* has no timeout, lasts that long; the holder of a crashed process is gone.
Age(r) ==
  /\ status[r] = "SENDING" /\ last[r] = "recent"
  /\ \A d \in Dispatchers : rec[d] = r => pc[d] \notin Holding \cup {"finish", "fail"}
  /\ last' = [last EXCEPT ![r] = "old"]
  /\ UNCHANGED <<campaignVars, status, pers, attempts, provId, worldVars, dispatchVars,
                 handlerVars, calls, spent>>

\* A reaper that passes over the rows it would have to fail (StrandedFreed must notice).
StrandedRetriable ==
  {r \in Rows : status[r] = "SENDING" /\ last[r] = "old" /\ attempts[r] < MaxAttempts}

Stranded == {r \in Rows : status[r] = "SENDING" /\ last[r] = "old"}

\* reap() reads the stranded rows, test rows and other campaigns' states included ...
ReapRead ==
  /\ reaper.rows = {} /\ reaper.due = "none" /\ Stranded # {}
  /\ reaper' = [rows      |-> Stranded,
                withId    |-> {r \in Stranded : provId[r]},
                exhausted |-> {r \in Stranded : attempts[r] >= MaxAttempts},
                due       |-> "none"]
  /\ UNCHANGED <<campaignVars, rowVars, worldVars, dispatchVars,
                 prep, cancelling, pauseDue, dncStep, tester, calls, spent>>

Verdict(r) ==
  CASE r \in reaper.withId -> "SENT"
    [] r \in reaper.exhausted \ reaper.withId -> "FAILED"
    [] OTHER -> "QUEUED"

\* ... and settles them one by one on what it read, if they are still SENDING ...
ReapRow(r) ==
  /\ r \in reaper.rows /\ reaper.due = "none"
  /\ Move(r, {"SENDING"}, Verdict(r))
  /\ reaper' = [rows      |-> reaper.rows \ {r},
                withId    |-> reaper.withId \ {r},
                exhausted |-> reaper.exhausted \ {r},
                due       |-> IF status[r] = "SENDING" /\ Verdict(r) # "QUEUED"
                              THEN Verdict(r) ELSE "none"]
  /\ UNCHANGED <<campaignVars, pers, attempts, last, provId, worldVars, dispatchVars,
                 prep, cancelling, pauseDue, dncStep, tester, calls, spent>>

\* ... raising the campaign's counter after each.
ReapCount ==
  /\ reaper.due # "none"
  /\ sentCount' = sentCount + (IF reaper.due = "SENT" THEN 1 ELSE 0)
  /\ failedCount' = failedCount + (IF reaper.due = "FAILED" THEN 1 ELSE 0)
  /\ reaper' = [reaper EXCEPT !.due = "none"]
  /\ UNCHANGED <<campaign, atStop, rowVars, worldVars, dispatchVars,
                 prep, cancelling, pauseDue, dncStep, tester, calls, spent>>

\* The API process dies and restarts; only the database survives.
Crash ==
  /\ Spend("crash")
  /\ pc' = [d \in Dispatchers |-> "idle"]
  /\ rec' = [d \in Dispatchers |-> NoRow]
  /\ batch' = [d \in Dispatchers |-> {}]
  /\ saw' = [d \in Dispatchers |-> FALSE]
  /\ prep' = [p \in Preparers |-> [pc |-> "idle", todo |-> {}, saw |-> FALSE]]
  /\ cancelling' = FALSE /\ pauseDue' = FALSE
  /\ dncStep' = [r \in Recipients |-> "none"]
  /\ reaper' = [rows |-> {}, withId |-> {}, exhausted |-> {}, due |-> "none"]
  /\ tester' = "idle"
  /\ UNCHANGED <<campaignVars, rowVars, worldVars, calls>>

-----------------------------------------------------------------------------
Dispatch(d) ==
  \/ Start(d) \/ Requeue(d) \/ ReadBatch(d) \/ Exhaust(d) \/ NextRecipient(d) \/ Check(d)
  \/ MarkSkipped(d) \/ Claim(d) \/ Recheck(d) \/ Revert(d) \/ Gate(d) \/ Link(d) \/ Create(d)
  \/ Send(d) \/ Finish(d) \/ CountSent(d) \/ ReadLead(d) \/ WriteLead(d) \/ Throw(d) \/ Fail(d)
  \/ CountFailed(d) \/ Abort(d) \/ CountQueued(d) \/ CountSending(d) \/ Complete(d)

Preparation(p) ==
  \/ Prepare(p) \/ (\E r \in Recipients : Regenerate(p, r)) \/ RegenCampaign(p)
  \/ PrepRead(p) \/ OverBudget(p) \/ Personalize(p) \/ PrepCount(p) \/ PrepFlip(p)
  \/ AbortPrep(p)

Operator == Pause \/ Cancel \/ CancelRows \/ ToggleKill \/ TestStart \/ TestFinish

World ==
  \/ Disconnect \/ DisconnectPause \/ Reconnect \/ WindowElapses \/ Crash
  \/ \E r \in Recipients : AddDnc(r) \/ DncLead(r) \/ DncRows(r) \/ Reply(r)

Reaping == ReapRead \/ ReapCount \/ \E r \in Rows : Age(r) \/ ReapRow(r)

Next ==
  \/ \E d \in Dispatchers : Dispatch(d)
  \/ \E p \in Preparers : Preparation(p)
  \/ Operator \/ World \/ Reaping

Spec == Init /\ [][Next]_vars

\* The steps a running process takes by itself: the statements of a dispatch loop other
\* than the provider call, a preparation loop, the second halves of handlers, the cron.
\* The provider may never answer, and nobody has to start, pause or reply.
Progress(d) ==
  \/ Requeue(d) \/ ReadBatch(d) \/ NextRecipient(d) \/ Check(d) \/ MarkSkipped(d) \/ Claim(d)
  \/ Recheck(d) \/ Revert(d) \/ Gate(d) \/ Link(d) \/ Create(d) \/ Finish(d) \/ CountSent(d)
  \/ ReadLead(d) \/ WriteLead(d) \/ Fail(d) \/ CountFailed(d) \/ CountQueued(d)
  \/ CountSending(d) \/ Complete(d)

Fairness ==
  /\ \A d \in Dispatchers : WF_vars(Progress(d))
  /\ WF_vars(ReapRead) /\ WF_vars(ReapCount)
  /\ \A r \in Rows : WF_vars(Age(r)) /\ WF_vars(ReapRow(r))

FairSpec == Spec /\ Fairness

-----------------------------------------------------------------------------
(* Properties *)

CampaignTypes ==
  /\ campaign \in CampaignStatus /\ sentCount \in Nat /\ failedCount \in Nat
  /\ atStop \in SUBSET Dispatchers

RowTypes ==
  /\ status \in [Rows -> RowStatus]
  /\ pers \in [Recipients -> {"PENDING", "READY", "FAILED"}]
  /\ attempts \in [Rows -> Nat]
  /\ last \in [Rows -> {"never", "recent", "old"}]
  /\ provId \in [Rows -> BOOLEAN]

WorldTypes ==
  /\ lead \in [Recipients -> {"ELIGIBLE", "CONTACTED", "DO_NOT_CONTACT"}]
  /\ dnc \in [Recipients -> BOOLEAN] /\ recent \in [Recipients -> BOOLEAN]
  /\ linked \in [Recipients -> BOOLEAN] /\ kill \in BOOLEAN /\ connected \in BOOLEAN
  /\ atDnc \in [Recipients -> SUBSET Dispatchers]

DispatchTypes ==
  /\ pc \in [Dispatchers -> Steps]
  /\ rec \in [Dispatchers -> Recipients \cup {NoRow}]
  /\ \A d \in Dispatchers : rec[d] = NoRow <=> pc[d] \in Unassigned
  /\ batch \in [Dispatchers -> SUBSET Recipients]
  /\ saw \in [Dispatchers -> BOOLEAN]

HandlerTypes ==
  /\ prep \in [Preparers -> [pc : PrepSteps, todo : SUBSET Recipients, saw : BOOLEAN]]
  /\ cancelling \in BOOLEAN /\ pauseDue \in BOOLEAN
  /\ dncStep \in [Recipients -> {"none", "lead", "rows"}]
  /\ reaper \in [rows : SUBSET Rows, withId : SUBSET Rows, exhausted : SUBSET Rows,
                  due : {"none", "SENT", "FAILED"}]
  /\ tester \in {"idle", "send"}

\* Every variable has its type, and a dispatcher has a recipient at hand exactly in the
\* steps of sendToRecipient.
TypeOK ==
  /\ CampaignTypes /\ RowTypes /\ WorldTypes /\ DispatchTypes /\ HandlerTypes
  /\ calls \in [Recipients -> Nat]
  /\ spent \in [Events -> Nat]

\* The claim of marketing-send.service.ts:68-74 is exclusive: no two dispatch loops are
\* between the claim and the message row of one recipient, whatever the reaper re-queues.
ClaimExclusive ==
  \A d, e \in Dispatchers :
    pc[d] \in Holding /\ rec[e] = rec[d] /\ pc[e] \in Holding => d = e

\* The provider accepts at most one message for a recipient in each frequency window:
\* the message row, written before the call, closes the gate to every later attempt,
\* also to one the reaper re-queued while the first is still waiting for the provider.
OnePerWindow == \A r \in Recipients : calls[r] <= 1 + spent["elapse"]

\* Why the claim is exclusive: a recipient somebody holds is out of the queue, and if it is
\* still SENDING its claim is recent; what the reaper has read is out of the queue too, and
\* if it is still SENDING its claim is old.
ClaimHeld ==
  \A d \in Dispatchers : pc[d] \in Holding =>
    /\ status[rec[d]] \notin {"PENDING", "QUEUED"}
    /\ status[rec[d]] = "SENDING" => last[rec[d]] = "recent"
SnapshotOld ==
  \A r \in reaper.rows \cap Recipients :
    /\ status[r] \notin {"PENDING", "QUEUED"}
    /\ status[r] = "SENDING" => last[r] = "old"
ClaimInv == ClaimHeld /\ SnapshotOld /\ ClaimExclusive

\* Why one message per window: between the gate and the message row nobody has written to
\* the contact; whoever is at the provider wrote the row of this window and is alone.
SendInv ==
  /\ \A d \in Dispatchers : pc[d] \in {"link", "create"} => ~recent[rec[d]]
  /\ \A d \in Dispatchers :
       pc[d] = "send" => recent[rec[d]] /\ calls[rec[d]] <= spent["elapse"]
  /\ \A d, e \in Dispatchers : pc[d] = "send" /\ pc[e] = "send" /\ rec[d] = rec[e] => d = e
  /\ \A r \in Recipients : ~recent[r] => calls[r] <= spent["elapse"]
  /\ OnePerWindow

\* The recipients as the people of OutreachLedger: what their rows tell, who is past the gate
\* and not yet at the provider's, what was accepted, the do-not-contact list.
Stage ==
  [r \in Recipients |->
     CASE status[r] = "SENT" -> "sent"
       [] status[r] \in {"REPLIED", "FAILED", "SKIPPED", "CANCELLED"} -> "closed"
       [] OTHER -> "open"]
Permitted == {r \in Recipients : \E d \in Dispatchers : pc[d] \in PastGate /\ rec[d] = r}
OptedOut == {r \in Recipients : dnc[r]}

Outreach == INSTANCE OutreachLedger WITH
  People <- Recipients, stage <- Stage, permitted <- Permitted, texts <- calls,
  optedOut <- OptedOut, windows <- spent["elapse"]

\* Loops that race for a recipient, the reaper, errors, crashes and late answers together keep
\* the promise of OutreachLedger: no text without a permission of its own, none permitted twice
\* in a window or after an opt-out, none said to be sent that was not, nobody opened again.
ImplementsOutreach == Outreach!OutreachSpec

\* Pausing, cancelling or completing stops the sending: a dispatcher that is past the
\* re-check while the campaign is not running was past it when the campaign stopped.
PauseBarrier == ~Running => {d \in Dispatchers : pc[d] \in PastRecheck} \subseteq atStop

\* An opt-out stops the sending: whoever is past the gate for an opted-out number was
\* already past it when the number was added to the list.
OptOutBarrier ==
  \A d \in Dispatchers : pc[d] \in PastGate /\ dnc[rec[d]] => d \in atDnc[rec[d]]

\* A recipient row that has been settled is never sent, re-queued or settled otherwise:
\* the guards of every updateMany together. Only a reply may follow SENT.
RowsSettleOnce ==
  [][\A r \in Recipients :
       /\ status[r] \in {"REPLIED", "FAILED", "SKIPPED", "CANCELLED"} => status'[r] = status[r]
       /\ status[r] = "SENT" => status'[r] \in {"SENT", "REPLIED"}]_vars

\* A completed or cancelled campaign stays so, but for one step of one handler: the
\* unguarded write of regeneratePersonalization (campaigns.service.ts:287-289).
CampaignEndsOnce ==
  [][(campaign \in {"COMPLETED", "CANCELLED"}) =>
       campaign' = campaign \/ \E p \in Preparers : RegenCampaign(p)]_vars

\* The first branch of the reaper is for no recipient of a campaign: the row that is
\* SENDING never has its provider id, which is written together with SENT.
NoIdWhileSending == \A r \in Recipients : status[r] = "SENDING" => ~provId[r]

\* A row that the reaper or the campaign screen shows as SENT has been counted, or its
\* sender is about to count it, unless an error or a crash came in between.
SentIsCounted ==
  spent["crash"] = 0 /\ spent["throw"] = 0 =>
    Cardinality(RowsWith("SENT"))
      <= sentCount + Cardinality({d \in Dispatchers : pc[d] = "count"})

\* The reaper's promise: no recipient stays SENDING for ever, not even when the process
\* crashes in the middle of a send or the provider never answers.
StrandedFreed == \A r \in Recipients : status[r] = "SENDING" ~> status[r] # "SENDING"

\* Nothing went wrong yet: no crash, error, outage, kill switch or regeneration.
Smooth == \A e \in {"crash", "throw", "toggle", "exhaust", "regen"} : spent[e] = 0

\* As long as all goes well and the provider answers, a queued recipient of a running
\* campaign leaves the queue, or the campaign stops running.
QueueDrains ==
  (\A d \in Dispatchers : WF_vars(Send(d))) =>
    \A r \in Recipients :
      (status[r] = "QUEUED" /\ Running /\ Smooth)
        ~> (status[r] # "QUEUED" \/ ~Running \/ ~Smooth)

-----------------------------------------------------------------------------
(* What the documentation of the code says and the code does not do *)

\* "Auto-completes the campaign when the queue drains" (campaign-dispatch.service.ts:152):
\* a completed campaign has nobody left in its queue.
CompletedMeansDrained == campaign = "COMPLETED" => RowsWith("QUEUED") = {}

\* "The customer has the message; do not send it again" (stranded-recipient-reaper
\* .service.ts:51): a recipient whom a message has reached is not queued a second time.
ReachedIsNotRetried ==
  [][\A r \in Recipients : calls[r] > 0 /\ status[r] # "QUEUED" => status'[r] # "QUEUED"]_vars

=============================================================================
