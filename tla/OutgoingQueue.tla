-------------------------- MODULE OutgoingQueue ---------------------------
(***************************************************************************)
(* One outgoing message: the row and the job of an AI answer and the       *)
(* worker that sends it (whatsapp-outgoing.processor.ts, worker main.ts),  *)
(* or a message typed in the inbox, its retries and the provider's         *)
(* delivery reports (messages.service.ts, webhooks.service.ts).            *)
(*                                                                         *)
(* Jobs are run at least once: a worker that dies leaves its job to be run *)
(* again, once (BullMQ's maxStalledCount).                                 *)
(***************************************************************************)
EXTENDS Naturals, FiniteSets

CONSTANTS
  Retriers,   \* operators pressing "retry"
  Attempts,   \* job.opts.attempts: 3
  QueueFaults,  \* bound: workers that die and statements that fail
  Reports     \* bound: delivery reports

ASSUME QueueAssumption ==
  /\ IsFiniteSet(Retriers) /\ Attempts \in Nat \ {0} /\ QueueFaults \in Nat /\ Reports \in Nat

VARIABLES
  row,       \* messages.providerStatus, "none" before the row exists
  known,     \* does the row hold the provider's id of a copy?
  deleted,   \* messages.deletedAt
  inbox,     \* sendMessage: its next step
  job,       \* the job of the message
  attempt,   \* job.attemptsMade
  worker,    \* the processor: its next step
  stalled,   \* has the job lost a worker?
  deadLetters,  \* jobs in the dead letter queue
  retrier,   \* retryMessage: its next step
  accepted,  \* copies the provider has accepted
  unheard,   \* history: copies accepted whose acceptance was never written
  overtaken, \* history: a report changed the row between SENT and the end of its job
  queueFaults, reported

messageRow == <<row, known, deleted>>
jobVars == <<job, attempt, worker, stalled, deadLetters>>
queueHistory == <<accepted, unheard, overtaken>>
queueVars == <<messageRow, inbox, jobVars, retrier, queueHistory, queueFaults, reported>>

QueueInit ==
  /\ row = "none" /\ known = FALSE /\ deleted = FALSE
  /\ inbox = "idle"
  /\ job = "none" /\ attempt = 0 /\ worker = "idle" /\ stalled = FALSE /\ deadLetters = 0
  /\ retrier = [r \in Retriers |-> "idle"]
  /\ accepted = 0 /\ unheard = 0 /\ overtaken = FALSE
  /\ queueFaults = 0 /\ reported = 0

QueueFault == queueFaults < QueueFaults /\ queueFaults' = queueFaults + 1

\* The provider answers that it has accepted a copy, or refuses it, or accepts it and the answer
\* is lost.
Hears   == accepted' = accepted + 1 /\ UNCHANGED <<unheard, overtaken>>
Refused == UNCHANGED queueHistory
Unheard == accepted' = accepted + 1 /\ unheard' = unheard + 1 /\ UNCHANGED overtaken

-----------------------------------------------------------------------------
(* Messages typed in the inbox *)

\* sendMessage, sendMediaMessage, sendTemplateMessage: the provider first; without a phone or
\* an instance it is not called.
SendHuman ==
  /\ row = "none" /\ inbox = "idle"
  /\ \/ inbox' = "SENT" /\ Hears
     \/ inbox' = "FAILED" /\ (Refused \/ Unheard)
     \/ inbox' = "PENDING" /\ Refused
  /\ UNCHANGED <<messageRow, jobVars, retrier, queueFaults, reported>>

RowOf(status) ==
  /\ inbox \in {"SENT", "FAILED", "PENDING"}
  /\ row' = status /\ known' = (inbox = "SENT") /\ inbox' = "done"
  /\ UNCHANGED <<deleted, jobVars, retrier, queueHistory, queueFaults, reported>>

\* A provider's refusal taken for a success (a slip ImplementsLedger must notice).
RowHumanSent == RowOf(IF inbox = "PENDING" THEN inbox ELSE "SENT")

RowHuman == RowOf(inbox)

\* retryMessage reads a failed row ...
RetryRead(r) ==
  /\ retrier[r] = "idle" /\ row = "FAILED" /\ ~deleted
  /\ retrier' = [retrier EXCEPT ![r] = "call"]
  /\ UNCHANGED <<messageRow, inbox, jobVars, queueHistory, queueFaults, reported>>

\* ... calls the provider, or returns the message where there is no phone ...
RetryCall(r) ==
  /\ retrier[r] = "call"
  /\ \/ retrier' = [retrier EXCEPT ![r] = "SENT"] /\ Hears
     \/ retrier' = [retrier EXCEPT ![r] = "FAILED"] /\ (Refused \/ Unheard)
     \/ retrier' = [retrier EXCEPT ![r] = "done"] /\ Refused
  /\ UNCHANGED <<messageRow, inbox, jobVars, queueFaults, reported>>

\* ... and writes the outcome over whatever the row says by then.
RetryWrite(r) ==
  /\ retrier[r] \in {"SENT", "FAILED"}
  /\ row' = retrier[r] /\ known' = (known \/ retrier[r] = "SENT")
  /\ retrier' = [retrier EXCEPT ![r] = "done"]
  /\ UNCHANGED <<deleted, inbox, jobVars, queueHistory, queueFaults, reported>>

\* softDeleteMessage; the worker does not look at it.
SoftDelete ==
  /\ row # "none" /\ ~deleted /\ deleted' = TRUE
  /\ UNCHANGED <<row, known, inbox, jobVars, retrier, queueHistory, queueFaults, reported>>

-----------------------------------------------------------------------------
(* The job *)

\* The row of the AI's answer, and in a later statement its job.
RowAi ==
  /\ row = "none" /\ inbox = "idle"
  /\ row' = "PENDING" /\ inbox' = "ai"
  /\ UNCHANGED <<known, deleted, jobVars, retrier, queueHistory, queueFaults, reported>>

EnqueueAi ==
  /\ inbox = "ai" /\ inbox' = "done" /\ job' = "waiting"
  /\ UNCHANGED <<messageRow, attempt, worker, stalled, deadLetters, retrier, queueHistory,
                 queueFaults, reported>>

\* Every job is sent, whatever its row says (a slip CopiesAreExplained must notice).
TakeAny ==
  /\ job = "waiting" /\ job' = "active" /\ worker' = "post"
  /\ UNCHANGED <<messageRow, inbox, attempt, stalled, deadLetters, retrier, queueHistory,
                 queueFaults, reported>>

\* A row that is SENT is not sent again.
Take ==
  /\ job = "waiting" /\ job' = "active"
  /\ worker' = IF row = "SENT" THEN "marked" ELSE "post"
  /\ UNCHANGED <<messageRow, inbox, attempt, stalled, deadLetters, retrier, queueHistory,
                 queueFaults, reported>>

Post ==
  /\ worker = "post"
  /\ \/ worker' = "mark" /\ Hears
     \/ worker' = "failing" /\ (Refused \/ Unheard)
  /\ UNCHANGED <<messageRow, inbox, job, attempt, stalled, deadLetters, retrier, queueFaults,
                 reported>>

MarkSent ==
  /\ worker = "mark" /\ worker' = "marked"
  /\ row' = "SENT" /\ known' = TRUE
  /\ UNCHANGED <<deleted, inbox, job, attempt, stalled, deadLetters, retrier, queueHistory,
                 queueFaults, reported>>

\* The update fails after the copy was accepted.
MarkFails ==
  /\ worker = "mark" /\ worker' = "failing" /\ QueueFault
  /\ unheard' = unheard + 1
  /\ UNCHANGED <<messageRow, inbox, job, attempt, stalled, deadLetters, retrier, accepted,
                 overtaken, reported>>

\* The catch: FAILED at the last attempt only.
GiveUpAt(last) ==
  /\ worker = "failing" /\ worker' = "thrown"
  /\ row' = IF attempt >= last THEN "FAILED" ELSE row
  /\ UNCHANGED <<known, deleted, inbox, job, attempt, stalled, deadLetters, retrier, queueHistory,
                 queueFaults, reported>>

\* attemptsMade read as if it counted this attempt (a slip SettledInTheEnd must notice).
GiveUpLate == GiveUpAt(Attempts)

GiveUp == GiveUpAt(Attempts - 1)

\* A job put back whatever its attempts (a slip MessagingTypeOK must notice).
RetryForever ==
  /\ worker = "thrown" /\ worker' = "idle"
  /\ attempt' = attempt + 1 /\ job' = "waiting"
  /\ UNCHANGED <<messageRow, inbox, stalled, deadLetters, retrier, queueHistory, queueFaults,
                 reported>>

\* The queue counts the attempt and tries again or hands the job to the dead letter queue.
Thrown ==
  /\ worker = "thrown" /\ worker' = "idle"
  /\ attempt' = attempt + 1
  /\ IF attempt' < Attempts
     THEN job' = "waiting" /\ UNCHANGED deadLetters
     ELSE job' = "dead" /\ deadLetters' = deadLetters + 1
  /\ UNCHANGED <<messageRow, inbox, stalled, retrier, queueHistory, queueFaults, reported>>

Complete ==
  /\ worker = "marked" /\ worker' = "idle" /\ job' = "completed"
  /\ UNCHANGED <<messageRow, inbox, attempt, stalled, deadLetters, retrier, queueHistory,
                 queueFaults, reported>>

\* The worker dies: the job has stalled and is run again, the second time it has failed.
WorkerDies ==
  /\ job = "active" /\ QueueFault
  /\ worker' = "idle"
  /\ IF stalled THEN job' = "dead" /\ UNCHANGED stalled ELSE job' = "waiting" /\ stalled' = TRUE
  /\ unheard' = IF worker = "mark" THEN unheard + 1 ELSE unheard
  /\ UNCHANGED <<messageRow, inbox, attempt, deadLetters, retrier, accepted, overtaken, reported>>

-----------------------------------------------------------------------------
(* The provider *)

\* handleMessageUpdate: the status reported is the row's status, in whatever order reports come.
Report(s) ==
  /\ reported < Reports /\ reported' = reported + 1
  /\ known /\ row' = s
  /\ overtaken' = (overtaken \/ (job \in {"waiting", "active"} /\ s # "SENT"))
  /\ UNCHANGED <<known, deleted, inbox, jobVars, retrier, accepted, unheard, queueFaults>>

WorkerStep == Take \/ Post \/ MarkSent \/ GiveUp \/ Thrown \/ Complete

QueueNext ==
  \/ SendHuman \/ RowHuman \/ SoftDelete \/ RowAi \/ EnqueueAi
  \/ \E r \in Retriers : RetryRead(r) \/ RetryCall(r) \/ RetryWrite(r)
  \/ WorkerStep \/ MarkFails \/ WorkerDies
  \/ \E s \in {"SENT", "DELIVERED", "READ", "FAILED"} : Report(s)

\* The worker takes jobs and the event loop goes on; nobody has to retry or report.
QueueFairness == WF_queueVars(WorkerStep)

QueueSpec == QueueInit /\ [][QueueNext]_queueVars /\ QueueFairness

-----------------------------------------------------------------------------
(* Properties *)

QueueTypeOK ==
  /\ row \in {"none", "PENDING", "SENT", "DELIVERED", "READ", "FAILED"}
  /\ known \in BOOLEAN /\ deleted \in BOOLEAN
  /\ inbox \in {"idle", "ai", "SENT", "FAILED", "PENDING", "done"}
  /\ job \in {"none", "waiting", "active", "completed", "dead"}
  /\ attempt \in 0 .. Attempts
  /\ worker \in {"idle", "post", "mark", "marked", "failing", "thrown"}
  /\ stalled \in BOOLEAN /\ deadLetters \in Nat
  /\ retrier \in [Retriers -> {"idle", "call", "SENT", "FAILED", "done"}]
  /\ accepted \in Nat /\ unheard \in Nat /\ overtaken \in BOOLEAN
  /\ queueFaults \in 0 .. QueueFaults /\ reported \in 0 .. Reports

\* The row as the ledger of DeliveryLedger.
Ledger == INSTANCE DeliveryLedger WITH
  ledger <- CASE row \in {"none", "PENDING"} -> "unsent"
              [] row = "FAILED" -> "failed"
              [] OTHER -> "sent",
  copies <- accepted

\* The message's row keeps the promise of DeliveryLedger through jobs run twice, retries that
\* race each other and reports in any order: it never says sent of a message no copy of which
\* was accepted, and never turns unsent again.
ImplementsLedger == Ledger!LedgerSpec

Retries == {r \in Retriers : retrier[r] # "idle"}

\* The customer gets the message once, except for a copy whose acceptance was not written, an
\* operator's retry, and a report that changed the row before its job had ended, which is all
\* that makes the worker send again a message it has sent.
CopiesAreExplained ==
  accepted <= 1 + unheard + Cardinality(Retries) + (IF overtaken THEN 1 ELSE 0)

\* A message with a job is sent or FAILED in the end: the last attempt, and only the last,
\* leaves its failure in the row, unless a worker died or an update failed on the way.
SettledInTheEnd == job = "waiting" ~> row # "PENDING" \/ queueFaults > 0
=============================================================================
