------------------------- MODULE SupportEscalation -------------------------
(***************************************************************************)
(* Questions the agent hands to a human and the answers of that human: by  *)
(* the support phone, whose WhatsApp message the webhook forwards to the   *)
(* customer (webhooks.service.ts), or in the inbox (messages.service.ts).  *)
(* Either answer claims the pending question and is learnt from            *)
(* (packages/ai/src/support-learning.ts).                                  *)
(*                                                                         *)
(* The pending question is a key of the JSON metadata of one conversation, *)
(* which every writer reads in one statement and writes whole in another.  *)
(***************************************************************************)
EXTENDS Naturals, FiniteSets

CONSTANTS
  Questions,     \* customer messages the agent hands off
  PhoneReplies,  \* messages typed on the support phone
  InboxReplies,  \* messages typed in the inbox
  NoQuestion,
  AutoLearning,  \* ai_agents.autoLearningEnabled
  Disturbances   \* bound: crashes, failed turns, campaigns linked, conversations resolved

Replies == PhoneReplies \cup InboxReplies

ASSUME EscalationAssumption ==
  /\ IsFiniteSet(Replies) /\ PhoneReplies \cap InboxReplies = {}
  /\ NoQuestion \notin Questions
  /\ AutoLearning \in BOOLEAN
  /\ Disturbances \in Nat

VARIABLES
  meta,       \* conversations.metadata: pendingSupportEscalation and salesContext
  convStatus, \* conversations.status
  handoff,    \* the turn of each question: its next step
  handoffSaw, \* ... and the metadata it has read
  reply,      \* each answer: its next step
  replySaw,   \* ... and the metadata its claim has read
  linker,     \* a campaign linking the conversation: step and metadata read
  forwarded,  \* answers handed to the provider, accepted (SENT) or not (FAILED)
  faq,        \* rows learnt: question and answer
  claims,     \* history: the questions claimed by each answer
  armed,      \* history: how often the metadata has become PENDING
  disturbed

askVars == <<handoff, handoffSaw>>
replyVars == <<reply, replySaw, forwarded, faq, claims>>
escVars == <<meta, convStatus, askVars, replyVars, linker, armed, disturbed>>

Metadata ==
  [asked : Questions \cup {NoQuestion}, state : {"NONE", "PENDING", "ANSWERED"}, sales : BOOLEAN]

Blank == [asked |-> NoQuestion, state |-> "NONE", sales |-> FALSE]

EscalationInit ==
  /\ meta = Blank /\ convStatus = "OPEN"
  /\ handoff = [q \in Questions |-> "idle"] /\ handoffSaw = [q \in Questions |-> Blank]
  /\ reply = [r \in Replies |-> "idle"] /\ replySaw = [r \in Replies |-> Blank]
  /\ linker = [at |-> "idle", saw |-> Blank]
  /\ forwarded = {}
  /\ faq = {} /\ claims = [r \in Replies |-> NoQuestion]
  /\ armed = 0
  /\ disturbed = 0

Disturb == disturbed < Disturbances /\ disturbed' = disturbed + 1

\* getPendingSupportEscalation
Pending(m) == m.state = "PENDING"

\* The metadata is written; an escalation is armed when a question is marked and when a stale
\* copy brings back one that was answered.
WriteMeta(m, marking) ==
  /\ meta' = m
  /\ armed' = IF Pending(m) /\ (marking \/ ~Pending(meta)) THEN armed + 1 ELSE armed

-----------------------------------------------------------------------------
(* The agent hands a question off *)

Hand(q, from, to) == handoff[q] = from /\ handoff' = [handoff EXCEPT ![q] = to]

\* The customer's message reopens the conversation; the agent's turn will end in HANDOFF.
Ask(q) ==
  /\ Hand(q, "idle", "turn")
  /\ convStatus' = "OPEN"
  /\ UNCHANGED <<meta, handoffSaw, replyVars, linker, armed, disturbed>>

\* WAITING_FOR_AGENT; then the notice to the customer and the run are written.
HandOff(q) ==
  /\ Hand(q, "turn", "handed")
  /\ convStatus' = "WAITING_FOR_AGENT"
  /\ UNCHANGED <<meta, handoffSaw, replyVars, linker, armed, disturbed>>

\* One of those statements fails, or the alert that follows the mark: a job is tried again, an
\* inline turn is given up.
HandOffFails(q) ==
  /\ \E from \in {"handed", "alert"}, to \in {"turn", "dead"} : Hand(q, from, to)
  /\ Disturb
  /\ UNCHANGED <<meta, convStatus, handoffSaw, replyVars, linker, armed>>

\* markPendingSupportEscalation reads the metadata ...
MarkRead(q) ==
  /\ Hand(q, "handed", "marking")
  /\ handoffSaw' = [handoffSaw EXCEPT ![q] = meta]
  /\ UNCHANGED <<meta, convStatus, replyVars, linker, armed, disturbed>>

\* ... and writes what it has read with the question added, answered or not.
MarkWrite(q) ==
  /\ Hand(q, "marking", "alert")
  /\ WriteMeta([handoffSaw[q] EXCEPT !.asked = q, !.state = "PENDING"], TRUE)
  /\ handoffSaw' = [handoffSaw EXCEPT ![q] = Blank]
  /\ UNCHANGED <<convStatus, replyVars, linker, disturbed>>

\* The supporter is told on WhatsApp.
Alert(q) ==
  /\ Hand(q, "alert", "done")
  /\ UNCHANGED <<meta, convStatus, handoffSaw, replyVars, linker, armed, disturbed>>

-----------------------------------------------------------------------------
(* A human answers *)

Move(r, from, to) == reply[r] = from /\ reply' = [reply EXCEPT ![r] = to]

\* What becomes of an answer that claims nothing: the phone's message is an ordinary message,
\* the inbox's was sent anyway.
Unclaimed(r) == IF r \in PhoneReplies THEN "passed" ELSE "settle"

\* findPendingEscalationForSupportPhone; a message without text is dropped.
Find(r) ==
  /\ r \in PhoneReplies
  /\ IF convStatus # "RESOLVED" /\ Pending(meta)
     THEN \E to \in {"claim", "dropped"} : Move(r, "idle", to)
     ELSE Move(r, "idle", "passed")
  /\ UNCHANGED <<meta, convStatus, askVars, replySaw, forwarded, faq, claims, linker, armed,
                 disturbed>>

\* sendMessage: the provider first, whatever it says.
InboxSend(r) ==
  /\ r \in InboxReplies
  /\ Move(r, "idle", "store")
  /\ forwarded' = forwarded \cup {r}
  /\ UNCHANGED <<meta, convStatus, askVars, replySaw, faq, claims, linker, armed, disturbed>>

\* claimPendingSupportEscalation reads the metadata ...
ClaimRead(r) ==
  /\ Move(r, "claim", IF Pending(meta) THEN "update" ELSE Unclaimed(r))
  /\ replySaw' = [replySaw EXCEPT ![r] = IF Pending(meta) THEN meta ELSE Blank]
  /\ UNCHANGED <<meta, convStatus, askVars, forwarded, faq, claims, linker, armed, disturbed>>

\* The update by id alone (a slip RelaysAreArmed must notice).
ClaimAnyway(r) ==
  /\ Move(r, "update", IF r \in PhoneReplies THEN "forward" ELSE "learn")
  /\ WriteMeta([replySaw[r] EXCEPT !.state = "ANSWERED"], FALSE)
  /\ claims' = [claims EXCEPT ![r] = replySaw[r].asked]
  /\ replySaw' = [replySaw EXCEPT ![r] = Blank]
  /\ UNCHANGED <<convStatus, askVars, forwarded, faq, linker, disturbed>>

\* ... and answers it where it is still PENDING, whichever question is pending by then.
ClaimUpdate(r) ==
  /\ IF Pending(meta)
     THEN /\ Move(r, "update", IF r \in PhoneReplies THEN "forward" ELSE "learn")
          /\ WriteMeta([replySaw[r] EXCEPT !.state = "ANSWERED"], FALSE)
          /\ claims' = [claims EXCEPT ![r] = replySaw[r].asked]
     ELSE Move(r, "update", Unclaimed(r)) /\ UNCHANGED <<meta, armed, claims>>
  /\ replySaw' = [replySaw EXCEPT ![r] = Blank]
  /\ UNCHANGED <<convStatus, askVars, forwarded, faq, linker, disturbed>>

\* The support phone's answer goes to the customer.
Forward(r) ==
  /\ Move(r, "forward", "store")
  /\ forwarded' = forwarded \cup {r}
  /\ UNCHANGED <<meta, convStatus, askVars, replySaw, faq, claims, linker, armed, disturbed>>

\* The message row. The phone's answer has claimed its question, the inbox's has not yet.
StoreReply(r) ==
  /\ Move(r, "store", IF r \in PhoneReplies THEN "learn" ELSE "claim")
  /\ UNCHANGED <<meta, convStatus, askVars, replySaw, forwarded, faq, claims, linker, armed,
                 disturbed>>

\* learnFromSupportReply, with the question that was claimed.
Learn(r) ==
  /\ Move(r, "learn", "settle")
  /\ faq' = IF AutoLearning THEN faq \cup {[question |-> claims[r], answer |-> r]} ELSE faq
  /\ UNCHANGED <<meta, convStatus, askVars, replySaw, forwarded, claims, linker, armed, disturbed>>

\* WAITING_FOR_CUSTOMER, whatever has come in meanwhile.
Settle(r) ==
  /\ Move(r, "settle", "done")
  /\ convStatus' = "WAITING_FOR_CUSTOMER"
  /\ UNCHANGED <<meta, askVars, replySaw, forwarded, faq, claims, linker, armed, disturbed>>

-----------------------------------------------------------------------------
(* The rest of the program *)

\* A campaign writes its salesContext into the metadata it has read with the conversation.
LinkRead ==
  /\ linker.at = "idle" /\ convStatus # "RESOLVED"
  /\ Disturb
  /\ linker' = [at |-> "linking", saw |-> meta]
  /\ UNCHANGED <<meta, convStatus, askVars, replyVars, armed>>

LinkWrite ==
  /\ linker.at = "linking"
  /\ linker' = [at |-> "done", saw |-> Blank]
  /\ WriteMeta([linker.saw EXCEPT !.sales = TRUE], FALSE)
  /\ UNCHANGED <<convStatus, askVars, replyVars, disturbed>>

ResolveConversation ==
  /\ convStatus # "RESOLVED" /\ convStatus' = "RESOLVED"
  /\ Disturb
  /\ UNCHANGED <<meta, askVars, replyVars, linker, armed>>

\* The process dies with the handlers in flight; what they have written stays.
EscalationCrash ==
  /\ Disturb
  /\ handoff' = [q \in Questions |-> IF handoff[q] \in {"idle", "done"} THEN handoff[q] ELSE "dead"]
  /\ reply' = [r \in Replies |->
       IF reply[r] \in {"idle", "passed", "dropped", "done"} THEN reply[r] ELSE "dead"]
  /\ linker' = IF linker.at = "linking" THEN [at |-> "done", saw |-> Blank] ELSE linker
  /\ handoffSaw' = [q \in Questions |-> Blank] /\ replySaw' = [r \in Replies |-> Blank]
  /\ UNCHANGED <<meta, convStatus, forwarded, faq, claims, armed>>

EscalationNext ==
  \/ \E q \in Questions :
       Ask(q) \/ HandOff(q) \/ HandOffFails(q) \/ MarkRead(q) \/ MarkWrite(q) \/ Alert(q)
  \/ \E r \in Replies :
       \/ Find(r) \/ InboxSend(r) \/ ClaimRead(r) \/ ClaimUpdate(r)
       \/ Forward(r) \/ StoreReply(r) \/ Learn(r) \/ Settle(r)
  \/ LinkRead \/ LinkWrite \/ ResolveConversation \/ EscalationCrash

EscalationSpec == EscalationInit /\ [][EscalationNext]_escVars

-----------------------------------------------------------------------------
(* Properties *)

EscalationTypeOK ==
  /\ meta \in Metadata
  /\ convStatus \in {"OPEN", "WAITING_FOR_AGENT", "WAITING_FOR_CUSTOMER", "RESOLVED"}
  /\ handoff \in [Questions -> {"idle", "turn", "handed", "marking", "alert", "done", "dead"}]
  /\ handoffSaw \in [Questions -> Metadata]
  /\ reply \in [Replies -> {"idle", "claim", "update", "forward", "store", "learn", "settle",
                            "done", "passed", "dropped", "dead"}]
  /\ replySaw \in [Replies -> Metadata]
  /\ linker \in [at : {"idle", "linking", "done"}, saw : Metadata]
  /\ forwarded \subseteq Replies
  /\ faq \subseteq [question : Questions \cup {NoQuestion}, answer : Replies]
  /\ claims \in [Replies -> Questions \cup {NoQuestion}]
  /\ armed \in Nat
  /\ disturbed \in 0 .. Disturbances

Relayed == forwarded \cap PhoneReplies
Claimers == {r \in Replies : claims[r] # NoQuestion}

\* What is learnt pairs an answer with the question that answer claimed, and only then.
LearntWasClaimed == \A f \in faq : f.question \in Questions /\ claims[f.answer] = f.question

\* Only an answer that has claimed an escalation is relayed from the support phone to the
\* customer, or learnt from, and an escalation armed once is claimed once: whoever answers
\* first, in the inbox or on the phone, disarms it, and the phone's later messages are its
\* owner's own (claimPendingSupportEscalation, handleSupportReply).
RelaysAreArmed ==
  Relayed \subseteq Claimers /\ Cardinality(Claimers) <= armed /\ LearntWasClaimed

\* "Consume a pending escalation, exactly once ... two replies arriving at once cannot both
\* claim it" (support-learning.ts): a question is claimed by one answer.
ClaimedOnce == \A r, s \in Claimers : claims[r] = claims[s] => r = s
=============================================================================
