-------------------------- MODULE InboundMessage --------------------------
(***************************************************************************)
(* What a customer writes on WhatsApp, from the provider's webhook to the  *)
(* turn of the AI agent (webhooks.service.ts, ai-response.processor.ts,    *)
(* packages/ai/src/agent.ts).  The provider may deliver a message more     *)
(* than once and each delivery is a handler of its own; the turn is a job  *)
(* of the ai-response queue or, when the queue cannot be reached, the rest *)
(* of the handler.                                                         *)
(*                                                                         *)
(* One contact and one connection.  What a supporter answers is in         *)
(* SupportEscalation, the sales agent's turn in SalesDesk.                 *)
(***************************************************************************)
EXTENDS Naturals, Sequences, FiniteSets

CONSTANTS
  Deliveries,      \* pairs of a message and the number of its delivery
  OptOuts,         \* messages that ask for no more messages
  JobAttempts,     \* attempts: 3 (packages/queue)
  ActionLimit,     \* checkActionLimits: 5
  TurnCap,         \* checkConversationTurnLimit: 25
  InboundFaults    \* bound: crashes and failed statements

Messages == {d[1] : d \in Deliveries}

ASSUME InboundAssumption ==
  /\ IsFiniteSet(Deliveries) /\ OptOuts \subseteq Messages
  /\ JobAttempts \in Nat \ {0} /\ ActionLimit \in Nat /\ TurnCap \in Nat \ {0}
  /\ InboundFaults \in Nat

VARIABLES
  events,      \* idempotency keys of webhook_events
  contactRow,  \* is there a row in contacts?
  convs,       \* conversations, named by the delivery that created them: status
  log,         \* inbound rows of messages, oldest first
  optedOut,    \* contacts.consentStatus = OPTED_OUT
  handler,     \* each delivery: its next step
  into,        \* ... and the conversation it has found
  turn,        \* the agent's turn for each message
  runs,        \* conversations: rows of ai_runs
  inlineCalls, \* history: conversations: turns that reached the agent without the queue
  unrecorded,  \* history: conversations: such turns that failed before their row
  faults

inboundRows == <<events, contactRow, convs, log, optedOut>>
inboundVars == <<inboundRows, handler, into, turn, runs, inlineCalls, unrecorded, faults>>

InFlight == {"found", "contact", "newContact", "conversation", "newConversation", "store",
             "reopen", "optOut", "route", "inline"}
Over == {"duplicate", "done", "failed"}

\* A turn: who runs it, its attempts, its next step and the statements left to do.
NoTurn == [via |-> "none", tries |-> 0, at |-> "none", todo |-> <<>>]
Queued(via, tries) == [via |-> via, tries |-> tries, at |-> "queued", todo |-> <<>>]

\* What each decision of the agent makes its caller do (processAiInline, processAiResponse);
\* the pending question and the supporter's alert that end a hand-off are in SupportEscalation.
Duties(via, decision) ==
  CASE via = "inline" /\ decision = "REPLY"      -> <<"row", "send", "run">>
    [] via = "inline" /\ decision = "HANDOFF"    -> <<"status", "row", "send", "run">>
    [] via = "inline" /\ decision = "OTHER"      -> <<"note">>
    [] via = "inline" /\ decision = "TURN_LIMIT" -> <<"status", "note">>
    [] via = "job" /\ decision = "REPLY"         -> <<"row", "run", "enqueue">>
    [] via = "job" /\ decision = "HANDOFF"       -> <<"status", "row", "run", "enqueue">>
    [] via = "job" /\ decision = "OTHER"         -> <<>>

InboundInit ==
  /\ events = {} /\ contactRow = FALSE /\ log = <<>> /\ optedOut = FALSE
  /\ convs = [d \in Deliveries |-> "NONE"]
  /\ handler = [d \in Deliveries |-> "idle"]
  /\ into = [d \in Deliveries |-> d]
  /\ turn = [m \in Messages |-> NoTurn]
  /\ runs = [d \in Deliveries |-> 0]
  /\ inlineCalls = [d \in Deliveries |-> 0] /\ unrecorded = [d \in Deliveries |-> 0]
  /\ faults = 0

Fault == faults < InboundFaults /\ faults' = faults + 1

Step(d, from, to) == handler[d] = from /\ handler' = [handler EXCEPT ![d] = to]

Stored(m) == \E i \in DOMAIN log : log[i].msg = m
Home(m) == LET i == CHOOSE i \in DOMAIN log : log[i].msg = m IN log[i].conv
Latest(c) == LET mine == {i \in DOMAIN log : log[i].conv = c}
             IN log[CHOOSE i \in mine : \A j \in mine : j <= i].msg

-----------------------------------------------------------------------------
(* The webhook *)

\* The timestamp alone, which messages of one second share (a slip NothingLost must notice).
TimestampKey(d) == CHOOSE m \in Messages : TRUE

\* The message id and its timestamp.
EventKey(d) == d[1]

turnVars == <<turn, runs, inlineCalls, unrecorded>>

\* findUnique by the key.
Receive(d) ==
  /\ Step(d, "idle", IF EventKey(d) \in events THEN "duplicate" ELSE "found")
  /\ UNCHANGED <<inboundRows, into, turnVars, faults>>

\* The key is unique: of two deliveries that found nothing one fails here.
CreateEvent(d) ==
  /\ IF EventKey(d) \in events
     THEN Step(d, "found", "failed") /\ UNCHANGED events
     ELSE Step(d, "found", "contact") /\ events' = events \cup {EventKey(d)}
  /\ UNCHANGED <<contactRow, convs, log, optedOut, into, turnVars, faults>>

FindContact(d) ==
  /\ Step(d, "contact", IF contactRow THEN "conversation" ELSE "newContact")
  /\ UNCHANGED <<inboundRows, into, turnVars, faults>>

\* The organization and phone are unique: the other delivery's message ends here.
CreateContact(d) ==
  /\ Step(d, "newContact", IF contactRow THEN "failed" ELSE "conversation")
  /\ contactRow' = TRUE
  /\ UNCHANGED <<events, convs, log, optedOut, into, turnVars, faults>>

OpenConvs == {c \in Deliveries : convs[c] \notin {"NONE", "RESOLVED"}}

FindConversation(d) ==
  /\ IF OpenConvs = {}
     THEN Step(d, "conversation", "newConversation") /\ UNCHANGED into
     ELSE /\ Step(d, "conversation", "store")
          /\ \E c \in OpenConvs : into' = [into EXCEPT ![d] = c]
  /\ UNCHANGED <<inboundRows, turnVars, faults>>

\* Nothing is unique here: two deliveries that found none create two.
CreateConversation(d) ==
  /\ Step(d, "newConversation", "store")
  /\ convs' = [convs EXCEPT ![d] = "NEW"]
  /\ UNCHANGED <<events, contactRow, log, optedOut, into, turnVars, faults>>

\* The provider's message id is unique in the organization.
StoreMessage(d) ==
  /\ IF Stored(d[1])
     THEN Step(d, "store", "failed") /\ UNCHANGED log
     ELSE Step(d, "store", "reopen") /\ log' = Append(log, [msg |-> d[1], conv |-> into[d]])
  /\ UNCHANGED <<events, contactRow, convs, optedOut, into, turnVars, faults>>

Reopen(d) ==
  /\ Step(d, "reopen", IF d[1] \in OptOuts THEN "optOut" ELSE "route")
  /\ convs' = [convs EXCEPT ![into[d]] = "OPEN"]
  /\ UNCHANGED <<events, contactRow, log, optedOut, into, turnVars, faults>>

\* An entry of the do-not-contact list, whose error is swallowed, and the contact's consent.
RecordOptOut(d) ==
  /\ Step(d, "optOut", "route")
  /\ optedOut' = TRUE
  /\ UNCHANGED <<events, contactRow, convs, log, into, turnVars, faults>>

\* The sales agent has handled it, a human owns the conversation or there is no active agent;
\* else a job, or a turn in the handler when the queue refuses.
Route(d) ==
  /\ \/ Step(d, "route", "done") /\ UNCHANGED turn
     \/ /\ Step(d, "route", "done")
        /\ turn' = [turn EXCEPT ![d[1]] = Queued("job", 0)]
     \/ /\ Step(d, "route", "inline")
        /\ turn' = [turn EXCEPT ![d[1]] = Queued("inline", 0)]
  /\ into' = [into EXCEPT ![d] = d]
  /\ UNCHANGED <<inboundRows, runs, inlineCalls, unrecorded, faults>>

-----------------------------------------------------------------------------
(* The agent's turn *)

At(m, step) == turn[m].at = step
Put(m, t) == turn' = [turn EXCEPT ![m] = t]

\* A turn in the handler ends with it.
EndHandler(m, how) ==
  handler' = [d \in Deliveries |->
                IF d[1] = m /\ handler[d] = "inline" THEN how ELSE handler[d]]

\* The statements left to do; when there are none the turn is over.
LeftTo(m, todo) ==
  IF todo = <<>>
  THEN Put(m, [NoTurn EXCEPT !.at = "done"]) /\ EndHandler(m, "done")
  ELSE Put(m, [turn[m] EXCEPT !.at = "act", !.todo = todo]) /\ UNCHANGED handler

SkipIf(m, stale) ==
  /\ At(m, "queued")
  /\ IF stale
     THEN Put(m, [NoTurn EXCEPT !.at = "stale"]) /\ EndHandler(m, "done")
     ELSE /\ Put(m, [turn[m] EXCEPT !.at = IF turn[m].via = "inline" THEN "cap" ELSE "think"])
          /\ UNCHANGED handler
  /\ UNCHANGED <<inboundRows, into, runs, inlineCalls, unrecorded, faults>>

\* Any other message of the conversation makes it stale (a slip NewestAnswered must notice).
LookAny(m) == SkipIf(m, \E i \in DOMAIN log : log[i].conv = Home(m) /\ log[i].msg # m)

\* Only the newest message of the conversation is answered.
Look(m) == SkipIf(m, Latest(Home(m)) # m)

\* checkConversationTurnLimit, in the handler only.
CheckCap(m) ==
  /\ At(m, "cap")
  /\ IF runs[Home(m)] < TurnCap
     THEN Put(m, [turn[m] EXCEPT !.at = "think"]) /\ UNCHANGED handler
     ELSE LeftTo(m, Duties("inline", "TURN_LIMIT"))
  /\ UNCHANGED <<inboundRows, into, runs, inlineCalls, unrecorded, faults>>

\* processAgentTurn: HANDOFF beyond the limits, for what the filters flag and for what the
\* model is not sure of; REPLY; or a decision its callers do not act on.
Think(m) ==
  /\ At(m, "think")
  /\ \E decision \in {"HANDOFF"} \cup (IF runs[Home(m)] <= ActionLimit THEN {"REPLY", "OTHER"} ELSE {}) :
       LeftTo(m, Duties(turn[m].via, decision))
  /\ inlineCalls' = IF turn[m].via = "inline"
                    THEN [inlineCalls EXCEPT ![Home(m)] = @ + 1] ELSE inlineCalls
  /\ UNCHANGED <<inboundRows, into, runs, unrecorded, faults>>

Doing(m, step) == At(m, "act") /\ Head(turn[m].todo) = step
Did(m) == LeftTo(m, Tail(turn[m].todo))

\* WAITING_FOR_AGENT.
HandToHuman(m) ==
  /\ Doing(m, "status") /\ Did(m)
  /\ convs' = [convs EXCEPT ![Home(m)] = "WAITING_FOR_AGENT"]
  /\ UNCHANGED <<events, contactRow, log, optedOut, into, runs, inlineCalls, unrecorded,
                 faults>>

\* The row of the answer, the provider's call or the job that will make it.
Say(m) ==
  /\ \E step \in {"row", "send", "enqueue"} : Doing(m, step)
  /\ Did(m)
  /\ UNCHANGED <<inboundRows, into, runs, inlineCalls, unrecorded, faults>>

\* Only replies and hand-offs leave a row, as once in this code (a slip CallsAreCounted must
\* notice).
RecordSome(m) ==
  /\ (Doing(m, "run") \/ Doing(m, "note")) /\ Did(m)
  /\ runs' = IF Doing(m, "run") THEN [runs EXCEPT ![Home(m)] = @ + 1] ELSE runs
  /\ UNCHANGED <<inboundRows, into, inlineCalls, unrecorded, faults>>

\* aiRun.create, recordAiRun.
RecordRun(m) ==
  /\ (Doing(m, "run") \/ Doing(m, "note")) /\ Did(m)
  /\ runs' = [runs EXCEPT ![Home(m)] = @ + 1]
  /\ UNCHANGED <<inboundRows, into, inlineCalls, unrecorded, faults>>

\* What an unfinished inline turn has called for and not recorded.
Owed(m) ==
  /\ turn[m].via = "inline" /\ At(m, "act")
  /\ \E i \in DOMAIN turn[m].todo : turn[m].todo[i] \in {"run", "note"}

Unrecord(failing) ==
  unrecorded' = [c \in Deliveries |->
    unrecorded[c] + Cardinality({m \in failing : Owed(m) /\ Home(m) = c})]

\* The agent or a statement fails: a job is put back until its attempts are used up, an inline
\* turn fails its handler.  Failing to send inline, or to record a decision that says nothing,
\* is caught.
TurnFails(m) ==
  /\ Fault
  /\ turn[m].at \in {"think", "act"}
  /\ LET caught == turn[m].via = "inline" /\ At(m, "act")
                   /\ Head(turn[m].todo) \in {"send", "note"}
         again  == turn[m].via = "job" /\ turn[m].tries + 1 < JobAttempts
     IN IF caught
        THEN Did(m)
        ELSE /\ Put(m, IF again
                       THEN Queued("job", turn[m].tries + 1)
                       ELSE [NoTurn EXCEPT !.at = "failed"])
             /\ EndHandler(m, "failed")
  /\ IF At(m, "act") /\ Head(turn[m].todo) = "send" THEN UNCHANGED unrecorded ELSE Unrecord({m})
  /\ UNCHANGED <<inboundRows, into, runs, inlineCalls>>

\* The API dies; jobs are the worker's.
ApiCrash ==
  /\ Fault
  /\ \E d \in Deliveries : handler[d] \in InFlight
  /\ handler' = [d \in Deliveries |-> IF handler[d] \in InFlight THEN "failed" ELSE handler[d]]
  /\ into' = [d \in Deliveries |-> d]
  /\ LET lost == {m \in Messages : turn[m].via = "inline" /\ turn[m].at \notin {"done", "stale", "failed"}}
     IN /\ turn' = [m \in Messages |->
              IF m \in lost THEN [NoTurn EXCEPT !.at = "failed"] ELSE turn[m]]
        /\ Unrecord(lost)
  /\ UNCHANGED <<inboundRows, runs, inlineCalls>>

\* An operator resolves the conversation; the customer's next message opens another.
ResolveConv(c) ==
  /\ convs[c] \notin {"NONE", "RESOLVED"} /\ Fault
  /\ convs' = [convs EXCEPT ![c] = "RESOLVED"]
  /\ UNCHANGED <<events, contactRow, log, optedOut, handler, into, turnVars>>

HandlerStep(d) ==
  \/ CreateEvent(d) \/ FindContact(d) \/ CreateContact(d) \/ FindConversation(d)
  \/ CreateConversation(d) \/ StoreMessage(d) \/ Reopen(d) \/ RecordOptOut(d) \/ Route(d)

TurnStep(m) ==
  \/ Look(m) \/ CheckCap(m) \/ Think(m) \/ HandToHuman(m) \/ Say(m) \/ RecordRun(m)

InboundNext ==
  \/ \E d \in Deliveries : Receive(d) \/ HandlerStep(d) \/ ResolveConv(d)
  \/ \E m \in Messages : TurnStep(m) \/ TurnFails(m)
  \/ ApiCrash

\* A handler goes on and a job is worked on; the provider owes no delivery.
InboundFairness ==
  /\ \A d \in Deliveries : WF_inboundVars(HandlerStep(d))
  /\ \A m \in Messages : WF_inboundVars(TurnStep(m))

InboundSpec == InboundInit /\ [][InboundNext]_inboundVars /\ InboundFairness

-----------------------------------------------------------------------------
(* Properties *)

InboundTypeOK ==
  /\ events \subseteq {EventKey(d) : d \in Deliveries}
  /\ contactRow \in BOOLEAN /\ optedOut \in BOOLEAN
  /\ convs \in [Deliveries -> {"NONE", "NEW", "OPEN", "WAITING_FOR_AGENT", "RESOLVED"}]
  /\ \A i \in DOMAIN log : log[i] \in [msg : Messages, conv : Deliveries]
  /\ handler \in [Deliveries -> {"idle"} \cup InFlight \cup Over]
  /\ into \in [Deliveries -> Deliveries]
  /\ \A m \in Messages :
       /\ turn[m].via \in {"none", "job", "inline"} /\ turn[m].tries \in 0 .. JobAttempts - 1
       /\ turn[m].at \in {"none", "queued", "stale", "cap", "think", "act", "done", "failed"}
  /\ runs \in [Deliveries -> Nat] /\ inlineCalls \in [Deliveries -> Nat]
  /\ unrecorded \in [Deliveries -> Nat]
  /\ faults \in 0 .. InboundFaults

\* A delivery answered as a duplicate costs nothing: the customer's message is a row, and a
\* request for no more messages is the contact's consent, unless a handler of that message is
\* still on its way there or has failed (processEvolutionWebhook answers "duplicate" once the
\* event row exists, long before the message is stored).
NothingLost ==
  \A d \in Deliveries :
    handler[d] = "duplicate" /\ (~Stored(d[1]) \/ (d[1] \in OptOuts /\ ~optedOut)) =>
      \E e \in Deliveries : e[1] = d[1] /\ (handler[e] \in InFlight \/ handler[e] = "failed")

\* Every turn that reaches the agent without the queue is counted against the conversation's
\* ceiling, whatever it decides, unless its row could not be written: the runaway the ceiling
\* is for cannot hide in decisions that say nothing (processAiInline, recordAiRun).
CallsAreCounted ==
  \A c \in Deliveries :
    inlineCalls[c] <= runs[c] + unrecorded[c] + Cardinality({m \in Messages : Owed(m) /\ Home(m) = c})

\* A message is neither lost as a duplicate nor answered off the books.
InboundHolds == NothingLost /\ CallsAreCounted

Smooth == faults = 0 /\ \A d \in Deliveries : handler[d] # "failed"

\* A turn that was asked for is taken to its end, unless a newer message has come into the
\* same conversation or something has failed: of messages written in a row the last is always
\* answered (the staleness checks of processAiInline and processAiResponse).
NewestAnswered ==
  \A m \in Messages :
    At(m, "queued") ~> (At(m, "done") \/ ~Smooth \/ (Stored(m) /\ Latest(Home(m)) # m))
=============================================================================
