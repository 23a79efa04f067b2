-------------------------- MODULE CallConversation --------------------------
(***************************************************************************)
(* Inside one call: what the model asks for and what it is told            *)
(* (call-orchestrator.service.ts, voice-tool-executor.service.ts), the     *)
(* silence policy, and the work after the call.  Events of the realtime    *)
(* socket are handled without waiting for one another, so tool calls       *)
(* overlap; a tool that exceeds its time goes on running unattended.  How  *)
(* a call begins and who ends it is in VoiceCall.                          *)
(***************************************************************************)
EXTENDS Naturals, FiniteSets

CONSTANTS
  ToolCalls,    \* tool calls the model makes
  ToolKinds,    \* tools it calls
  ToolLimit,    \* maxPerCall of every tool
  MaxFailures,  \* settings.maxRepeatedFailures
  ToolFaults    \* bound: statements that fail, and tools that exceed their time

\* VOICE_TOOLS, those that differ in what follows: lookup stands for all that change nothing.
Kinds == {"lookup", "followup", "support", "custom", "interest", "record"}

\* Those that are not run again after they succeeded with the same arguments.
Idempotent == {"lookup", "followup", "record"}

\* Those that need a verified scope: none ever is, as no verification is ever started.
NeedsVerification == {"record"}

\* Those that ask for support, and those that give the lead a status.
AsksSupport == {"support", "custom"}
MovesLead == {"interest", "custom"}

ASSUME ConversationAssumption ==
  /\ IsFiniteSet(ToolCalls) /\ ToolKinds \subseteq Kinds /\ ToolKinds # {}
  /\ ToolLimit \in Nat \ {0} /\ MaxFailures \in Nat \ {0} /\ ToolFaults \in Nat

VARIABLES
  talk,        \* CallSession: [ending, said, stage, closing, followups, failures]
  socketOpen,  \* the realtime socket still delivers events
  tool,        \* each tool call: [at, kind, late], late once its time is over
  carriedOut,  \* tool calls whose effect has happened
  executions,  \* call_tool_executions: [by, kind, status]
  told,        \* what the model was told of each
  lead,        \* who gave the caller's lead its status: a "tool", the "outcome" or "others"
  supportAsked,\* calls.supportRequired
  usage,       \* voice_usage_records of the call: the follow-ups counted
  afterCall,   \* finalizeCall: [at, asked], the latter what it read of supportRequired
  toolFaults,
  exempt    \* history: tool calls that overlapped with one of their kind, failed halfway,
               \* were late, went unrecorded, or had their effect after the call had ended

convVars == <<talk, socketOpen, tool, carriedOut, executions, told, lead, supportAsked, usage, afterCall,
              toolFaults, exempt>>

ConversationTypeOK ==
  /\ talk \in [ending : BOOLEAN, said : BOOLEAN, stage : 0..2, closing : BOOLEAN,
               followups : 0..Cardinality(ToolCalls), failures : 0..(MaxFailures - 1)]
  /\ socketOpen \in BOOLEAN
  /\ tool \in [ToolCalls -> [at : {"idle", "authorize", "previous", "run", "succeed", "fail", "deny", "done"},
                             kind : Kinds, late : BOOLEAN]]
  /\ carriedOut \subseteq ToolCalls /\ exempt \subseteq ToolCalls
  /\ executions \subseteq [by : ToolCalls, kind : Kinds, status : {"SUCCEEDED", "FAILED", "DENIED"}]
  /\ told \in [ToolCalls -> {"nothing", "ok", "failed", "denied"}]
  /\ lead \in {"others", "tool", "outcome"} /\ supportAsked \in BOOLEAN
  /\ usage \subseteq 0..Cardinality(ToolCalls)
  /\ afterCall \in [at : {"idle", "usage", "summary", "lead", "done"}, asked : BOOLEAN]
  /\ toolFaults \in 0..ToolFaults

ConversationInit ==
  /\ talk = [ending |-> FALSE, said |-> FALSE, stage |-> 0, closing |-> FALSE, followups |-> 0, failures |-> 0]
  /\ socketOpen = TRUE
  /\ tool = [t \in ToolCalls |-> [at |-> "idle", kind |-> "lookup", late |-> FALSE]]
  /\ carriedOut = {} /\ executions = {} /\ told = [t \in ToolCalls |-> "nothing"]
  /\ lead = "others" /\ supportAsked = FALSE /\ usage = {}
  /\ afterCall = [at |-> "idle", asked |-> FALSE]
  /\ toolFaults = 0 /\ exempt = {}

toolVars == <<tool, carriedOut, executions, told, exempt, toolFaults>>
callVars == <<lead, supportAsked, usage, afterCall>>

Goes(t, from, to) == tool[t].at = from /\ tool' = [tool EXCEPT ![t].at = to]
ToolFault == toolFaults < ToolFaults /\ toolFaults' = toolFaults + 1

-----------------------------------------------------------------------------
(* A tool call *)

Running(kind) == {t \in ToolCalls : tool[t].kind = kind /\ tool[t].at \notin {"idle", "done"}}

\* handleToolCall.
ToolCall(t, kind) ==
  /\ socketOpen /\ tool[t].at = "idle"
  /\ tool' = [tool EXCEPT ![t] = [at |-> "authorize", kind |-> kind, late |-> FALSE]]
  /\ exempt' = IF Running(kind) = {} THEN exempt ELSE exempt \cup Running(kind) \cup {t}
  /\ UNCHANGED <<talk, socketOpen, carriedOut, executions, told, toolFaults, callVars>>

SoFar(kind) == {e \in executions : e.kind = kind /\ e.status \in {"SUCCEEDED", "FAILED"}}

\* authorizeToolCall.  The organization's switches, the agent's list and the arguments may
\* forbid any tool.
Authorize(t) ==
  /\ \/ Goes(t, "authorize", "deny")
     \/ /\ Cardinality(SoFar(tool[t].kind)) < ToolLimit /\ tool[t].kind \notin NeedsVerification
        /\ Goes(t, "authorize", "previous")
  /\ UNCHANGED <<talk, socketOpen, carriedOut, executions, told, exempt, toolFaults, callVars>>

\* Any success of the tool counts, whoever it was for (a slip ToldTruly must notice).
AnyPrevious(t) == {e \in executions : e.status = "SUCCEEDED"}

\* An earlier success with the same arguments in this call; here a kind is always called with
\* the same ones.
Previous(t) == {e \in executions : e.kind = tool[t].kind /\ e.status = "SUCCEEDED"}

\* What an answer does to the session: followupCount counts repeated answers too.
CountAnswer(t, ok) ==
  talk' = [talk EXCEPT !.failures = IF ok \/ @ + 1 >= MaxFailures THEN 0 ELSE @ + 1,
                       !.followups = IF ok /\ tool[t].kind = "followup" THEN @ + 1 ELSE @]

FindPrevious(t) ==
  /\ IF tool[t].kind \in Idempotent /\ Previous(t) # {}
     THEN Goes(t, "previous", "done") /\ told' = [told EXCEPT ![t] = "ok"] /\ CountAnswer(t, TRUE)
     ELSE Goes(t, "previous", "run") /\ UNCHANGED <<talk, told>>
  /\ UNCHANGED <<socketOpen, carriedOut, executions, exempt, toolFaults, callVars>>

\* runTool: the effect, if the product, the connection, the lead are there and the provider
\* accepts.  When its time is over nobody waits for it any more.
CarryOut(t) ==
  /\ \/ Goes(t, "run", "succeed")
     \/ tool[t].late /\ t \notin carriedOut /\ UNCHANGED tool
  /\ carriedOut' = carriedOut \cup {t}
  /\ exempt' = IF afterCall.at = "idle" THEN exempt ELSE exempt \cup {t}
  /\ lead' = IF tool[t].kind \in MovesLead THEN "tool" ELSE lead
  /\ supportAsked' = (supportAsked \/ tool[t].kind \in AsksSupport)
  /\ UNCHANGED <<talk, socketOpen, executions, told, toolFaults, usage, afterCall>>

\* The tool reports a failure, with nothing done.
ReportFailure(t) ==
  /\ Goes(t, "run", "fail")
  /\ UNCHANGED <<talk, socketOpen, carriedOut, executions, told, exempt, toolFaults, callVars>>

\* A statement after the effect fails, the event's row say; or withTimeout.
FailHalfway(t) ==
  /\ ToolFault /\ exempt' = exempt \cup {t}
  /\ \/ Goes(t, "succeed", "fail")
     \/ tool[t].at = "run" /\ tool' = [tool EXCEPT ![t].at = "fail", ![t].late = TRUE]
  /\ UNCHANGED <<talk, socketOpen, carriedOut, executions, told, callVars>>

\* A statement before the tool runs fails: the event is logged and nobody answers.
Unanswered(t) ==
  /\ ToolFault /\ tool[t].at \in {"authorize", "previous"} /\ tool' = [tool EXCEPT ![t].at = "done"]
  /\ UNCHANGED <<talk, socketOpen, carriedOut, executions, told, exempt, callVars>>

StatusOf == [succeed |-> "SUCCEEDED", fail |-> "FAILED", deny |-> "DENIED"]
AnswerOf == [succeed |-> "ok", fail |-> "failed", deny |-> "denied"]

\* recordExecution, whose failure is swallowed, and the answer to the model.
Tell(t) ==
  /\ tool[t].at \in DOMAIN StatusOf /\ tool' = [tool EXCEPT ![t].at = "done"]
  /\ \/ /\ executions' = executions \cup {[by |-> t, kind |-> tool[t].kind, status |-> StatusOf[tool[t].at]]}
        /\ UNCHANGED <<toolFaults, exempt>>
     \/ ToolFault /\ exempt' = exempt \cup {t} /\ UNCHANGED executions
  /\ told' = [told EXCEPT ![t] = AnswerOf[tool[t].at]] /\ CountAnswer(t, tool[t].at = "succeed")
  /\ UNCHANGED <<socketOpen, carriedOut, callVars>>

-----------------------------------------------------------------------------
(* The caller, and the policy timers *)

\* pushCallerAudio: a frame is heard; a hang-up that is due stays due.
Hear ==
  /\ ~talk.ending /\ talk.stage > 0 /\ talk' = [talk EXCEPT !.stage = 0]
  /\ UNCHANGED <<socketOpen, toolVars, callVars>>

\* appendTranscript.
Speak ==
  /\ socketOpen /\ ~talk.said /\ talk' = [talk EXCEPT !.said = TRUE]
  /\ UNCHANGED <<socketOpen, toolVars, callVars>>

\* startPolicyTimers: the next stage, if nothing was heard for its time; after the second the
\* hang-up is due.
SilenceStage ==
  /\ ~talk.ending /\ talk.stage < 2
  /\ talk' = [talk EXCEPT !.stage = @ + 1, !.closing = @ \/ talk.stage = 1]
  /\ UNCHANGED <<socketOpen, toolVars, callVars>>

\* endCall, because of silence, the longest duration or anything else.
End(reason) ==
  /\ ~talk.ending /\ (reason = "SILENCE_TIMEOUT" => talk.closing)
  /\ talk' = [talk EXCEPT !.ending = TRUE, !.stage = 0, !.closing = FALSE]
  /\ afterCall' = [at |-> "usage", asked |-> supportAsked]
  /\ UNCHANGED <<socketOpen, toolVars, lead, supportAsked, usage>>

\* The realtime socket has closed: no more events.
SocketGone ==
  /\ talk.ending /\ socketOpen /\ socketOpen' = FALSE
  /\ UNCHANGED <<talk, toolVars, callVars>>

-----------------------------------------------------------------------------
(* finalizeCall; a failure in it is logged and ends it *)

\* The usage, from the session as it is now.
RecordUsage ==
  /\ afterCall.at = "usage"
  /\ afterCall' = [afterCall EXCEPT !.at = IF talk.said THEN "summary" ELSE "done"]
  /\ usage' = usage \cup {talk.followups}
  /\ UNCHANGED <<talk, socketOpen, toolVars, lead, supportAsked>>

\* summarizeCall: none, or one that says whether support is needed.
Summaries == {[ok |-> FALSE, support |-> FALSE]} \cup [ok : {TRUE}, support : BOOLEAN]

\* What the summary says, joined with what was read before it.
Summarize ==
  /\ afterCall.at = "summary"
  /\ \E summary \in Summaries :
       /\ afterCall' = [afterCall EXCEPT !.at = IF summary.ok THEN "lead" ELSE "done"]
       /\ supportAsked' = IF summary.ok THEN afterCall.asked \/ summary.support ELSE supportAsked
  /\ UNCHANGED <<talk, socketOpen, toolVars, lead, usage>>

\* leadStatusForOutcome: the outcome may say nothing of the lead.
SettleLead ==
  /\ afterCall.at = "lead" /\ afterCall' = [afterCall EXCEPT !.at = "done"]
  /\ lead' \in {lead, "outcome"}
  /\ UNCHANGED <<talk, socketOpen, toolVars, supportAsked, usage>>

FinalizeFails ==
  /\ afterCall.at \in {"usage", "summary", "lead"} /\ afterCall' = [afterCall EXCEPT !.at = "done"]
  /\ UNCHANGED <<talk, socketOpen, toolVars, lead, supportAsked, usage>>

ConversationNext ==
  \/ \E t \in ToolCalls :
       \/ \E kind \in ToolKinds : ToolCall(t, kind)
       \/ Authorize(t) \/ FindPrevious(t) \/ CarryOut(t) \/ ReportFailure(t)
       \/ FailHalfway(t) \/ Unanswered(t) \/ Tell(t)
  \/ Hear \/ Speak \/ SilenceStage
  \/ \E reason \in {"SILENCE_TIMEOUT", "MAX_DURATION_REACHED", "STREAM_CLOSED"} : End(reason)
  \/ SocketGone \/ RecordUsage \/ Summarize \/ SettleLead \/ FinalizeFails

ConversationSpec == ConversationInit /\ [][ConversationNext]_convVars

-----------------------------------------------------------------------------

Plain(kind) == {t \in carriedOut \ exempt : tool[t].kind = kind}

\* What the caller hears about an action is so: told that it is done, a call of that tool did it;
\* told that it failed or is refused, nothing was done; a request for support stays on the call.
\* A link already sent is not sent again and no tool exceeds its limit.  The exceptions are the
\* calls of the tool that overlap, fail after their effect, exceed their time or go unrecorded
\* (voice-tool-executor.service.ts:63-135), and effects after the call has ended, over which
\* finalizeCall writes what it read before (call-orchestrator.service.ts:642).
ToldTruly ==
  /\ \A t \in ToolCalls :
       /\ told[t] = "ok" => \E u \in carriedOut : tool[u].kind = tool[t].kind
       /\ told[t] \in {"failed", "denied"} /\ t \in carriedOut => t \in exempt
       /\ t \in carriedOut \ exempt /\ tool[t].kind \in AsksSupport => supportAsked
  /\ \A kind \in Kinds :
       Cardinality(Plain(kind)) <= IF kind \in Idempotent THEN 1 ELSE ToolLimit
=============================================================================
