----------------------------- MODULE VoiceCall -----------------------------
(***************************************************************************)
(* The inbound calls of one organization (apps/api/src/voice): admission,  *)
(* the media session that connects the caller to the realtime model, the   *)
(* events of that session, every way a call ends, and the sweeper of calls *)
(* whose end nobody reported.                                              *)
(*                                                                         *)
(* A call lives twice: as a row of the database and, while its media       *)
(* socket is up, as a session in the process's memory. A step is what      *)
(* happens between two awaits.                                             *)
(***************************************************************************)
EXTENDS Naturals, FiniteSets

CONSTANTS
  Calls,      \* provider call ids
  Enders,     \* endCall invocations that may be in flight at once
  NoCall,     \* no call at hand
  Limit,      \* voice_settings.maxConcurrentCalls
  Speech,     \* the statuses that realtime events move a session to: LISTENING, THINKING,
              \* SPEAKING and TOOL_EXECUTION, which the state machine does not tell apart
  Budget      \* bounds: how often each event of the environment may happen

Events == {"report", "talk", "error", "crash"}

ASSUME VoiceAssumption ==
  /\ IsFiniteSet(Calls) /\ NoCall \notin Calls
  /\ Limit \in Nat
  /\ Speech \subseteq {"LISTENING", "THINKING", "SPEAKING", "TOOL_EXECUTION"}
  /\ Budget \in [Events -> Nat]

VARIABLES
  row,        \* calls.status, NONE before the row exists
  usage,      \* number of voice_usage_records rows of the call
  old,        \* startedAt is further back than the limit of the call and the grace period
  admission,  \* admitInboundCall: its next step
  socket,     \* the media stream of the telephony provider
  starter,    \* startMediaSession: its next step
  mapped,     \* the session is in the sessions map
  mem,        \* session.status
  ending,     \* session.ending
  realtime,   \* session.realtime
  timers,     \* the policy timers of the session run
  tick,       \* a tick of the timers has found the session alive and reads the settings
  pending,    \* statuses whose update a realtime event has issued
  ender,      \* each endCall invocation: next step, call, status it ends the call with
  candidates, \* the sweeper's snapshot
  overlap,    \* history: two admissions were between their count and their create
  reopened,   \* history: a row has left a terminal status
  spent       \* how many of each bounded event have happened

rowVars == <<row, usage, old, reopened>>
admitVars == <<admission, overlap>>
sessionVars == <<mapped, mem, ending, realtime, timers>>
handlerVars == <<socket, starter, pending, tick>>
vars == <<rowVars, admitVars, sessionVars, handlerVars, ender, candidates, spent>>

-----------------------------------------------------------------------------
(* The call state machine *)

Terminal == {"COMPLETED", "DISCONNECTED", "FAILED"}
Conversation == {"ACTIVE", "LISTENING", "THINKING", "SPEAKING", "TOOL_EXECUTION", "VERIFYING"}
CallStatus ==
  {"RINGING", "CONNECTING", "AI_SESSION_STARTING", "ENDING"} \cup Conversation \cup Terminal

Transitions == [s \in CallStatus |->
  CASE s = "RINGING"             -> {"CONNECTING", "DISCONNECTED", "FAILED"}
    [] s = "CONNECTING"          -> {"AI_SESSION_STARTING", "DISCONNECTED", "FAILED"}
    [] s = "AI_SESSION_STARTING" -> {"ACTIVE", "ENDING", "DISCONNECTED", "FAILED"}
    [] s \in Conversation        -> Conversation \cup {"ENDING", "DISCONNECTED", "FAILED"}
    [] s = "ENDING"              -> Terminal
    [] s \in Terminal            -> {}]

CanTransition(from, to) == from # to /\ to \in Transitions[from]

\* What the sweeper takes for a live call.
LiveStatuses == {"QUEUED", "RINGING", "IN_PROGRESS", "CONNECTING", "ANSWERED"}

Starting == {"read", "connecting", "starting", "session", "answer", "activating"}
Idle == [pc |-> "idle", call |-> NoCall, as |-> "NONE"]

Init ==
  /\ row = [c \in Calls |-> "NONE"] /\ usage = [c \in Calls |-> 0]
  /\ old = [c \in Calls |-> FALSE]
  /\ admission = [c \in Calls |-> "idle"]
  /\ socket = [c \in Calls |-> "none"] /\ starter = [c \in Calls |-> "none"]
  /\ mapped = [c \in Calls |-> FALSE] /\ mem = [c \in Calls |-> "RINGING"]
  /\ ending = [c \in Calls |-> FALSE] /\ realtime = [c \in Calls |-> "none"]
  /\ timers = [c \in Calls |-> FALSE] /\ pending = [c \in Calls |-> {}]
  /\ tick = [c \in Calls |-> FALSE]
  /\ ender = [e \in Enders |-> Idle]
  /\ candidates = {}
  /\ overlap = FALSE /\ reopened = FALSE
  /\ spent = [x \in Events |-> 0]

Spend(x) == spent[x] < Budget[x] /\ spent' = [spent EXCEPT ![x] = @ + 1]

\* update({ where: { id: c }, data: { status: s } }): no guard on what the status is.
SetRow(c, s) ==
  /\ row' = [row EXCEPT ![c] = s]
  /\ reopened' = (reopened \/ (row[c] \in Terminal /\ s \notin Terminal))

Open == {c \in Calls : row[c] \notin Terminal \cup {"NONE"}}

-----------------------------------------------------------------------------
(* admitInboundCall *)

Admit(c, from, to) == admission[c] = from /\ admission' = [admission EXCEPT ![c] = to]

\* The webhook of a new call; one that is redelivered finds the row and changes nothing.
Incoming(c) ==
  /\ Admit(c, "idle", "count")
  /\ UNCHANGED <<rowVars, overlap, sessionVars, handlerVars, ender, candidates, spent>>

\* One line too many (a slip LimitKept must notice).
CountInclusive(c) ==
  /\ Admit(c, "count", IF Cardinality(Open) <= Limit THEN "create" ELSE "done")
  /\ overlap' = (overlap \/ \E o \in Calls \ {c} : admission[o] = "create")
  /\ UNCHANGED <<rowVars, sessionVars, handlerVars, ender, candidates, spent>>

\* The organization's open calls are counted ...
Count(c) ==
  /\ Admit(c, "count", IF Cardinality(Open) < Limit THEN "create" ELSE "done")
  /\ overlap' = (overlap \/ \E o \in Calls \ {c} : admission[o] = "create")
  /\ UNCHANGED <<rowVars, sessionVars, handlerVars, ender, candidates, spent>>

\* ... and, the budget, the agent and the caller looked up, the row is created.
Create(c) ==
  /\ Admit(c, "create", "done")
  /\ SetRow(c, "RINGING")
  /\ UNCHANGED <<usage, old, overlap, sessionVars, handlerVars, ender, candidates, spent>>

\* Module off, kill switch, budget spent, no active agent, an error.
Refuse(c) ==
  /\ \E step \in {"count", "create"} : Admit(c, step, "done")
  /\ UNCHANGED <<rowVars, overlap, sessionVars, handlerVars, ender, candidates, spent>>

-----------------------------------------------------------------------------
(* startMediaSession *)

Start(c, from, to) == starter[c] = from /\ starter' = [starter EXCEPT ![c] = to]

\* The start frame of a media socket, with a token issued at most two minutes ago.
Connect(c) ==
  /\ row[c] # "NONE" /\ socket[c] = "none" /\ ~old[c]
  /\ socket' = [socket EXCEPT ![c] = "open"]
  /\ Start(c, "none", "read")
  /\ UNCHANGED <<rowVars, admitVars, sessionVars, pending, tick, ender, candidates, spent>>

\* A session for whatever call the token names (a slip EndIsFinal must notice).
StartAny(c) ==
  /\ Start(c, "read", "connecting")
  /\ mapped' = [mapped EXCEPT ![c] = TRUE]
  /\ mem' = [mem EXCEPT ![c] = "CONNECTING"]
  /\ UNCHANGED <<ending, realtime, timers, rowVars, admitVars, socket, pending, tick, ender,
                 candidates, spent>>

\* The row is read; unless the call has ended its session is created and registered, and
\* the first transition issued.
StartRead(c) ==
  /\ IF row[c] \in Terminal
     THEN Start(c, "read", "done") /\ UNCHANGED <<mapped, mem>>
     ELSE /\ Start(c, "read", "connecting")
          /\ mapped' = [mapped EXCEPT ![c] = TRUE]
          /\ mem' = [mem EXCEPT ![c] = "CONNECTING"]
  /\ UNCHANGED <<ending, realtime, timers, rowVars, admitVars, socket, pending, tick, ender,
                 candidates, spent>>

\* transition(CONNECTING) is written and transition(AI_SESSION_STARTING) issued ...
WriteConnecting(c) ==
  /\ Start(c, "connecting", "starting")
  /\ SetRow(c, "CONNECTING")
  /\ mem' = [mem EXCEPT ![c] = "AI_SESSION_STARTING"]
  /\ UNCHANGED <<usage, old, mapped, ending, realtime, timers, admitVars, socket, pending, tick,
                 ender, candidates, spent>>

\* ... and written in its turn.
WriteStarting(c) ==
  /\ Start(c, "starting", "session")
  /\ SetRow(c, "AI_SESSION_STARTING")
  /\ UNCHANGED <<usage, old, sessionVars, admitVars, socket, pending, tick, ender, candidates,
                 spent>>

\* createSession resolves, whether or not the call is still wanted.
OpenSession(c) ==
  /\ Start(c, "session", "answer")
  /\ realtime' = [realtime EXCEPT ![c] = "open"]
  /\ UNCHANGED <<mapped, mem, ending, timers, rowVars, admitVars, socket, pending, tick, ender,
                 candidates, spent>>

\* answeredAt is stored; then ACTIVE, if the state machine allows it, and the timers.
Answer(c) ==
  /\ IF CanTransition(mem[c], "ACTIVE")
     THEN /\ Start(c, "answer", "activating")
          /\ mem' = [mem EXCEPT ![c] = "ACTIVE"]
          /\ UNCHANGED timers
     ELSE /\ Start(c, "answer", "done")
          /\ timers' = [timers EXCEPT ![c] = TRUE]
          /\ UNCHANGED mem
  /\ UNCHANGED <<mapped, ending, realtime, rowVars, admitVars, socket, pending, tick, ender,
                 candidates, spent>>

\* A session without its timers (a slip SessionsFreed must notice).
WriteActiveOnly(c) ==
  /\ Start(c, "activating", "done")
  /\ SetRow(c, "ACTIVE")
  /\ UNCHANGED <<usage, old, sessionVars, admitVars, socket, pending, tick, ender, candidates,
                 spent>>

WriteActive(c) ==
  /\ Start(c, "activating", "done")
  /\ SetRow(c, "ACTIVE")
  /\ timers' = [timers EXCEPT ![c] = TRUE]
  /\ UNCHANGED <<usage, old, mapped, mem, ending, realtime, admitVars, socket, pending, tick,
                 ender, candidates, spent>>

\* A realtime event moves the session; its update reaches the database in its own time.
Talk(c, s) ==
  /\ realtime[c] = "open" /\ CanTransition(mem[c], s)
  /\ mem' = [mem EXCEPT ![c] = s]
  /\ pending' = [pending EXCEPT ![c] = @ \cup {s}]
  /\ Spend("talk")
  /\ UNCHANGED <<mapped, ending, realtime, timers, rowVars, admitVars, socket, starter, tick, ender,
                 candidates>>

WriteTalk(c, s) ==
  /\ s \in pending[c]
  /\ pending' = [pending EXCEPT ![c] = @ \ {s}]
  /\ SetRow(c, s)
  /\ UNCHANGED <<usage, old, sessionVars, admitVars, socket, starter, tick, ender, candidates,
                 spent>>

-----------------------------------------------------------------------------
(* endCall and everything that calls it *)

EndAt(e, step, c, as) == ender' = [ender EXCEPT ![e] = [pc |-> step, call |-> c, as |-> as]]

Return(e) == ender' = [ender EXCEPT ![e] = Idle]

\* The realtime session is closed, the socket asked to close, the session forgotten.
Teardown(c) ==
  /\ mapped' = [mapped EXCEPT ![c] = FALSE]
  /\ realtime' = [realtime EXCEPT ![c] = IF @ = "open" THEN "closed" ELSE @]

\* endCall without its look at session.ending (a slip EndingAttended must notice).
EndCallAgain(e, c, as) ==
  /\ ender[e] = Idle
  /\ IF mapped[c]
     THEN /\ ending' = [ending EXCEPT ![c] = TRUE]
          /\ timers' = [timers EXCEPT ![c] = FALSE]
          /\ IF CanTransition(mem[c], "ENDING")
             THEN /\ mem' = [mem EXCEPT ![c] = "ENDING"]
                  /\ EndAt(e, "ending", c, as)
                  /\ UNCHANGED <<mapped, realtime>>
             ELSE Teardown(c) /\ EndAt(e, "look", c, as) /\ UNCHANGED mem
     ELSE EndAt(e, "look", c, as) /\ UNCHANGED sessionVars

\* endCall up to its first await. A session that somebody else ends is left to them; from
\* CONNECTING the state machine refuses ENDING and nothing is awaited before the teardown.
EndCall(e, c, as) ==
  /\ ender[e] = Idle
  /\ \/ mapped[c] /\ ending[c] /\ UNCHANGED <<ender, sessionVars>>
     \/ /\ mapped[c] /\ ~ending[c]
        /\ ending' = [ending EXCEPT ![c] = TRUE]
        /\ timers' = [timers EXCEPT ![c] = FALSE]
        /\ IF CanTransition(mem[c], "ENDING")
           THEN /\ mem' = [mem EXCEPT ![c] = "ENDING"]
                /\ EndAt(e, "ending", c, as)
                /\ UNCHANGED <<mapped, realtime>>
           ELSE Teardown(c) /\ EndAt(e, "look", c, as) /\ UNCHANGED mem
     \/ ~mapped[c] /\ EndAt(e, "look", c, as) /\ UNCHANGED sessionVars

\* The ENDING transition is written and the session torn down.
EndWrite(e) ==
  /\ ender[e].pc = "ending"
  /\ SetRow(ender[e].call, "ENDING")
  /\ Teardown(ender[e].call)
  /\ EndAt(e, "look", ender[e].call, ender[e].as)
  /\ UNCHANGED <<usage, old, mem, ending, timers, admitVars, handlerVars, candidates, spent>>

\* A session that has begun to end taken for an ended call (EndedIsClosed must notice).
LookAtEnding(e) ==
  /\ ender[e].pc = "look"
  /\ IF row[ender[e].call] \in Terminal \cup {"ENDING"}
     THEN Return(e) ELSE EndAt(e, "write", ender[e].call, ender[e].as)
  /\ UNCHANGED <<rowVars, admitVars, sessionVars, handlerVars, candidates, spent>>

\* endCall without the second look at the row (a slip ImplementsCallLedger must notice).
LookAway(e) ==
  /\ ender[e].pc = "look"
  /\ EndAt(e, "write", ender[e].call, ender[e].as)
  /\ UNCHANGED <<rowVars, admitVars, sessionVars, handlerVars, candidates, spent>>

\* The row is read again: an ended call is not ended twice ...
Look(e) ==
  /\ ender[e].pc = "look"
  /\ IF row[ender[e].call] \in Terminal
     THEN Return(e) ELSE EndAt(e, "write", ender[e].call, ender[e].as)
  /\ UNCHANGED <<rowVars, admitVars, sessionVars, handlerVars, candidates, spent>>

\* The call closed and finalizeCall left out (a slip Accounted must notice).
FinishOnly(e) ==
  /\ ender[e].pc = "write"
  /\ SetRow(ender[e].call, ender[e].as)
  /\ Return(e)
  /\ UNCHANGED <<usage, old, admitVars, sessionVars, handlerVars, candidates, spent>>

\* ... but the write does not say so.
Finish(e) ==
  /\ ender[e].pc = "write"
  /\ SetRow(ender[e].call, ender[e].as)
  /\ EndAt(e, "bill", ender[e].call, ender[e].as)
  /\ UNCHANGED <<usage, old, admitVars, sessionVars, handlerVars, candidates, spent>>

\* The call forgotten only in part (a slip TypeOK must notice).
BillKeepingCall(e) ==
  /\ ender[e].pc = "bill"
  /\ usage' = [usage EXCEPT ![ender[e].call] = @ + 1]
  /\ ender' = [ender EXCEPT ![e].pc = "idle"]
  /\ UNCHANGED <<row, old, reopened, admitVars, sessionVars, handlerVars, candidates, spent>>

\* finalizeCall records the usage; what it does after that is not about the call's state.
Bill(e) ==
  /\ ender[e].pc = "bill"
  /\ usage' = [usage EXCEPT ![ender[e].call] = @ + 1]
  /\ Return(e)
  /\ UNCHANGED <<row, old, reopened, admitVars, sessionVars, handlerVars, candidates, spent>>

\* A statement of endCall or finalizeCall fails; whoever called it swallows the error.
EndFails(e) ==
  /\ ender[e].pc \in {"look", "write", "bill"}
  /\ Return(e) /\ Spend("error")
  /\ UNCHANGED <<rowVars, admitVars, sessionVars, handlerVars, candidates>>

\* The stop frame of the media stream.
StreamStops(e, c) ==
  /\ socket[c] = "open" /\ EndCall(e, c, "COMPLETED")
  /\ Spend("report")
  /\ UNCHANGED <<rowVars, admitVars, handlerVars, candidates>>

\* The media socket closes, at either side's wish.
SocketCloses(e, c) ==
  /\ socket[c] = "open" /\ EndCall(e, c, "DISCONNECTED")
  /\ socket' = [socket EXCEPT ![c] = "closed"]
  /\ UNCHANGED <<rowVars, admitVars, starter, pending, tick, candidates, spent>>

\* The provider's status callback for the end of the call.
ProviderReports(e, c) ==
  /\ row[c] # "NONE"
  /\ \E as \in {"COMPLETED", "DISCONNECTED"} : EndCall(e, c, as)
  /\ Spend("report")
  /\ UNCHANGED <<rowVars, admitVars, handlerVars, candidates>>

\* A fatal error event of the realtime session; failSafeEnd may come after its close.
RealtimeFails(e, c) ==
  /\ realtime[c] # "none" /\ EndCall(e, c, "FAILED")
  /\ Spend("report")
  /\ UNCHANGED <<rowVars, admitVars, handlerVars, candidates>>

\* The realtime socket drops ...
RealtimeDrops(c) ==
  /\ realtime[c] = "open"
  /\ realtime' = [realtime EXCEPT ![c] = "closed"]
  /\ UNCHANGED <<mapped, mem, ending, timers, rowVars, admitVars, handlerVars, ender,
                 candidates, spent>>

\* ... and the closed event finds that nobody meant to.
RealtimeClosed(e, c) ==
  /\ realtime[c] = "closed" /\ mapped[c] /\ ~ending[c]
  /\ EndCall(e, c, "DISCONNECTED")
  /\ UNCHANGED <<rowVars, admitVars, handlerVars, candidates, spent>>

\* startMediaSession's catch: no realtime session, or a failed update.
StartFails(e, c) ==
  /\ \E step \in {"session", "answer"} : Start(c, step, "done")
  /\ EndCall(e, c, "FAILED")
  /\ UNCHANGED <<rowVars, admitVars, socket, pending, tick, candidates, spent>>

\* A tick of the policy timers finds the session alive ...
Tick(c) ==
  /\ timers[c] /\ mapped[c] /\ ~ending[c]
  /\ tick' = [tick EXCEPT ![c] = TRUE]
  /\ UNCHANGED <<rowVars, admitVars, sessionVars, socket, starter, pending, ender, candidates,
                 spent>>

\* ... and, the settings read, that the call has lasted too long or been silent too long,
\* whatever has become of the session since.
Expires(e, c) ==
  /\ tick[c] /\ tick' = [tick EXCEPT ![c] = FALSE]
  /\ EndCall(e, c, "COMPLETED")
  /\ UNCHANGED <<rowVars, admitVars, socket, starter, pending, candidates, spent>>

-----------------------------------------------------------------------------
(* The sweeper, time, the crash *)

\* No handler of the call is in flight.
Quiet(c) ==
  /\ starter[c] \notin Starting /\ ~mapped[c] /\ pending[c] = {} /\ ~tick[c]
  /\ \A e \in Enders : ender[e].call # c

\* The longest call and the grace period have passed; a session would have expired.
Age(c) ==
  /\ row[c] # "NONE" /\ ~old[c] /\ Quiet(c)
  /\ old' = [old EXCEPT ![c] = TRUE]
  /\ UNCHANGED <<row, usage, reopened, admitVars, sessionVars, handlerVars, ender, candidates,
                 spent>>

\* Only calls that never got a socket (a slip LobbyCleared must notice).
StaleRinging == {c \in Calls : row[c] = "RINGING" /\ old[c]}

Stale == {c \in Calls : row[c] \in LiveStatuses /\ old[c]}

\* sweep() reads the stale calls ...
SweepRead ==
  /\ candidates = {} /\ Stale # {}
  /\ candidates' = Stale
  /\ UNCHANGED <<rowVars, admitVars, sessionVars, handlerVars, ender, spent>>

\* ... and closes each if its status is still one of the live ones.
SweepRow(c) ==
  /\ c \in candidates /\ candidates' = candidates \ {c}
  /\ IF row[c] \in LiveStatuses THEN SetRow(c, "DISCONNECTED") ELSE UNCHANGED <<row, reopened>>
  /\ UNCHANGED <<usage, old, admitVars, sessionVars, handlerVars, ender, spent>>

\* The API process dies and restarts: the rows stay, the media sockets are gone.
Crash ==
  /\ Spend("crash")
  /\ admission' = [c \in Calls |-> IF admission[c] = "idle" THEN "idle" ELSE "done"]
  /\ socket' = [c \in Calls |-> IF socket[c] = "open" THEN "closed" ELSE socket[c]]
  /\ starter' = [c \in Calls |-> "none"]
  /\ mapped' = [c \in Calls |-> FALSE] /\ mem' = [c \in Calls |-> "RINGING"]
  /\ ending' = [c \in Calls |-> FALSE] /\ realtime' = [c \in Calls |-> "none"]
  /\ timers' = [c \in Calls |-> FALSE] /\ pending' = [c \in Calls |-> {}]
  /\ tick' = [c \in Calls |-> FALSE]
  /\ ender' = [e \in Enders |-> Idle]
  /\ candidates' = {}
  /\ UNCHANGED <<rowVars, overlap>>

-----------------------------------------------------------------------------
Admission(c) == Incoming(c) \/ Count(c) \/ Create(c) \/ Refuse(c)

Media(c) ==
  \/ Connect(c) \/ StartRead(c) \/ WriteConnecting(c) \/ WriteStarting(c) \/ OpenSession(c)
  \/ Answer(c) \/ WriteActive(c) \/ RealtimeDrops(c) \/ Tick(c)
  \/ \E s \in Speech : Talk(c, s) \/ WriteTalk(c, s)

Ends(e, c) ==
  \/ StreamStops(e, c) \/ SocketCloses(e, c) \/ ProviderReports(e, c) \/ RealtimeFails(e, c)
  \/ RealtimeClosed(e, c) \/ StartFails(e, c) \/ Expires(e, c)

Ending(e) == EndWrite(e) \/ Look(e) \/ Finish(e) \/ Bill(e) \/ EndFails(e)

Next ==
  \/ \E c \in Calls : Admission(c) \/ Media(c) \/ Age(c) \/ SweepRow(c)
  \/ \E e \in Enders : Ending(e) \/ \E c \in Calls : Ends(e, c)
  \/ SweepRead \/ Crash

Spec == Init /\ [][Next]_vars

\* The steps a running process takes by itself. createSession gives up after 15 seconds,
\* setInterval ticks every two and ends what has lasted too long, the cron runs every ten
\* minutes and at boot. Nobody has to call, speak or hang up, and a report of the provider
\* may be lost.
Fairness ==
  /\ \A c \in Calls :
       /\ WF_vars(StartRead(c) \/ WriteConnecting(c) \/ WriteStarting(c) \/ OpenSession(c)
                  \/ Answer(c) \/ WriteActive(c) \/ \E e \in Enders : StartFails(e, c))
       /\ WF_vars(\E s \in Speech : WriteTalk(c, s))
       /\ WF_vars(Tick(c)) /\ WF_vars(\E e \in Enders : Expires(e, c))
       /\ WF_vars(Age(c)) /\ WF_vars(SweepRow(c))
  /\ \A e \in Enders : WF_vars(EndWrite(e) \/ Look(e) \/ Finish(e) \/ Bill(e))
  /\ WF_vars(SweepRead)

FairSpec == Spec /\ Fairness

-----------------------------------------------------------------------------
(* Properties *)

RowTypes ==
  /\ row \in [Calls -> CallStatus \cup {"NONE"}] /\ usage \in [Calls -> Nat]
  /\ old \in [Calls -> BOOLEAN] /\ reopened \in BOOLEAN

AdmitTypes ==
  admission \in [Calls -> {"idle", "count", "create", "done"}] /\ overlap \in BOOLEAN

SessionTypes ==
  /\ mapped \in [Calls -> BOOLEAN] /\ mem \in [Calls -> CallStatus]
  /\ ending \in [Calls -> BOOLEAN] /\ timers \in [Calls -> BOOLEAN]
  /\ realtime \in [Calls -> {"none", "open", "closed"}]

HandlerTypes ==
  /\ socket \in [Calls -> {"none", "open", "closed"}]
  /\ starter \in [Calls -> Starting \cup {"none", "done"}]
  /\ pending \in [Calls -> SUBSET Speech] /\ tick \in [Calls -> BOOLEAN]

EnderTypes ==
  ender \in [Enders -> {Idle} \cup
    [pc : {"ending", "look", "write", "bill"}, call : Calls, as : Terminal]]

\* Every variable has its type; an idle endCall has no call, a running one has.
TypeOK ==
  /\ RowTypes /\ AdmitTypes /\ SessionTypes /\ HandlerTypes /\ EnderTypes
  /\ candidates \in SUBSET Calls /\ spent \in [Events -> Nat]

\* endCall's early return is safe: a session marked ending and still registered is attended
\* by exactly one other endCall, and nobody writes ENDING for a session that is gone.
Attending(c) == {e \in Enders : ender[e].pc = "ending" /\ ender[e].call = c}
EndingAttended ==
  \A c \in Calls :
    /\ mapped[c] /\ ending[c] <=> Attending(c) # {}
    /\ \A e, f \in Attending(c) : e = f

\* The organization's line limit: as long as no two admissions overlap between the count and
\* the create (call-orchestrator.service.ts:101-132) and no ended call is reopened, there
\* are never more open calls than maxConcurrentCalls.
LimitKept == ~overlap /\ ~reopened => Cardinality(Open) <= Limit

\* A call that endCall has closed has its usage recorded, or is about to have it, unless an
\* error or a crash came in between: the spending circuit breaker sees its cost.
Accounted ==
  spent["error"] = 0 /\ spent["crash"] = 0 =>
    \A c \in Calls : row[c] \in Terminal /\ ~old[c] =>
      usage[c] > 0 \/ \E e \in Enders : ender[e].call = c /\ ender[e].pc = "bill"

\* A call that has ended, with nothing on its way that was decided before it did: no
\* session, no realtime socket, no update issued by startMediaSession, an event or endCall.
Settled(c) ==
  /\ row[c] \in Terminal
  /\ starter[c] \in {"none", "read", "done"} /\ ~mapped[c] /\ realtime[c] # "open"
  /\ pending[c] = {}
  /\ \A e \in Enders : ender[e].call = c => ender[e].pc \in {"look", "bill"}

\* A settled call stays settled with the status it has: a late start frame, a redelivered
\* report, a timer and the sweeper all look before they write.
EndIsFinal == [][\A c \in Calls : Settled(c) => Settled(c)' /\ row'[c] = row[c]]_vars

\* No session outlives its call for ever: one that was registered after its socket had
\* closed, or whose end nobody reports, is ended by its timers.
SessionsFreed == \A c \in Calls : mapped[c] ~> ~mapped[c]

\* Whatever sets session.ending closes the call, unless a statement fails or the process dies.
EndedIsClosed ==
  \A c \in Calls :
    (mapped[c] /\ ending[c]) ~> (row[c] \in Terminal \/ spent["error"] > 0 \/ spent["crash"] > 0)

\* The sweeper frees the line of a call that never got further than CONNECTING, also when
\* the process died in between.
LobbyCleared == \A c \in Calls : row[c] \in LiveStatuses ~> row[c] \notin LiveStatuses

-----------------------------------------------------------------------------
(* The record of a call, as CallLedger has it *)

Line == [c \in Calls |->
  IF row[c] = "NONE" THEN "none" ELSE IF row[c] \in Terminal THEN "closed" ELSE "open"]

\* Somebody who was let in by an open call, and may write its row without looking again.
Attended == {c \in Calls :
  \/ starter[c] \in Starting \ {"read"} \/ mapped[c] \/ realtime[c] = "open" \/ pending[c] # {}
  \/ \E e \in Enders : ender[e].call = c /\ ender[e].pc \in {"ending", "write"}}

Owed == {p \in Calls \X Enders : ender[p[2]].call = p[1] /\ ender[p[2]].pc = "bill"}

Ledger == INSTANCE CallLedger WITH
  Hands <- Enders, line <- Line, attended <- Attended, owed <- Owed, recorded <- usage,
  aged <- {c \in Calls : old[c]}, faults <- spent["error"] + spent["crash"]

\* Every step of the code is one of the ledger, or none: nobody gets to work on a call
\* that has ended, whoever closes a call owes its bill, a bill that is owed is recorded
\* once or lost with a fault, and the sweeper closes no call that owes one.
ImplementsCallLedger == Ledger!LedgerSpec

-----------------------------------------------------------------------------
(* What makes these properties inductive *)

\* Only a created call has handlers at work, and it is created once.
RowFirst ==
  \A c \in Calls :
    /\ row[c] # "NONE" => admission[c] = "done"
    /\ row[c] = "NONE" =>
         /\ socket[c] = "none" /\ starter[c] = "none"
         /\ ~mapped[c] /\ realtime[c] = "none" /\ pending[c] = {} /\ ~tick[c]
         /\ \A e \in Enders : ender[e].call # c

\* Before startMediaSession has read the row there is no session, and nobody ends one.
Untouched ==
  \A c \in Calls : starter[c] \in {"none", "read"} => ~mapped[c] /\ ~ending[c]

\* A call that was counted in, and not overtaken, finds its line free.
LineFree ==
  /\ ~overlap => \A c, o \in Calls : admission[c] = "create" /\ admission[o] = "create" => c = o
  /\ ~overlap /\ ~reopened =>
       \A c \in Calls : admission[c] = "create" => Cardinality(Open) < Limit

\* The sweeper only looks at calls that are long over.
SweptAreOld == \A c \in candidates : old[c]

\* What admission, startMediaSession, endCall and the sweeper rely on without looking.
CallInv == RowFirst /\ Untouched /\ LineFree /\ SweptAreOld

-----------------------------------------------------------------------------
(* What the documentation of the code says and the code does not do *)

\* The sweeper "closes calls that stopped without telling us" (stale-call-sweeper
\* .service.ts:6): no row stays open for ever.
StrandedIsClosed == \A c \in Calls : row[c] # "NONE" ~> row[c] \in Terminal

=============================================================================
