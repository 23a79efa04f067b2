---------------------------- MODULE CallDialogue ----------------------------
(***************************************************************************)
(* What is said in one call: the realtime session of the model             *)
(* (openai-realtime.provider.ts), the events it sends, and the handlers    *)
(* and timers of call-orchestrator.service.ts that answer them.  Events    *)
(* arrive in order and are handled without waiting for one another: a      *)
(* handler's first stretch runs at once, what follows an await later.      *)
(* A command of ours reaches the session at once: its delay is that of the *)
(* event before it.  The rows of calls and tools are in VoiceCall and      *)
(* CallConversation.                                                       *)
(***************************************************************************)
EXTENDS Naturals, Sequences, FiniteSets, SequencesExt

CONSTANTS
  DialogueTools,  \* tool calls the model may ask for
  Utterances,     \* bound: what the caller says
  DialogueFaults  \* bound: tool calls, silences, calls that grow long, drops of the socket, late
                  \* openings and missed ticks, together

\* What the session tells the handlers of, besides the tools it asks for.
SessionEvents == {"audio", "speech_started", "assistant", "customer", "done"}
Excuses == {"late text", "late thought", "called back", "missed tick", "late link"}

ASSUME DialogueAssumption ==
  /\ Utterances \in Nat /\ DialogueFaults \in Nat
  /\ DialogueTools \cap (SessionEvents \cup Excuses) = {}

VARIABLES
  link,          \* the socket to the realtime service
  over,          \* why the call has ended, "no" while it has not
  generating,    \* the session: is a response being generated
  waiting,       \* the session: items of ours that no response has followed yet
  stream,        \* events on their way
  talking,       \* the caller is talking
  toBeWritten,   \* the caller's utterances whose transcription is not done
  uttered,       \* how often the caller has spoken
  said,          \* history: who has spoken, in order, of what the transcript does not hold yet
  misheard,      \* history: session.transcript, and with it the rows of call_transcript_turns, is
                 \* not what was said in the order in which it was said
  mem,           \* CallSession: [status, stage, wrapped]
  unsettled,     \* transcripts stored by handlers that have not come back from the await
  running,       \* tool calls being carried out
  toolsAsked,    \* tool calls that the model has made
  idle,          \* how long no frame of the caller has come: 0, 1 warns, 2 ends
  clock,         \* how long the call lasts: 0, 1 is time to wrap up, 2 is the end
  closer,        \* the timer that ends a silent call is set
  notices,       \* history: notices of silence since the last frame of the caller
  excepted,      \* history: what the properties except
  dialogueFaults

speech == <<talking, toBeWritten, uttered, said>>
sessionSide == <<generating, waiting, speech>>
memory == <<misheard, mem, unsettled>>
toolSide == <<running, toolsAsked>>
clocks == <<idle, clock, closer, notices>>
dialogueVars == <<link, over, sessionSide, stream, memory, toolSide, clocks, excepted, dialogueFaults>>

Speakers == {"CUSTOMER", "AGENT"}
Items == {"opening", "probe", "final", "wrapup", "turn"} \cup DialogueTools
Fresh == [status |-> "ACTIVE", stage |-> 0, wrapped |-> FALSE]

DialogueTypeOK ==
  /\ link \in {"connecting", "late", "open", "closed"}
  /\ over \in {"no", "REALTIME_UNAVAILABLE", "REALTIME_ERROR", "REALTIME_CLOSED", "SILENCE_TIMEOUT",
               "MAX_DURATION_REACHED", "HANGUP"}
  /\ generating \in BOOLEAN /\ talking \in BOOLEAN /\ closer \in BOOLEAN
  /\ waiting \subseteq Items /\ excepted \subseteq Excuses \cup Items
  /\ said \in Seq(Speakers) /\ uttered \in 0..Utterances /\ misheard \in BOOLEAN
  /\ toBeWritten \in 0..Utterances /\ unsettled \in 0..Utterances
  /\ mem.status \in {"ACTIVE", "LISTENING", "THINKING", "SPEAKING", "TOOL_EXECUTION"}
  /\ mem.stage \in 0..2
  /\ running \subseteq toolsAsked /\ toolsAsked \subseteq DialogueTools
  /\ idle \in 0..2 /\ clock \in 0..2 /\ dialogueFaults \in 0..DialogueFaults

DialogueInit ==
  /\ link = "connecting" /\ over = "no"
  /\ generating = FALSE /\ waiting = {} /\ talking = FALSE /\ toBeWritten = 0 /\ said = <<>>
  /\ stream = <<>> /\ misheard = FALSE /\ uttered = 0 /\ mem = Fresh
  /\ unsettled = 0 /\ running = {} /\ toolsAsked = {}
  /\ idle = 0 /\ clock = 0 /\ closer = FALSE /\ notices = <<>>
  /\ excepted = {} /\ dialogueFaults = 0

DialogueFault == dialogueFaults < DialogueFaults /\ dialogueFaults' = dialogueFaults + 1
CallLive == link = "open" /\ over = "no"

-----------------------------------------------------------------------------
(* The session *)

\* An item and response.create: a response follows, unless one is being generated; then the
\* request is turned away with an error that nobody handles, and the item waits for the next.
AskModel(item) ==
  /\ generating' = TRUE
  /\ waiting' = IF generating THEN waiting \cup {item} ELSE {}
  /\ excepted' = IF generating THEN excepted \cup {item} ELSE excepted \ Items

\* The result of a tool put into the conversation, and no response asked for (a slip DialogueHolds
\* must notice).
AskNothing(item) ==
  waiting' = waiting \cup {item} /\ UNCHANGED <<generating, excepted>>

\* sendToolResult() of the session.
SendToolResult(t) == AskModel(t)

CallerStarts ==
  /\ CallLive /\ ~talking /\ idle = 0 /\ uttered < Utterances
  /\ talking' = TRUE /\ uttered' = uttered + 1 /\ stream' = Append(stream, "speech_started")
  /\ UNCHANGED <<link, over, generating, waiting, toBeWritten, said, memory, toolSide, clocks, excepted,
                 dialogueFaults>>

\* The session answers the caller of itself.
CallerStops ==
  /\ CallLive /\ talking /\ talking' = FALSE
  /\ said' = Append(said, "CUSTOMER") /\ toBeWritten' = toBeWritten + 1
  /\ AskModel("turn")
  /\ UNCHANGED <<link, over, uttered, stream, memory, toolSide, clocks, dialogueFaults>>

\* A transcription takes as long as it takes: the reply may be written before it.
Transcribe ==
  /\ CallLive /\ toBeWritten > 0 /\ toBeWritten' = toBeWritten - 1
  /\ stream' = Append(stream, "customer")
  /\ UNCHANGED <<link, over, generating, waiting, talking, uttered, said, memory, toolSide, clocks, excepted,
                 dialogueFaults>>

ReplyCallsTool(t) ==
  /\ CallLive /\ generating /\ t \notin toolsAsked /\ DialogueFault
  /\ toolsAsked' = toolsAsked \cup {t} /\ stream' = Append(stream, t)
  /\ UNCHANGED <<link, over, sessionSide, memory, running, clocks, excepted>>

ReplyEnds(spoken) ==
  /\ CallLive /\ generating /\ generating' = FALSE
  /\ said' = IF spoken THEN Append(said, "AGENT") ELSE said
  /\ stream' = stream \o (IF spoken THEN <<"audio", "assistant">> ELSE <<>>) \o <<"done">>
  /\ excepted' = IF spoken /\ toBeWritten > 0 THEN excepted \cup {"late text"} ELSE excepted
  /\ UNCHANGED <<link, over, waiting, talking, toBeWritten, uttered, memory, toolSide, clocks, dialogueFaults>>

-----------------------------------------------------------------------------
(* The socket, and the end *)

\* endCall: the timers are cleared and the session closed; what is under way is lost, and what
\* handlers send after is dropped.
EndDialogue(reason) ==
  /\ over' = reason /\ closer' = FALSE
  /\ generating' = FALSE /\ waiting' = {} /\ talking' = FALSE /\ toBeWritten' = 0 /\ said' = <<>>
  /\ stream' = <<>> /\ unsettled' = 0 /\ running' = {} /\ uttered' = uttered

OpenInTime ==
  /\ link = "connecting" /\ over = "no" /\ link' = "open"
  /\ AskModel("opening")
  /\ UNCHANGED <<over, stream, speech, memory, toolSide, clocks, dialogueFaults>>

\* waitUntilOpen() gives up; nobody closes the socket.
OpenTooLate ==
  /\ link = "connecting" /\ over = "no" /\ DialogueFault
  /\ link' = "late" /\ EndDialogue("REALTIME_UNAVAILABLE")
  /\ UNCHANGED <<misheard, mem, toolsAsked, idle, clock, notices, excepted>>

LateLinkOpens ==
  /\ link = "late" /\ link' = "open" /\ excepted' = excepted \cup {"late link"}
  /\ UNCHANGED <<over, sessionSide, stream, memory, toolSide, clocks, dialogueFaults>>

HangUp(reason) ==
  /\ over = "no" /\ link \in {"open", "closed"} /\ EndDialogue(reason) /\ link' = "closed"
  /\ UNCHANGED <<misheard, mem, toolsAsked, idle, clock, notices, excepted>>

CallerHangsUp == HangUp("HANGUP") /\ UNCHANGED dialogueFaults

\* A fatal error is handled after a look at the agent's name, the close of the socket at once.
SocketError(reason) == link = "open" /\ DialogueFault /\ HangUp(reason)

-----------------------------------------------------------------------------
(* The handlers *)

Status(s) == mem' = [mem EXCEPT !.status = s]

\* appendTranscript: the turn takes the next index, before its row is written.
AppendTranscript(who) ==
  /\ misheard' = (misheard \/ Head(said) # who)
  /\ said' = RemoveFirst(said, who)
  /\ UNCHANGED <<generating, waiting, talking, toBeWritten, uttered>>

\* The first event, and what its handler does until it awaits.
Deliver ==
  LET event == Head(stream) IN
  /\ CallLive /\ stream # <<>>
  /\ \/ event = "audio" /\ Status("SPEAKING") /\ stream' = Tail(stream)
        /\ UNCHANGED <<sessionSide, misheard, unsettled, running>>
     \/ event = "speech_started" /\ Status("LISTENING") /\ generating' = FALSE
        /\ stream' = Tail(stream) \o (IF generating THEN <<"done">> ELSE <<>>)
        /\ UNCHANGED <<waiting, speech, misheard, unsettled, running>>
     \/ event = "assistant" /\ AppendTranscript("AGENT") /\ stream' = Tail(stream)
        /\ UNCHANGED <<mem, unsettled, running>>
     \/ event = "customer" /\ AppendTranscript("CUSTOMER") /\ unsettled' = unsettled + 1
        /\ stream' = Tail(stream) /\ UNCHANGED <<mem, running>>
     \/ event \in DialogueTools /\ Status("TOOL_EXECUTION") /\ running' = running \cup {event}
        /\ stream' = Tail(stream) /\ UNCHANGED <<sessionSide, misheard, unsettled>>
     \/ event = "done" /\ Status("LISTENING") /\ stream' = Tail(stream)
        /\ UNCHANGED <<sessionSide, misheard, unsettled, running>>
  /\ UNCHANGED <<link, over, toolsAsked, clocks, excepted, dialogueFaults>>

\* The handler of a transcript after its row is written, or has failed.  The model is told of
\* the same words said again and again, without a response being asked for.
SettleTurn ==
  /\ CallLive /\ unsettled > 0 /\ unsettled' = unsettled - 1
  /\ Status("THINKING")
  /\ excepted' = IF ~generating /\ ~Contains(stream, "done") THEN excepted \cup {"late thought"} ELSE excepted
  /\ UNCHANGED <<link, over, sessionSide, stream, misheard, toolSide, clocks, dialogueFaults>>

ToolEnds(t) ==
  /\ t \in running /\ running' = running \ {t}
  /\ SendToolResult(t)
  /\ UNCHANGED <<link, over, stream, speech, memory, toolsAsked, clocks, dialogueFaults>>

-----------------------------------------------------------------------------
(* Frames, and the timers *)

\* Any frame counts as the caller's voice.
PushCallerAudio ==
  /\ CallLive /\ idle > 0
  /\ idle' = 0 /\ mem' = [mem EXCEPT !.stage = 0] /\ notices' = <<>>
  /\ excepted' = IF closer THEN excepted \cup {"called back"} ELSE excepted
  /\ UNCHANGED <<link, over, sessionSide, stream, misheard, unsettled, toolSide, clock, closer, dialogueFaults>>

FramesStop ==
  /\ CallLive /\ ~talking /\ idle < 2 /\ idle' = idle + 1
  /\ IF idle = 0 THEN DialogueFault ELSE UNCHANGED dialogueFaults
  /\ UNCHANGED <<link, over, sessionSide, stream, memory, toolSide, clock, closer, notices, excepted>>

\* A tick comes every two seconds, and the last notice forty-five before the end: it is missed
\* only if the settings cannot be read for that long.
TimePasses ==
  /\ CallLive /\ clock < 2 /\ clock' = clock + 1
  /\ IF clock = 1 /\ mem.wrapped THEN UNCHANGED dialogueFaults ELSE DialogueFault
  /\ excepted' = IF clock = 1 /\ ~mem.wrapped THEN excepted \cup {"missed tick"} ELSE excepted
  /\ UNCHANGED <<link, over, sessionSide, stream, memory, toolSide, idle, closer, notices>>

tickFrame == <<link, speech, stream, misheard, unsettled, toolSide, idle, clock, dialogueFaults>>

\* One tick of the policy timer.
EndOverlong == clock = 2 /\ HangUp("MAX_DURATION_REACHED") /\ UNCHANGED dialogueFaults

WrapUp ==
  /\ CallLive /\ clock = 1 /\ ~mem.wrapped
  /\ mem' = [mem EXCEPT !.wrapped = TRUE] /\ AskModel("wrapup")
  /\ UNCHANGED <<tickFrame, over, closer, notices>>

Probe ==
  /\ CallLive /\ clock < 2 /\ (clock = 0 \/ mem.wrapped) /\ mem.stage = 0 /\ idle >= 1
  /\ mem' = [mem EXCEPT !.stage = 1] /\ notices' = Append(notices, "probe") /\ AskModel("probe")
  /\ UNCHANGED <<tickFrame, over, closer>>

FinalNotice ==
  /\ CallLive /\ clock < 2 /\ (clock = 0 \/ mem.wrapped) /\ mem.stage = 1 /\ idle = 2
  /\ mem' = [mem EXCEPT !.stage = 2] /\ notices' = Append(notices, "final") /\ AskModel("final")
  /\ closer' = TRUE
  /\ UNCHANGED <<tickFrame, over>>

EndSilent == closer /\ HangUp("SILENCE_TIMEOUT") /\ UNCHANGED dialogueFaults

DialogueNext ==
  \/ OpenInTime \/ OpenTooLate \/ LateLinkOpens \/ CallerHangsUp
  \/ SocketError("REALTIME_CLOSED") \/ SocketError("REALTIME_ERROR")
  \/ CallerStarts \/ CallerStops \/ Transcribe
  \/ \E t \in DialogueTools : ReplyCallsTool(t) \/ ToolEnds(t)
  \/ \E spoken \in BOOLEAN : ReplyEnds(spoken)
  \/ Deliver \/ SettleTurn
  \/ PushCallerAudio \/ FramesStop \/ TimePasses
  \/ EndOverlong \/ WrapUp \/ Probe \/ FinalNotice \/ EndSilent

DialogueSpec == DialogueInit /\ [][DialogueNext]_dialogueVars

-----------------------------------------------------------------------------
(* While nothing is being said, everything we have put into the conversation  *)
(* has been answered, except what a running response has turned away.         *)
AskedIsAnswered == CallLive /\ ~generating => waiting \subseteq excepted

(* A call ends for silence after a probe and a last notice with no frame      *)
(* between, or although the caller has come back since; and for its length    *)
(* after a notice, unless the ticks failed.                                   *)
HangUpIsAnnounced ==
  /\ over = "SILENCE_TIMEOUT" => notices = <<"probe", "final">> \/ "called back" \in excepted
  /\ over = "MAX_DURATION_REACHED" => mem.wrapped \/ "missed tick" \in excepted

(* The transcript is what was said in the order in which it was said, unless  *)
(* a transcription took longer than what was said next.                       *)
TranscriptInOrder == misheard => "late text" \in excepted

(* When nobody speaks and nothing is under way the session says so, unless    *)
(* the last transcript's row took longer than the reply.                      *)
AtRest == CallLive /\ ~generating /\ ~talking /\ stream = <<>> /\ unsettled = 0 /\ toBeWritten = 0
StatusIsTrue == AtRest => mem.status \in {"LISTENING", "ACTIVE"} \/ "late thought" \in excepted

\* A session that is open has a call, unless it opened when nobody waited for it any more.
NoOrphan == link = "open" /\ over # "no" => "late link" \in excepted

DialogueHolds == AskedIsAnswered /\ HangUpIsAnnounced /\ TranscriptInOrder /\ StatusIsTrue /\ NoOrphan
=============================================================================
