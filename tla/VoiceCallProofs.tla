-------------------------- MODULE VoiceCallProofs --------------------------
(***************************************************************************)
(* What holds of VoiceCall for any number of calls and of concurrent ends, *)
(* for any line limit and any bounds on the events around them.            *)
(***************************************************************************)
EXTENDS VoiceCall, FiniteSetTheorems, TLAPS

-----------------------------------------------------------------------------
(* The helpers *)

\* Writing a status keeps a row a row.
LEMMA SetRowType ==
  ASSUME RowTypes, NEW c \in Calls, NEW s \in CallStatus, SetRow(c, s)
  PROVE  /\ row' \in [Calls -> CallStatus \cup {"NONE"}]
         /\ reopened' \in BOOLEAN
BY DEF RowTypes, SetRow

\* Spending an event keeps the record of what was spent.
LEMMA SpendType ==
  ASSUME spent \in [Events -> Nat], NEW x \in Events, Spend(x)
  PROVE  spent' \in [Events -> Nat]
BY DEF Spend

\* A running endCall knows its call and a final status.
LEMMA Running ==
  ASSUME EnderTypes, NEW e \in Enders, ender[e].pc # "idle"
  PROVE  /\ ender[e] \in [pc : {"ending", "look", "write", "bill"}, call : Calls, as : Terminal]
         /\ ender[e].call \in Calls /\ ender[e].as \in Terminal
BY DEF EnderTypes, Idle

\* endCall leaves the types of what it writes intact.
LEMMA EndCallType ==
  ASSUME SessionTypes, EnderTypes, NEW e \in Enders, NEW c \in Calls, NEW as \in Terminal,
         EndCall(e, c, as)
  PROVE  SessionTypes' /\ EnderTypes'
<1>1. SessionTypes'
  BY DEF SessionTypes, EndCall, Teardown, sessionVars, CallStatus
<1>2. EnderTypes'
  <2>1. \/ UNCHANGED ender
        \/ \E step \in {"ending", "look"} : EndAt(e, step, c, as)
    BY DEF EndCall
  <2>2. ASSUME NEW step \in {"ending", "look"}, EndAt(e, step, c, as)
        PROVE  EnderTypes'
    BY <2>2 DEF EnderTypes, EndAt
  <2> QED BY <2>1, <2>2 DEF EnderTypes
<1> QED BY <1>1, <1>2

\* So do the later steps of an endCall ...
LEMMA EndAtType ==
  ASSUME EnderTypes, NEW e \in Enders, ender[e].pc # "idle",
         NEW step \in {"look", "write", "bill"}, EndAt(e, step, ender[e].call, ender[e].as)
  PROVE  EnderTypes'
BY Running DEF EnderTypes, EndAt

\* ... and its end.
LEMMA ReturnType ==
  ASSUME EnderTypes, NEW e \in Enders, Return(e)
  PROVE  EnderTypes'
BY DEF EnderTypes, Return

-----------------------------------------------------------------------------
(* Type correctness *)

\* Admitting a call keeps the types.
LEMMA AdmissionTypeOK ==
  ASSUME TypeOK, NEW c \in Calls, Admission(c)
  PROVE  TypeOK'
<1> USE DEF TypeOK, Admission, Incoming, Count, Create, Refuse, Admit
<1>1. AdmitTypes'
  BY DEF AdmitTypes, admitVars
<1>2. RowTypes'
  <2>1. CASE Create(c)
    BY <2>1, SetRowType DEF RowTypes, CallStatus
  <2>2. CASE UNCHANGED rowVars
    BY <2>2 DEF RowTypes, rowVars
  <2> QED BY <2>1, <2>2
<1>3. SessionTypes' /\ HandlerTypes' /\ EnderTypes'
  BY DEF SessionTypes, HandlerTypes, EnderTypes, sessionVars, handlerVars
<1> QED BY <1>1, <1>2, <1>3

\* A step of the media gateway keeps the types.
LEMMA MediaTypeOK ==
  ASSUME TypeOK, NEW c \in Calls, Media(c)
  PROVE  TypeOK'
<1> USE DEF TypeOK, Media, Connect, StartRead, WriteConnecting, WriteStarting, OpenSession,
            Answer, WriteActive, RealtimeDrops, Tick, Talk, WriteTalk, Start
<1>1. RowTypes'
  <2>1. CASE UNCHANGED rowVars
    BY <2>1 DEF RowTypes, rowVars
  <2>2. CASE \E s \in CallStatus : SetRow(c, s) /\ UNCHANGED <<usage, old>>
    BY <2>2, SetRowType DEF RowTypes
  <2>3. Speech \subseteq CallStatus
    BY VoiceAssumption DEF CallStatus, Conversation
  <2> QED BY <2>1, <2>2, <2>3 DEF CallStatus, Conversation
<1>2. SessionTypes'
  <2>1. Speech \subseteq CallStatus
    BY VoiceAssumption DEF CallStatus, Conversation
  <2> QED BY <2>1 DEF SessionTypes, sessionVars, CallStatus, Conversation
<1>3. HandlerTypes'
  <2>1. socket' \in [Calls -> {"none", "open", "closed"}] /\ tick' \in [Calls -> BOOLEAN]
    BY DEF HandlerTypes, handlerVars
  <2>2. starter' \in [Calls -> Starting \cup {"none", "done"}]
    BY DEF HandlerTypes, handlerVars, Starting
  <2>3. pending' \in [Calls -> SUBSET Speech]
    BY DEF HandlerTypes, handlerVars
  <2> QED BY <2>1, <2>2, <2>3 DEF HandlerTypes
<1>4. AdmitTypes' /\ EnderTypes' /\ candidates' \in SUBSET Calls
  BY DEF AdmitTypes, EnderTypes, admitVars
<1>5. spent' \in [Events -> Nat]
  BY SpendType DEF Events
<1> QED BY <1>1, <1>2, <1>3, <1>4, <1>5

\* Whoever starts to end a call keeps the types.
LEMMA EndsTypeOK ==
  ASSUME TypeOK, NEW e \in Enders, NEW c \in Calls, Ends(e, c)
  PROVE  TypeOK'
<1> USE DEF TypeOK, Ends, StreamStops, SocketCloses, ProviderReports, RealtimeFails,
            RealtimeClosed, StartFails, Expires
<1>1. PICK as \in Terminal : EndCall(e, c, as)
  BY DEF Terminal
<1>2. SessionTypes' /\ EnderTypes'
  BY <1>1, EndCallType
<1>3. HandlerTypes'
  BY DEF HandlerTypes, handlerVars, Starting, Start
<1>4. RowTypes' /\ AdmitTypes' /\ candidates' \in SUBSET Calls
  BY DEF RowTypes, AdmitTypes, rowVars, admitVars
<1>5. spent' \in [Events -> Nat]
  BY SpendType DEF Events
<1> QED BY <1>2, <1>3, <1>4, <1>5

\* A step of an ending keeps the types.
LEMMA EndingTypeOK ==
  ASSUME TypeOK, NEW e \in Enders, Ending(e)
  PROVE  TypeOK'
<1> USE DEF TypeOK, Ending, EndWrite, Look, Finish, Bill, EndFails
<1>1. ender[e].call \in Calls /\ ender[e].as \in Terminal
  BY Running
<1>2. EnderTypes'
  BY EndAtType, ReturnType
<1>3. RowTypes'
  <2>1. CASE EndWrite(e)
    BY <1>1, <2>1, SetRowType DEF RowTypes, CallStatus
  <2>2. CASE Finish(e)
    BY <1>1, <2>2, SetRowType DEF RowTypes, CallStatus
  <2>3. CASE Bill(e)
    BY <1>1, <2>3 DEF RowTypes
  <2>4. CASE UNCHANGED rowVars
    BY <2>4 DEF RowTypes, rowVars
  <2> QED BY <2>1, <2>2, <2>3, <2>4
<1>4. SessionTypes'
  BY <1>1 DEF SessionTypes, sessionVars, Teardown
<1>5. AdmitTypes' /\ HandlerTypes' /\ candidates' \in SUBSET Calls
  BY DEF AdmitTypes, HandlerTypes, admitVars, handlerVars
<1>6. spent' \in [Events -> Nat]
  BY SpendType DEF Events
<1> QED BY <1>2, <1>3, <1>4, <1>5, <1>6

\* The sweeper and the clock.
Sweep == SweepRead \/ \E c \in Calls : Age(c) \/ SweepRow(c)

\* A step of the sweeper keeps the types.
LEMMA SweepTypeOK ==
  ASSUME TypeOK, Sweep
  PROVE  TypeOK'
<1> USE DEF TypeOK, Sweep, SweepRead, Age, SweepRow
<1>1. RowTypes'
  <2>1. ASSUME NEW c \in Calls, SweepRow(c), SetRow(c, "DISCONNECTED")
        PROVE  RowTypes'
    BY <2>1, SetRowType DEF RowTypes, CallStatus, Terminal
  <2> QED BY <2>1 DEF RowTypes, rowVars
<1>2. AdmitTypes' /\ SessionTypes' /\ HandlerTypes' /\ EnderTypes'
  BY DEF AdmitTypes, SessionTypes, HandlerTypes, EnderTypes, admitVars, sessionVars, handlerVars
<1>3. candidates' \in SUBSET Calls
  BY DEF Stale
<1> QED BY <1>1, <1>2, <1>3

\* A crash of the server keeps the types.
LEMMA CrashTypeOK ==
  ASSUME TypeOK, Crash
  PROVE  TypeOK'
<1> USE DEF TypeOK, Crash
<1>1. RowTypes' /\ AdmitTypes'
  BY DEF RowTypes, AdmitTypes, rowVars
<1>2. SessionTypes' /\ HandlerTypes'
  BY DEF SessionTypes, HandlerTypes, CallStatus
<1>3. EnderTypes'
  BY DEF EnderTypes
<1>4. spent' \in [Events -> Nat]
  BY SpendType DEF Events
<1> QED BY <1>1, <1>2, <1>3, <1>4

\* Next by groups of actions.
LEMMA NextCases ==
  ASSUME Next
  PROVE  \/ \E c \in Calls : Admission(c)
         \/ \E c \in Calls : Media(c)
         \/ \E e \in Enders, c \in Calls : Ends(e, c)
         \/ \E e \in Enders : Ending(e)
         \/ Sweep
         \/ Crash
BY DEF Next, Sweep

\* Type correctness of every reachable state, for every set of calls and every limit.
THEOREM TypeCorrect == Spec => []TypeOK
<1>1. Init => TypeOK
  <2> SUFFICES ASSUME Init PROVE TypeOK
    OBVIOUS
  <2>1. RowTypes /\ AdmitTypes
    BY DEF Init, RowTypes, AdmitTypes
  <2>2. SessionTypes /\ HandlerTypes
    BY DEF Init, SessionTypes, HandlerTypes, CallStatus
  <2>3. EnderTypes
    BY DEF Init, EnderTypes
  <2>4. candidates \in SUBSET Calls /\ spent \in [Events -> Nat]
    BY DEF Init
  <2> QED BY <2>1, <2>2, <2>3, <2>4 DEF TypeOK
<1>2. TypeOK /\ [Next]_vars => TypeOK'
  <2> SUFFICES ASSUME TypeOK, [Next]_vars PROVE TypeOK'
    OBVIOUS
  <2>1. CASE UNCHANGED vars
    BY <2>1 DEF vars, rowVars, admitVars, sessionVars, handlerVars, TypeOK, RowTypes,
                AdmitTypes, SessionTypes, HandlerTypes, EnderTypes
  <2>2. CASE Next
    BY <2>2, NextCases, AdmissionTypeOK, MediaTypeOK, EndsTypeOK, EndingTypeOK, SweepTypeOK,
       CrashTypeOK
  <2> QED BY <2>1, <2>2
<1> QED BY <1>1, <1>2, PTL DEF Spec

-----------------------------------------------------------------------------
(* A call exists before anything happens to it *)

\* endCall adds no work but for its own call, and only ends what is registered.
LEMMA EndCallEffect ==
  ASSUME TypeOK, NEW e \in Enders, NEW c \in Calls, NEW as \in Terminal, EndCall(e, c, as)
  PROVE  /\ \A d \in Calls : mapped'[d] => mapped[d]
         /\ \A d \in Calls : ending'[d] => ending[d] \/ mapped[d]
         /\ \A d \in Calls : realtime[d] = "none" => realtime'[d] = "none"
         /\ \A f \in Enders : ender'[f].call \in {ender[f].call, c}
<1> USE DEF TypeOK
<1>1. /\ \A d \in Calls : mapped'[d] => mapped[d]
      /\ \A d \in Calls : ending'[d] => ending[d] \/ mapped[d]
      /\ \A d \in Calls : realtime[d] = "none" => realtime'[d] = "none"
  BY DEF EndCall, Teardown, sessionVars, SessionTypes
<1>2. \A f \in Enders : ender'[f].call \in {ender[f].call, c}
  <2>1. \/ UNCHANGED ender
        \/ \E step \in {"ending", "look"} : EndAt(e, step, c, as)
    BY DEF EndCall
  <2>2. ASSUME NEW step, EndAt(e, step, c, as), NEW f \in Enders
        PROVE  ender'[f].call \in {ender[f].call, c}
    <3>1. CASE f = e
      BY <2>2, <3>1 DEF EndAt, EnderTypes
    <3>2. CASE f # e
      BY <2>2, <3>2 DEF EndAt, EnderTypes
    <3> QED BY <3>1, <3>2
  <2> QED BY <2>1, <2>2
<1> QED BY <1>1, <1>2

\* Every way a call ends is an endCall for a call that has a row.
LEMMA EndsEffect ==
  ASSUME TypeOK, RowFirst, Untouched, NEW e \in Enders, NEW c \in Calls, Ends(e, c)
  PROVE  /\ row[c] # "NONE" /\ UNCHANGED <<rowVars, admitVars, pending, candidates>>
         /\ \E as \in Terminal : EndCall(e, c, as)
         /\ \/ UNCHANGED starter
            \/ starter[c] \in Starting \ {"read"}
               /\ starter' = [starter EXCEPT ![c] = "done"]
         /\ \/ UNCHANGED spent
            \/ \E x \in Events : Spend(x)
<1> USE DEF Ends, StreamStops, SocketCloses, ProviderReports, RealtimeFails, RealtimeClosed,
            StartFails, Expires
<1>1. row[c] # "NONE"
  BY DEF RowFirst, Start, TypeOK
<1>2. UNCHANGED <<rowVars, admitVars, pending, candidates>>
  BY DEF handlerVars
<1>3. \E as \in Terminal : EndCall(e, c, as)
  BY DEF Terminal
<1>4. \/ UNCHANGED starter
      \/ starter[c] \in Starting \ {"read"} /\ starter' = [starter EXCEPT ![c] = "done"]
  BY DEF handlerVars, Start, Starting
<1>5. UNCHANGED spent \/ \E x \in Events : Spend(x)
  BY DEF Events
<1> QED BY <1>1, <1>2, <1>3, <1>4, <1>5

\* RowFirst and Untouched are kept by every group of actions.
LEMMA AdmissionFirst ==
  ASSUME TypeOK, RowFirst, Untouched, NEW c \in Calls, Admission(c)
  PROVE  RowFirst' /\ Untouched'
<1> USE DEF Admission, Incoming, Count, Create, Refuse, Admit
<1>1. Untouched'
  BY DEF Untouched, sessionVars, handlerVars
<1>2. \A d \in Calls : row'[d] = "NONE" => row[d] = "NONE"
  BY DEF SetRow, rowVars, TypeOK, RowTypes
<1>3. \A d \in Calls : row'[d] # "NONE" => admission'[d] = "done"
  BY DEF SetRow, rowVars, TypeOK, RowTypes, AdmitTypes, RowFirst
<1> QED BY <1>1, <1>2, <1>3 DEF RowFirst, sessionVars, handlerVars

\* The media gateway touches no call that has no row.
LEMMA MediaFirst ==
  ASSUME TypeOK, RowFirst, Untouched, NEW c \in Calls, Media(c)
  PROVE  RowFirst' /\ Untouched'
<1> USE DEF Media, Connect, StartRead, WriteConnecting, WriteStarting, OpenSession, Answer,
            WriteActive, RealtimeDrops, Tick, Talk, WriteTalk, Start
<1>1. Untouched'
  BY DEF Untouched, TypeOK, HandlerTypes, SessionTypes, sessionVars, handlerVars
<1>2. row[c] # "NONE"
  BY DEF RowFirst
<1>3. \A d \in Calls : (row'[d] = "NONE") <=> (row[d] = "NONE")
  <2>1. UNCHANGED row \/ \E s \in CallStatus : SetRow(c, s)
    BY VoiceAssumption DEF rowVars, CallStatus, Conversation
  <2>2. "NONE" \notin CallStatus
    BY DEF CallStatus, Conversation, Terminal
  <2> QED BY <1>2, <2>1, <2>2 DEF SetRow, TypeOK, RowTypes
<1>4. ASSUME NEW d \in Calls, row[d] = "NONE"
      PROVE  /\ socket'[d] = "none" /\ starter'[d] = "none"
             /\ ~mapped'[d] /\ realtime'[d] = "none" /\ pending'[d] = {} /\ ~tick'[d]
  <2>1. d # c
    BY <1>2, <1>4
  <2>2. /\ socket[d] = "none" /\ starter[d] = "none"
        /\ ~mapped[d] /\ realtime[d] = "none" /\ pending[d] = {} /\ ~tick[d]
    BY <1>4 DEF RowFirst
  <2> QED BY <2>1, <2>2 DEF TypeOK, HandlerTypes, SessionTypes, sessionVars, handlerVars
<1>5. UNCHANGED <<admission, ender>>
  BY DEF admitVars
<1> QED BY <1>1, <1>3, <1>4, <1>5 DEF RowFirst

\* Nobody ends a call that has no row.
LEMMA EndsFirst ==
  ASSUME TypeOK, RowFirst, Untouched, NEW e \in Enders, NEW c \in Calls, Ends(e, c)
  PROVE  RowFirst' /\ Untouched'
<1>1. PICK as \in Terminal : EndCall(e, c, as)
  BY EndsEffect
<1>2. /\ \A d \in Calls : mapped'[d] => mapped[d]
      /\ \A d \in Calls : ending'[d] => ending[d] \/ mapped[d]
      /\ \A d \in Calls : realtime[d] = "none" => realtime'[d] = "none"
      /\ \A f \in Enders : ender'[f].call \in {ender[f].call, c}
  BY <1>1, EndCallEffect
<1>3. row[c] # "NONE" /\ UNCHANGED <<row, admission, pending>>
  BY EndsEffect DEF rowVars, admitVars
<1>4. \A d \in Calls :
        /\ starter'[d] \in {"none", "read"} => starter'[d] = starter[d]
        /\ row[d] = "NONE" => starter'[d] = "none"
  <2>1. \/ UNCHANGED starter
        \/ starter' = [starter EXCEPT ![c] = "done"]
    BY EndsEffect
  <2> QED BY <2>1, <1>3 DEF RowFirst, TypeOK, HandlerTypes
<1>5. \A d \in Calls : row[d] = "NONE" => socket'[d] = "none" /\ ~tick'[d]
  BY <1>3 DEF RowFirst, Ends, StreamStops, SocketCloses, ProviderReports, RealtimeFails,
              RealtimeClosed, StartFails, Expires, handlerVars, TypeOK, HandlerTypes
<1> QED BY <1>2, <1>3, <1>4, <1>5 DEF RowFirst, Untouched

\* An ending is of a call that has a row.
LEMMA EndingFirst ==
  ASSUME TypeOK, RowFirst, Untouched, NEW e \in Enders, Ending(e)
  PROVE  RowFirst' /\ Untouched'
<1> USE DEF Ending, EndWrite, Look, Finish, Bill, EndFails
<1>1. ender[e].call \in Calls /\ ender[e].as \in Terminal /\ ender[e].pc # "idle"
  BY Running DEF TypeOK
<1>2. \A d \in Calls : (row'[d] = "NONE") <=> (row[d] = "NONE")
  <2>1. UNCHANGED row \/ \E s \in CallStatus : SetRow(ender[e].call, s)
    BY <1>1 DEF rowVars, CallStatus
  <2>2. "NONE" \notin CallStatus
    BY DEF CallStatus, Conversation, Terminal
  <2> QED BY <1>1, <2>1, <2>2 DEF SetRow, TypeOK, RowTypes, RowFirst
<1>3. \A f \in Enders, d \in Calls : ender'[f].call = d => ender[f].call = d
  <2>1. \/ Return(e)
        \/ \E step \in {"look", "write", "bill"} :
             EndAt(e, step, ender[e].call, ender[e].as)
    OBVIOUS
  <2>2. ASSUME NEW f \in Enders, NEW d \in Calls, ender'[f].call = d
        PROVE  ender[f].call = d
    <3>1. CASE f # e
      BY <2>1, <2>2, <3>1 DEF Return, EndAt, TypeOK, EnderTypes
    <3>2. CASE f = e /\ Return(e)
      BY <2>2, <3>2, VoiceAssumption DEF Return, Idle, TypeOK, EnderTypes
    <3>3. CASE f = e /\ ~Return(e)
      BY <2>1, <2>2, <3>3 DEF EndAt, TypeOK, EnderTypes
    <3> QED BY <3>1, <3>2, <3>3
  <2> QED BY <2>2
<1>4. \A d \in Calls :
        /\ mapped'[d] => mapped[d]
        /\ realtime[d] = "none" => realtime'[d] = "none"
        /\ ending'[d] = ending[d]
  BY <1>1 DEF Teardown, sessionVars, TypeOK, SessionTypes
<1>5. UNCHANGED <<admission, socket, starter, pending, tick>>
  BY DEF admitVars, handlerVars
<1> QED BY <1>2, <1>3, <1>4, <1>5 DEF RowFirst, Untouched

\* The sweeper looks at rows only.
LEMMA SweepFirst ==
  ASSUME TypeOK, RowFirst, Untouched, Sweep
  PROVE  RowFirst' /\ Untouched'
<1> USE DEF Sweep, SweepRead, Age, SweepRow
<1>1. \A d \in Calls : (row'[d] = "NONE") <=> (row[d] = "NONE")
  BY DEF rowVars, SetRow, LiveStatuses, TypeOK, RowTypes
<1>2. UNCHANGED <<admission, sessionVars, handlerVars, ender>>
  BY DEF admitVars
<1> QED BY <1>1, <1>2 DEF RowFirst, Untouched, sessionVars, handlerVars

\* A crash forgets sessions and keeps the rows.
LEMMA CrashFirst ==
  ASSUME TypeOK, RowFirst, Untouched, Crash
  PROVE  RowFirst' /\ Untouched'
<1>1. Untouched'
  BY DEF Crash, Untouched
<1>2. \A e \in Enders, c \in Calls : ender'[e].call # c
  BY VoiceAssumption DEF Crash, Idle
<1>3. \A c \in Calls :
        /\ row[c] # "NONE" => admission'[c] = "done"
        /\ row[c] = "NONE" => socket'[c] = "none"
  BY DEF Crash, RowFirst
<1> QED BY <1>1, <1>2, <1>3 DEF Crash, RowFirst, rowVars

\* So they hold of every reachable state.
LEMMA FirstInvariant == Spec => [](TypeOK /\ RowFirst /\ Untouched)
<1> DEFINE Inv == RowFirst /\ Untouched
<1>1. Init => Inv
  BY VoiceAssumption DEF Init, RowFirst, Untouched, Idle
<1>2. TypeOK /\ Inv /\ [Next]_vars => Inv'
  <2> SUFFICES ASSUME TypeOK, Inv, [Next]_vars PROVE Inv'
    OBVIOUS
  <2>1. CASE UNCHANGED vars
    BY <2>1 DEF vars, rowVars, admitVars, sessionVars, handlerVars, RowFirst, Untouched
  <2>2. CASE Next
    BY <2>2, NextCases, AdmissionFirst, MediaFirst, EndsFirst, EndingFirst, SweepFirst, CrashFirst
  <2> QED BY <2>1, <2>2
<1> QED BY <1>1, <1>2, TypeCorrect, PTL DEF Spec

-----------------------------------------------------------------------------
(* The session that is being ended is attended *)

\* What EndingAttended looks at is left alone.
LEMMA AttendedStutter ==
  ASSUME EndingAttended, UNCHANGED <<mapped, ending, ender>>
  PROVE  EndingAttended'
BY DEF EndingAttended, Attending

\* startMediaSession registers a session that nobody has begun to end.
LEMMA MediaAttended ==
  ASSUME TypeOK, Untouched, EndingAttended, NEW c \in Calls, Media(c)
  PROVE  EndingAttended'
<1> USE DEF Media, Connect, StartRead, WriteConnecting, WriteStarting, OpenSession, Answer,
            WriteActive, RealtimeDrops, Tick, Talk, WriteTalk, Start
<1>1. UNCHANGED <<ending, ender>>
  BY DEF sessionVars
<1>2. \A d \in Calls : ending[d] => mapped'[d] = mapped[d]
  BY DEF sessionVars, Untouched, TypeOK, SessionTypes
<1>3. \A d \in Calls : Attending(d)' = Attending(d)
  BY <1>1 DEF Attending
<1> QED BY <1>1, <1>2, <1>3 DEF EndingAttended

\* endCall either marks the session and stays with it, or takes it down at once.
LEMMA EndCallAttended ==
  ASSUME TypeOK, EndingAttended, NEW e \in Enders, NEW c \in Calls, NEW as \in Terminal,
         EndCall(e, c, as)
  PROVE  EndingAttended'
<1> USE DEF TypeOK, SessionTypes, EnderTypes, sessionVars
<1>1. /\ mapped' = [mapped EXCEPT ![c] = mapped'[c]]
      /\ ending' = [ending EXCEPT ![c] = ending'[c]]
  BY DEF EndCall, Teardown
<1>2. CASE UNCHANGED <<ender, sessionVars>>
  BY <1>2, AttendedStutter DEF sessionVars
<1>3. CASE /\ ender[e] = Idle /\ EndAt(e, "look", c, as)
           /\ ~mapped'[c] \/ UNCHANGED sessionVars
  <2>1. \A d \in Calls : Attending(d)' = Attending(d)
    <3>1. \A f \in Enders : f # e => ender'[f] = ender[f]
      BY <1>3 DEF EndAt
    <3>2. ender'[e].pc = "look" /\ ender[e].pc # "ending"
      BY <1>3 DEF EndAt, Idle
    <3> QED BY <3>1, <3>2 DEF Attending
  <2>2. CASE UNCHANGED sessionVars
    BY <2>1, <2>2 DEF EndingAttended, sessionVars
  <2>3. CASE ~UNCHANGED sessionVars
    <3>1. mapped[c] /\ ~ending[c] /\ ~mapped'[c]
      BY <1>3, <2>3 DEF EndCall
    <3> QED BY <1>1, <2>1, <3>1 DEF EndingAttended
  <2> QED BY <2>2, <2>3
<1>4. CASE /\ ender[e] = Idle /\ EndAt(e, "ending", c, as)
           /\ mapped[c] /\ ~ending[c] /\ UNCHANGED mapped
           /\ ending' = [ending EXCEPT ![c] = TRUE]
  <2>1. \A f \in Enders : f # e => ender'[f] = ender[f]
    BY <1>4 DEF EndAt
  <2>2. ender'[e].pc = "ending" /\ ender'[e].call = c /\ ender[e].pc # "ending"
    BY <1>4 DEF EndAt, Idle
  <2>3. \A d \in Calls \ {c} : Attending(d)' = Attending(d)
    BY <2>1, <2>2 DEF Attending
  <2>4. Attending(c)' = Attending(c) \cup {e}
    BY <2>1, <2>2 DEF Attending
  <2>5. Attending(c) = {}
    BY <1>4 DEF EndingAttended
  <2>6. ASSUME NEW d \in Calls
        PROVE  /\ mapped'[d] /\ ending'[d] <=> Attending(d)' # {}
               /\ \A f, g \in Attending(d)' : f = g
    <3>1. CASE d = c
      BY <1>4, <2>4, <2>5, <3>1
    <3>2. CASE d # c
      BY <1>4, <2>3, <3>2 DEF EndingAttended
    <3> QED BY <3>1, <3>2
  <2> QED BY <2>6 DEF EndingAttended
<1>5. ASSUME ~UNCHANGED <<ender, sessionVars>>
      PROVE  /\ ender[e] = Idle
             /\ \/ EndAt(e, "look", c, as) /\ UNCHANGED sessionVars
                \/ /\ EndAt(e, "look", c, as) /\ ~mapped'[c]
                   /\ mapped[c] /\ ~ending[c]
                \/ /\ EndAt(e, "ending", c, as) /\ UNCHANGED mapped
                   /\ mapped[c] /\ ~ending[c]
                   /\ ending' = [ending EXCEPT ![c] = TRUE]
  <2>1. CASE mapped[c] /\ ~ending[c]
    <3>1. CASE CanTransition(mem[c], "ENDING")
      BY <1>5, <2>1, <3>1 DEF EndCall
    <3>2. CASE ~CanTransition(mem[c], "ENDING")
      <4>1. ender[e] = Idle /\ Teardown(c) /\ EndAt(e, "look", c, as)
        BY <2>1, <3>2, Zenon DEF EndCall
      <4>2. ~mapped'[c]
        BY <4>1 DEF Teardown
      <4> QED BY <2>1, <4>1, <4>2
    <3> QED BY <3>1, <3>2
  <2>2. CASE ~(mapped[c] /\ ~ending[c])
    BY <1>5, <2>2 DEF EndCall
  <2> QED BY <2>1, <2>2
<1> QED BY <1>2, <1>3, <1>4, <1>5

\* The session is forgotten by the endCall that attends it.
LEMMA EndingStepAttended ==
  ASSUME TypeOK, EndingAttended, NEW e \in Enders, Ending(e)
  PROVE  EndingAttended'
<1> USE DEF Ending, EndWrite, Look, Finish, Bill, EndFails
<1>1. ender[e].call \in Calls
  BY Running DEF TypeOK
<1>2. /\ \A f \in Enders : f # e => ender'[f] = ender[f]
      /\ ender'[e].pc # "ending"
  BY DEF Return, EndAt, Idle, TypeOK, EnderTypes
<1>3. CASE EndWrite(e)
  <2> PICK c \in Calls : c = ender[e].call
    BY <1>1
  <2>1. ~mapped'[c] /\ UNCHANGED ending /\ \A d \in Calls : d # c => mapped'[d] = mapped[d]
    BY <1>3 DEF Teardown, TypeOK, SessionTypes
  <2>2. Attending(c)' = {}
    <3>1. e \in Attending(c)
      BY <1>3 DEF Attending
    <3>2. \A f \in Attending(c) : f = e
      BY <3>1 DEF EndingAttended
    <3> QED BY <1>2, <3>2 DEF Attending
  <2>3. \A d \in Calls : d # c => Attending(d)' = Attending(d)
    BY <1>2 DEF Attending
  <2> QED BY <2>1, <2>2, <2>3 DEF EndingAttended
<1>4. CASE ender[e].pc # "ending" /\ UNCHANGED sessionVars
  <2>1. \A d \in Calls : Attending(d)' = Attending(d)
    BY <1>2, <1>4 DEF Attending
  <2> QED BY <1>4, <2>1 DEF EndingAttended, sessionVars
<1> QED BY <1>3, <1>4

\* endCall's early return is safe, whoever ends the call and however often.
THEOREM EndingIsAttended == Spec => []EndingAttended
<1>1. Init => EndingAttended
  BY DEF Init, EndingAttended, Attending, Idle
<1>2. TypeOK /\ RowFirst /\ Untouched /\ EndingAttended /\ [Next]_vars => EndingAttended'
  <2> SUFFICES ASSUME TypeOK, RowFirst, Untouched, EndingAttended, [Next]_vars
               PROVE  EndingAttended'
    OBVIOUS
  <2>1. CASE UNCHANGED vars
    BY <2>1, AttendedStutter DEF vars, sessionVars
  <2>2. CASE \E c \in Calls : Admission(c)
    BY <2>2, AttendedStutter DEF Admission, Incoming, Count, Create, Refuse, sessionVars
  <2>3. CASE \E c \in Calls : Media(c)
    BY <2>3, MediaAttended
  <2>4. CASE \E e \in Enders, c \in Calls : Ends(e, c)
    BY <2>4, EndsEffect, EndCallAttended
  <2>5. CASE \E e \in Enders : Ending(e)
    BY <2>5, EndingStepAttended
  <2>6. CASE Sweep
    BY <2>6, AttendedStutter DEF Sweep, SweepRead, Age, SweepRow, sessionVars
  <2>7. CASE Crash
    BY <2>7 DEF Crash, EndingAttended, Attending, Idle
  <2> QED BY <2>1, <2>2, <2>3, <2>4, <2>5, <2>6, <2>7, NextCases
<1> QED BY <1>1, <1>2, FirstInvariant, PTL DEF Spec

-----------------------------------------------------------------------------
(* A settled call stays as it is *)

\* What Settled looks at is left alone.
LEMMA SettledStutter ==
  ASSUME NEW c \in Calls, Settled(c),
         UNCHANGED <<row, starter, mapped, realtime, pending, ender>>
  PROVE  Settled(c)' /\ row'[c] = row[c]
BY DEF Settled

\* A call that is over has long been created, and is not created again.
LEMMA AdmissionSettled ==
  ASSUME TypeOK, RowFirst, NEW c \in Calls, Settled(c), NEW d \in Calls, Admission(d)
  PROVE  Settled(c)' /\ row'[c] = row[c]
<1> USE DEF Admission, Incoming, Count, Create, Refuse, Admit
<1>1. row'[c] = row[c]
  BY DEF RowFirst, Settled, Terminal, SetRow, rowVars, TypeOK, RowTypes
<1>2. UNCHANGED <<starter, mapped, realtime, pending, ender>>
  BY DEF sessionVars, handlerVars
<1> QED BY <1>1, <1>2 DEF Settled

\* startMediaSession turns an ended call away, and no event of its session is left.
LEMMA MediaSettled ==
  ASSUME TypeOK, RowFirst, NEW c \in Calls, Settled(c), NEW d \in Calls, Media(d)
  PROVE  Settled(c)' /\ row'[c] = row[c]
<1> USE DEF Media, Connect, StartRead, WriteConnecting, WriteStarting, OpenSession, Answer,
            WriteActive, RealtimeDrops, Tick, Talk, WriteTalk, Start, TypeOK, HandlerTypes,
            SessionTypes, RowTypes
<1>1. row'[c] = row[c]
  BY DEF Settled, SetRow, rowVars
<1>2. ~mapped'[c] /\ realtime'[c] # "open"
  BY DEF Settled, sessionVars
<1>3. starter'[c] \in {"none", "read", "done"} /\ pending'[c] = {}
  BY DEF Settled, handlerVars
<1>4. UNCHANGED ender
  OBVIOUS
<1> QED BY <1>1, <1>2, <1>3, <1>4 DEF Settled

\* One more endCall finds no session and goes to look at the row.
LEMMA EndsSettled ==
  ASSUME TypeOK, RowFirst, Untouched, NEW c \in Calls, Settled(c),
         NEW e \in Enders, NEW d \in Calls, Ends(e, d)
  PROVE  Settled(c)' /\ row'[c] = row[c]
<1>1. PICK as \in Terminal : EndCall(e, d, as)
  BY EndsEffect
<1>2. UNCHANGED <<row, pending>>
  BY EndsEffect DEF rowVars
<1>3. starter'[c] \in {"none", "read", "done"}
  <2>1. UNCHANGED starter \/ starter' = [starter EXCEPT ![d] = "done"]
    BY EndsEffect
  <2> QED BY <2>1 DEF Settled, TypeOK, HandlerTypes
<1>4. ~mapped'[c] /\ realtime'[c] # "open"
  BY <1>1 DEF EndCall, Teardown, Settled, sessionVars, TypeOK, SessionTypes
<1>5. ASSUME NEW f \in Enders, ender'[f].call = c
      PROVE  ender'[f].pc \in {"look", "bill"}
  <2>1. CASE ender'[f] = ender[f]
    BY <1>5, <2>1 DEF Settled
  <2>2. CASE ender'[f] # ender[f]
    <3>1. PICK step \in {"ending", "look"} :
            EndAt(e, step, d, as) /\ (step = "ending" => mapped[d])
      BY <1>1, <2>2 DEF EndCall
    <3>2. f = e
      BY <2>2, <3>1 DEF EndAt, TypeOK, EnderTypes
    <3>3. ender'[e] = [pc |-> step, call |-> d, as |-> as]
      BY <3>1 DEF EndAt, TypeOK, EnderTypes
    <3> QED BY <1>5, <3>1, <3>2, <3>3 DEF Settled
  <2> QED BY <2>1, <2>2
<1> QED BY <1>2, <1>3, <1>4, <1>5 DEF Settled

\* The endCall that looks goes away; the one that has closed the call records its usage.
LEMMA EndingSettled ==
  ASSUME TypeOK, NEW c \in Calls, Settled(c), NEW e \in Enders, Ending(e)
  PROVE  Settled(c)' /\ row'[c] = row[c]
<1> USE DEF Ending, EndWrite, Look, Finish, Bill, EndFails
<1>1. ender[e].call \in Calls /\ ender[e].pc # "idle"
  BY Running DEF TypeOK
<1>2. row'[c] = row[c]
  BY <1>1 DEF Settled, SetRow, rowVars, TypeOK, RowTypes
<1>3. ~mapped'[c] /\ realtime'[c] # "open"
  BY <1>1 DEF Settled, Teardown, sessionVars, TypeOK, SessionTypes
<1>4. UNCHANGED <<starter, pending>>
  BY DEF handlerVars
<1>5. ASSUME NEW f \in Enders, ender'[f].call = c
      PROVE  ender'[f].pc \in {"look", "bill"}
  <2>1. CASE f # e
    BY <1>5, <2>1 DEF Settled, Return, EndAt, TypeOK, EnderTypes
  <2>2. CASE f = e /\ Return(e)
    BY <1>5, <2>2, VoiceAssumption DEF Return, Idle, TypeOK, EnderTypes
  <2>3. CASE f = e /\ ~Return(e)
    <3>1. ender[e].call = c
      BY <1>5, <2>3 DEF EndAt, TypeOK, EnderTypes
    <3>2. ender[e].pc \in {"look", "bill"}
      BY <3>1 DEF Settled
    <3> QED BY <2>3, <3>1, <3>2 DEF Settled
  <2> QED BY <2>1, <2>2, <2>3
<1> QED BY <1>2, <1>3, <1>4, <1>5 DEF Settled

\* The sweeper only closes what is still in a live status.
LEMMA SweepSettled ==
  ASSUME TypeOK, NEW c \in Calls, Settled(c), Sweep
  PROVE  Settled(c)' /\ row'[c] = row[c]
<1>1. row'[c] = row[c]
  BY DEF Sweep, SweepRead, Age, SweepRow, Settled, Terminal, LiveStatuses, SetRow, rowVars,
         TypeOK, RowTypes
<1>2. UNCHANGED <<starter, mapped, realtime, pending, ender>>
  BY DEF Sweep, SweepRead, Age, SweepRow, sessionVars, handlerVars
<1> QED BY <1>1, <1>2 DEF Settled

\* Nothing reopens or relabels a call that has settled, in any number of steps.
THEOREM EndStaysFinal == Spec => EndIsFinal
<1>1. TypeOK /\ RowFirst /\ Untouched /\ [Next]_vars =>
        [\A c \in Calls : Settled(c) => Settled(c)' /\ row'[c] = row[c]]_vars
  <2> SUFFICES ASSUME TypeOK, RowFirst, Untouched, [Next]_vars, NEW c \in Calls, Settled(c)
               PROVE  Settled(c)' /\ row'[c] = row[c]
    OBVIOUS
  <2>1. CASE UNCHANGED vars
    BY <2>1, SettledStutter DEF vars, rowVars, sessionVars, handlerVars
  <2>2. CASE Crash
    BY <2>2, VoiceAssumption DEF Crash, Settled, rowVars, Idle
  <2> QED BY <2>1, <2>2, NextCases, AdmissionSettled, MediaSettled, EndsSettled, EndingSettled,
             SweepSettled
<1> QED BY <1>1, FirstInvariant, PTL DEF Spec, EndIsFinal

-----------------------------------------------------------------------------
(* The line limit *)

\* There are finitely many open calls, and fewer when there are fewer of them.
LEMMA OpenFinite ==
  /\ IsFiniteSet(Open) /\ Cardinality(Open) \in Nat /\ Cardinality(Open') \in Nat
  /\ Open' \subseteq Open => Cardinality(Open') <= Cardinality(Open)
BY VoiceAssumption, FS_Subset, FS_CardinalityType DEF Open

\* A row that exists and leaves no terminal status opens no line.
LEMMA NoNewLine ==
  ASSUME TypeOK, NEW c \in Calls, row[c] # "NONE", NEW s \in CallStatus, SetRow(c, s), ~reopened'
  PROVE  ~reopened /\ Open' \subseteq Open
BY DEF TypeOK, RowTypes, SetRow, Open

\* What opens no line and admits nobody keeps the limit.
LEMMA LineKept ==
  ASSUME LineFree, LimitKept, UNCHANGED admitVars,
         ~reopened' => ~reopened /\ Open' \subseteq Open
  PROVE  LineFree' /\ LimitKept'
<1>1. \A c, o \in Calls :
        ~overlap' /\ admission'[c] = "create" /\ admission'[o] = "create" => c = o
  BY DEF LineFree, admitVars
<1>2. ASSUME ~overlap', ~reopened'
      PROVE  /\ Cardinality(Open') <= Limit
             /\ \A c \in Calls : admission'[c] = "create" => Cardinality(Open') < Limit
  <2>1. /\ Cardinality(Open) <= Limit
        /\ \A c \in Calls : admission[c] = "create" => Cardinality(Open) < Limit
    BY <1>2 DEF LineFree, LimitKept, admitVars
  <2>2. Cardinality(Open') \in Nat /\ Cardinality(Open) \in Nat
        /\ Cardinality(Open') <= Cardinality(Open)
    <3>1. Open' \subseteq Open
      BY <1>2
    <3> QED BY <3>1, OpenFinite
  <2>3. UNCHANGED admission
    BY DEF admitVars
  <2> QED BY <2>1, <2>2, <2>3, VoiceAssumption
<1> QED BY <1>1, <1>2 DEF LineFree, LimitKept

\* The count leaves room for the call, and the create uses it.
LEMMA AdmissionLine ==
  ASSUME TypeOK, RowFirst, LineFree, LimitKept, NEW c \in Calls, Admission(c)
  PROVE  LineFree' /\ LimitKept'
<1> USE VoiceAssumption DEF Admission, Admit
<1> DEFINE Alone == \A d, o \in Calls : admission[d] = "create" /\ admission[o] = "create" => d = o
           Room == \A d \in Calls : admission[d] = "create" => Cardinality(Open) < Limit
<1>1. (~overlap => Alone) /\ (~overlap /\ ~reopened => Room)
  BY DEF LineFree
<1>2. CASE Count(c)
  <2>1. Open' = Open /\ UNCHANGED reopened /\ (overlap => overlap')
    BY <1>2 DEF Count, Open, rowVars
  <2>2. \A d \in Calls : d # c => admission'[d] = admission[d]
    BY <1>2 DEF Count, TypeOK, AdmitTypes
  <2>3. admission'[c] = "create" => Cardinality(Open) < Limit
    BY <1>2 DEF Count, TypeOK, AdmitTypes
  <2>4. ~overlap' => \A o \in Calls \ {c} : admission[o] # "create"
    BY <1>2 DEF Count
  <2>5. ~overlap' => Alone'
    BY <2>2, <2>4
  <2>6. ~overlap' /\ ~reopened' => Room'
    BY <1>1, <2>1, <2>2, <2>3
  <2>7. LimitKept'
    BY <2>1 DEF LimitKept
  <2> QED BY <2>5, <2>6, <2>7 DEF LineFree
<1>3. CASE Create(c)
  <2>1. admission[c] = "create" /\ UNCHANGED overlap
        /\ \A d \in Calls : admission'[d] = IF d = c THEN "done" ELSE admission[d]
    BY <1>3 DEF Create, TypeOK, AdmitTypes
  <2>2. row[c] = "NONE"
    BY <2>1 DEF RowFirst
  <2>3. Open' = Open \cup {c} /\ c \notin Open
    BY <1>3, <2>2 DEF Create, SetRow, Open, Terminal, TypeOK, RowTypes
  <2>4. Cardinality(Open') = Cardinality(Open) + 1 /\ Cardinality(Open) \in Nat
    BY <2>3, OpenFinite, FS_AddElement
  <2>5. ~reopened' => ~reopened
    BY <1>3 DEF Create, SetRow
  <2>6. ~overlap' => \A d \in Calls : admission'[d] # "create"
    BY <1>1, <2>1
  <2>7. LimitKept'
    BY <1>1, <2>1, <2>4, <2>5 DEF LimitKept
  <2> QED BY <2>6, <2>7 DEF LineFree
<1>4. CASE Incoming(c) \/ Refuse(c)
  <2>1. Open' = Open /\ UNCHANGED <<reopened, overlap>>
    BY <1>4 DEF Incoming, Refuse, Open, rowVars
  <2>2. \A d \in Calls : admission'[d] = "create" => admission[d] = "create"
    BY <1>4 DEF Incoming, Refuse, TypeOK, AdmitTypes
  <2>3. (~overlap' => Alone') /\ (~overlap' /\ ~reopened' => Room')
    BY <1>1, <2>1, <2>2
  <2> QED BY <2>1, <2>3 DEF LineFree, LimitKept
<1> QED BY <1>2, <1>3, <1>4

\* No other step opens a line, unless it reopens a call.
LEMMA OthersLine ==
  ASSUME TypeOK, RowFirst, Untouched, LineFree, LimitKept,
         \/ \E c \in Calls : Media(c)
         \/ \E e \in Enders, c \in Calls : Ends(e, c)
         \/ \E e \in Enders : Ending(e)
         \/ Sweep
  PROVE  LineFree' /\ LimitKept'
<1>1. UNCHANGED admitVars
  <2>1. ASSUME NEW c \in Calls, Media(c)
        PROVE  UNCHANGED admitVars
    BY <2>1 DEF Media, Connect, StartRead, WriteConnecting, WriteStarting, OpenSession, Answer,
                WriteActive, RealtimeDrops, Tick, Talk, WriteTalk
  <2>2. ASSUME NEW e \in Enders, Ending(e)
        PROVE  UNCHANGED admitVars
    BY <2>2 DEF Ending, EndWrite, Look, Finish, Bill, EndFails
  <2>3. CASE Sweep
    BY <2>3 DEF Sweep, SweepRead, Age, SweepRow
  <2> QED BY <2>1, <2>2, <2>3, EndsEffect
<1>2. UNCHANGED <<row, reopened>>
      \/ \E c \in Calls, s \in CallStatus : row[c] # "NONE" /\ SetRow(c, s)
  <2>1. ASSUME NEW c \in Calls, Media(c)
        PROVE  UNCHANGED <<row, reopened>> \/ \E s \in CallStatus : row[c] # "NONE" /\ SetRow(c, s)
    <3> USE DEF Media, Connect, StartRead, WriteConnecting, WriteStarting, OpenSession, Answer,
                WriteActive, RealtimeDrops, Tick, Talk, WriteTalk, Start
    <3>1. row[c] # "NONE"
      BY <2>1 DEF RowFirst
    <3>2. UNCHANGED <<row, reopened>> \/ \E s \in CallStatus : SetRow(c, s)
      BY <2>1, VoiceAssumption DEF rowVars, CallStatus, Conversation
    <3> QED BY <3>1, <3>2
  <2>2. ASSUME NEW e \in Enders, Ending(e)
        PROVE  UNCHANGED <<row, reopened>>
               \/ \E c \in Calls, s \in CallStatus : row[c] # "NONE" /\ SetRow(c, s)
    <3>1. ender[e].call \in Calls /\ ender[e].as \in Terminal /\ row[ender[e].call] # "NONE"
      BY <2>2, Running DEF TypeOK, Ending, EndWrite, Look, Finish, Bill, EndFails, RowFirst
    <3>2. UNCHANGED <<row, reopened>> \/ \E s \in CallStatus : SetRow(ender[e].call, s)
      BY <2>2, <3>1 DEF Ending, EndWrite, Look, Finish, Bill, EndFails, rowVars, CallStatus
    <3> QED BY <3>1, <3>2
  <2>3. CASE Sweep
    BY <2>3 DEF Sweep, SweepRead, Age, SweepRow, rowVars, LiveStatuses, CallStatus, Terminal
  <2>4. ASSUME NEW e \in Enders, NEW c \in Calls, Ends(e, c)
        PROVE  UNCHANGED <<row, reopened>>
    BY <2>4, EndsEffect DEF rowVars
  <2> QED BY <2>1, <2>2, <2>3, <2>4
<1>3. ~reopened' => ~reopened /\ Open' \subseteq Open
  <2>1. CASE UNCHANGED <<row, reopened>>
    BY <2>1 DEF Open
  <2> QED BY <1>2, <2>1, NoNewLine
<1> QED BY <1>1, <1>3, LineKept

\* The free line and the limit are invariants together.
LEMMA LineInvariant == Spec => [](LineFree /\ LimitKept)
<1> DEFINE Inv == LineFree /\ LimitKept
<1>1. Init => Inv
  <2> SUFFICES ASSUME Init PROVE Inv
    OBVIOUS
  <2>1. Open = {}
    BY DEF Init, Open
  <2>2. Cardinality(Open) <= Limit
    BY <2>1, FS_EmptySet, VoiceAssumption
  <2> QED BY <2>2 DEF Init, LineFree, LimitKept
<1>2. TypeOK /\ RowFirst /\ Untouched /\ Inv /\ [Next]_vars => Inv'
  <2> SUFFICES ASSUME TypeOK, RowFirst, Untouched, Inv, [Next]_vars PROVE Inv'
    OBVIOUS
  <2>1. CASE UNCHANGED vars
    BY <2>1, LineKept DEF vars, rowVars, Open
  <2>2. CASE Crash
    <3>1. Open' = Open /\ UNCHANGED <<overlap, reopened>>
          /\ \A c \in Calls : admission'[c] # "create"
      BY <2>2 DEF Crash, Open, rowVars
    <3> QED BY <3>1 DEF LineFree, LimitKept
  <2> QED BY <2>1, <2>2, NextCases, AdmissionLine, OthersLine
<1> QED BY <1>1, <1>2, FirstInvariant, PTL DEF Spec

\* The line limit holds of any number of calls, unless admissions overlap or a call is reopened.
THEOREM LimitIsKept == Spec => []LimitKept
BY LineInvariant, PTL

-----------------------------------------------------------------------------
(* The usage of a closed call *)

\* The call is paid for, or somebody is about to record what it cost.
Billed(c) == usage[c] > 0 \/ \E e \in Enders : ender[e].call = c /\ ender[e].pc = "bill"

\* A call closed by endCall is billed, as long as nothing has failed.
LEMMA BilledKept ==
  ASSUME TypeOK, Accounted, SweptAreOld,
         UNCHANGED <<spent["error"], spent["crash"]>>, \A c \in candidates' : old'[c],
         \A c \in Calls :
           /\ old[c] => old'[c]
           /\ Billed(c) => Billed(c)'
           /\ row'[c] \in Terminal => row[c] \in Terminal \/ Billed(c)' \/ old[c]
  PROVE  Accounted' /\ SweptAreOld'
BY DEF Accounted, SweptAreOld, Billed

\* An error or a crash leaves nothing to prove.
LEMMA FailedKept ==
  ASSUME TypeOK, \E x \in {"error", "crash"} : spent'[x] > 0, SweptAreOld,
         UNCHANGED old, candidates' \subseteq candidates
  PROVE  Accounted' /\ SweptAreOld'
BY DEF Accounted, SweptAreOld

\* An endCall that is about to record the usage is left to do so by every other step.
LEMMA StillBilling ==
  ASSUME TypeOK, NEW e \in Enders, UNCHANGED usage, ender[e].pc # "bill",
         \A f \in Enders : f # e => ender'[f] = ender[f]
  PROVE  \A c \in Calls : Billed(c) => Billed(c)'
BY DEF Billed

\* The steps of an endCall: only Finish closes a call, and it goes on to Bill.
LEMMA EndingAccounted ==
  ASSUME TypeOK, Accounted, SweptAreOld, NEW e \in Enders, Ending(e)
  PROVE  Accounted' /\ SweptAreOld'
<1>1. ender[e].call \in Calls /\ ender[e].as \in Terminal
  BY Running DEF TypeOK, Ending, EndWrite, Look, Finish, Bill, EndFails
<1>2. \A f \in Enders : f # e => ender'[f] = ender[f]
  BY DEF Ending, EndWrite, Look, Finish, Bill, EndFails, Return, EndAt, TypeOK, EnderTypes
<1>3. CASE EndFails(e)
  BY <1>3, FailedKept DEF EndFails, Spend, rowVars, TypeOK, Events
<1>4. CASE Bill(e)
  <2>1. \A c \in Calls : Billed(c) => Billed(c)'
    <3>1. \A c \in Calls : usage'[c] = IF c = ender[e].call THEN usage[c] + 1 ELSE usage[c]
      BY <1>4 DEF Bill, TypeOK, RowTypes
    <3>2. \A c \in Calls : usage[c] \in Nat
      BY DEF TypeOK, RowTypes
    <3> QED BY <1>2, <3>1, <3>2 DEF Billed
  <2> QED BY <1>4, <2>1, BilledKept DEF Bill, SweptAreOld
<1>5. CASE Finish(e)
  <2>1. ender'[e].call = ender[e].call /\ ender'[e].pc = "bill"
    BY <1>5 DEF Finish, EndAt, TypeOK, EnderTypes
  <2>2. \A c \in Calls : Billed(c) => Billed(c)'
    BY <1>2, <1>5, StillBilling DEF Finish
  <2>3. PICK d \in Calls : d = ender[e].call
    BY <1>1
  <2>4. Billed(d)' /\ \A c \in Calls : c # d => row'[c] = row[c]
    BY <1>5, <2>1, <2>3 DEF Billed, Finish, SetRow, TypeOK, RowTypes
  <2>5. UNCHANGED <<old, spent, candidates>>
    BY <1>5 DEF Finish
  <2> QED BY <2>2, <2>4, <2>5, BilledKept DEF SweptAreOld
<1>6. CASE EndWrite(e) \/ Look(e)
  <2>1. \A c \in Calls : Billed(c) => Billed(c)'
    BY <1>2, <1>6, StillBilling DEF EndWrite, Look, rowVars
  <2>2. \A c \in Calls : row'[c] \in Terminal => row[c] \in Terminal
    BY <1>1, <1>6 DEF EndWrite, Look, SetRow, rowVars, Terminal, TypeOK, RowTypes
  <2> QED BY <1>6, <2>1, <2>2, BilledKept DEF EndWrite, Look, SweptAreOld, rowVars
<1> QED BY <1>3, <1>4, <1>5, <1>6 DEF Ending

\* Starting an endCall takes nobody away from the bill.
LEMMA EndsAccounted ==
  ASSUME TypeOK, RowFirst, Untouched, Accounted, SweptAreOld,
         NEW e \in Enders, NEW c \in Calls, Ends(e, c)
  PROVE  Accounted' /\ SweptAreOld'
<1>1. PICK as \in Terminal : EndCall(e, c, as)
  BY EndsEffect
<1>2. UNCHANGED <<row, usage, old, candidates>>
  BY EndsEffect DEF rowVars
<1>3. \A d \in Calls : Billed(d) => Billed(d)'
  <2>1. ender[e] = Idle /\ \A f \in Enders : f # e => ender'[f] = ender[f]
    BY <1>1 DEF EndCall, EndAt, TypeOK, EnderTypes
  <2> QED BY <1>2, <2>1, StillBilling DEF Idle
<1>4. UNCHANGED <<spent["error"], spent["crash"]>>
  BY DEF Ends, StreamStops, SocketCloses, ProviderReports, RealtimeFails, RealtimeClosed,
         StartFails, Expires, Spend, TypeOK, Events
<1> QED BY <1>2, <1>3, <1>4, BilledKept DEF SweptAreOld

\* Admission and the media session close no call.
LEMMA OpenAccounted ==
  ASSUME TypeOK, Accounted, SweptAreOld, NEW c \in Calls, Admission(c) \/ Media(c)
  PROVE  Accounted' /\ SweptAreOld'
<1>1. UNCHANGED <<usage, old, ender, candidates, spent["error"], spent["crash"]>>
  <2>1. CASE Admission(c)
    BY <2>1 DEF Admission, Incoming, Count, Create, Refuse, rowVars
  <2>2. CASE Media(c)
    BY <2>2 DEF Media, Connect, StartRead, WriteConnecting, WriteStarting, OpenSession, Answer,
                WriteActive, RealtimeDrops, Tick, Talk, WriteTalk, rowVars, Spend, TypeOK, Events
  <2> QED BY <2>1, <2>2
<1>2. \A d \in Calls : row'[d] \in Terminal => row[d] \in Terminal
  <2>1. CASE UNCHANGED row
    BY <2>1
  <2>2. ASSUME NEW s \in CallStatus \ Terminal, SetRow(c, s)
        PROVE  \A d \in Calls : row'[d] \in Terminal => row[d] \in Terminal
    BY <2>2 DEF SetRow, TypeOK, RowTypes
  <2>3. UNCHANGED row \/ \E s \in CallStatus \ Terminal : SetRow(c, s)
    BY VoiceAssumption
       DEF Admission, Incoming, Count, Create, Refuse, Media, Connect, StartRead,
           WriteConnecting, WriteStarting, OpenSession, Answer, WriteActive, RealtimeDrops,
           Tick, Talk, WriteTalk, rowVars, CallStatus, Conversation, Terminal
  <2> QED BY <2>1, <2>2, <2>3
<1>3. \A d \in Calls : Billed(d) => Billed(d)'
  BY <1>1 DEF Billed
<1> QED BY <1>1, <1>2, <1>3, BilledKept DEF SweptAreOld

\* The sweeper closes only what is old.
LEMMA SweepAccounted ==
  ASSUME TypeOK, Accounted, SweptAreOld, Sweep
  PROVE  Accounted' /\ SweptAreOld'
<1> USE DEF Sweep, SweepRead, Age, SweepRow
<1>1. UNCHANGED <<usage, ender, spent>> /\ \A c \in Calls : old[c] => old'[c]
  BY DEF rowVars, TypeOK, RowTypes
<1>2. \A c \in candidates' : old'[c]
  BY DEF Stale, SweptAreOld, rowVars, TypeOK, RowTypes
<1>3. \A c \in Calls : row'[c] \in Terminal => row[c] \in Terminal \/ old[c]
  BY DEF SweptAreOld, SetRow, rowVars, TypeOK, RowTypes
<1>4. \A c \in Calls : Billed(c) => Billed(c)'
  BY <1>1 DEF Billed
<1> QED BY <1>1, <1>2, <1>3, <1>4, BilledKept

\* Usage and the sweeper's snapshot are invariants together.
LEMMA BillInvariant == Spec => [](Accounted /\ SweptAreOld)
<1> DEFINE Inv == Accounted /\ SweptAreOld
<1>1. Init => Inv
  BY DEF Init, Accounted, SweptAreOld, Terminal
<1>2. TypeOK /\ RowFirst /\ Untouched /\ Inv /\ [Next]_vars => Inv'
  <2> SUFFICES ASSUME TypeOK, RowFirst, Untouched, Inv, [Next]_vars PROVE Inv'
    OBVIOUS
  <2>1. CASE UNCHANGED vars
    BY <2>1 DEF vars, rowVars, Accounted, SweptAreOld
  <2>2. CASE Crash
    <3>1. spent'["crash"] > 0
      BY <2>2 DEF Crash, Spend, TypeOK, Events
    <3> QED BY <2>2, <3>1, FailedKept DEF Crash, rowVars
  <2> QED BY <2>1, <2>2, NextCases, OpenAccounted, EndsAccounted, EndingAccounted,
             SweepAccounted
<1> QED BY <1>1, <1>2, FirstInvariant, PTL DEF Spec

\* Every call that was closed by endCall has its usage recorded, or will have.
THEOREM EndIsAccounted == Spec => []Accounted
BY BillInvariant, PTL

-----------------------------------------------------------------------------
(* The record of a call is the ledger's *)

\* Writing a status writes the line of the call.
LEMMA SetRowLine ==
  ASSUME TypeOK, NEW c \in Calls, NEW s \in CallStatus, SetRow(c, s)
  PROVE  Line' = [Line EXCEPT ![c] = IF s \in Terminal THEN "closed" ELSE "open"]
<1>1. s # "NONE"
  BY DEF CallStatus, Conversation, Terminal
<1>2. row' = [row EXCEPT ![c] = s] /\ row \in [Calls -> CallStatus \cup {"NONE"}]
  BY DEF SetRow, TypeOK, RowTypes
<1> QED BY <1>1, <1>2 DEF Line

\* What of the state the ledger sees besides the line and who works on what.
Kept == UNCHANGED <<usage, old, spent["error"], spent["crash"]>>

\* Nothing is written, and nobody comes to work on a call.
LEMMA LeaveStep ==
  ASSUME UNCHANGED row, Kept, Owed' = Owed, Attended' \subseteq Attended
  PROVE  Ledger!LedgerNext
<1>1. Line' = Line
  BY DEF Line
<1>2. Ledger!Leave
  BY <1>1 DEF Ledger!Leave, Kept
<1> QED BY <1>2 DEF Ledger!LedgerNext

\* An open call gets somebody who works on it.
LEMMA AttendStep ==
  ASSUME UNCHANGED row, Kept, Owed' = Owed,
         NEW c \in Calls, row[c] \notin Terminal \cup {"NONE"}, Attended' = Attended \cup {c}
  PROVE  Ledger!LedgerNext
<1>1. Line' = Line /\ Line[c] = "open"
  BY DEF Line
<1>2. Ledger!Attend(c)
  BY <1>1 DEF Ledger!Attend, Kept
<1> QED BY <1>2 DEF Ledger!LedgerNext

\* Somebody who works on a call writes an open status.
LEMMA KeepStep ==
  ASSUME TypeOK, NEW c \in Calls, NEW s \in CallStatus \ Terminal, SetRow(c, s),
         Kept, Owed' = Owed, c \in Attended, Attended' \subseteq Attended
  PROVE  Ledger!LedgerNext
<1>1. Line' = [Line EXCEPT ![c] = "open"]
  BY SetRowLine
<1>2. Ledger!Keep(c)
  BY <1>1 DEF Ledger!Keep, Kept
<1> QED BY <1>2 DEF Ledger!LedgerNext

\* An error or a crash is a fault, which may destroy a bill.
LEMMA FaultStep ==
  ASSUME TypeOK, NEW x \in {"error", "crash"}, Spend(x), UNCHANGED <<row, usage, old>>,
         Owed' \subseteq Owed, Attended' \subseteq Attended
  PROVE  Ledger!LedgerNext
<1>1. Line' = Line
  BY DEF Line
<1>2. (spent["error"] + spent["crash"])' = spent["error"] + spent["crash"] + 1
  BY DEF Spend, TypeOK, Events
<1>3. Ledger!Fault
  BY <1>1, <1>2 DEF Ledger!Fault
<1> QED BY <1>3 DEF Ledger!LedgerNext

\* Admission creates a row for a call that has none, and nothing else.
LEMMA AdmissionRecorded ==
  ASSUME TypeOK, RowFirst, NEW c \in Calls, Admission(c)
  PROVE  Ledger!LedgerNext
<1>1. Kept /\ UNCHANGED <<starter, mapped, realtime, pending, ender>>
  BY DEF Admission, Incoming, Count, Create, Refuse, Kept, rowVars, sessionVars, handlerVars
<1>2. Attended' = Attended /\ Owed' = Owed
  BY <1>1 DEF Attended, Owed
<1>3. CASE Create(c)
  <2>1. row[c] = "NONE" /\ SetRow(c, "RINGING")
    BY <1>3 DEF Create, Admit, RowFirst
  <2>2. Line[c] = "none" /\ Line' = [Line EXCEPT ![c] = "open"]
    BY <2>1, SetRowLine DEF Line, CallStatus, Terminal
  <2>3. Ledger!Ring(c)
    BY <1>1, <1>2, <2>2 DEF Ledger!Ring, Kept
  <2> QED BY <2>3 DEF Ledger!LedgerNext
<1>4. CASE ~Create(c)
  BY <1>1, <1>2, <1>4, LeaveStep DEF Admission, Incoming, Count, Refuse, rowVars
<1> QED BY <1>3, <1>4

\* startMediaSession comes to work on a call it has found open; its later steps, and those of
\* the realtime events, are the work.
LEMMA MediaRecorded ==
  ASSUME TypeOK, RowFirst, NEW c \in Calls, Media(c)
  PROVE  Ledger!LedgerNext
<1> USE DEF Start, TypeOK, HandlerTypes, SessionTypes
<1>1. Kept /\ UNCHANGED ender
  BY DEF Media, Connect, StartRead, WriteConnecting, WriteStarting, OpenSession, Answer,
         WriteActive, RealtimeDrops, Tick, Talk, WriteTalk, Kept, rowVars, Spend, Events
<1>2. Owed' = Owed
  BY <1>1 DEF Owed
<1>3. CASE Connect(c)
  <2>1. Attended' = Attended
    BY <1>1, <1>3 DEF Connect, sessionVars, Attended, Starting
  <2> QED BY <1>1, <1>2, <1>3, <2>1, LeaveStep DEF Connect, rowVars
<1>4. CASE StartRead(c)
  <2>1. CASE row[c] \in Terminal
    <3>1. Attended' = Attended
      BY <1>1, <1>4, <2>1 DEF StartRead, Attended, Starting
    <3> QED BY <1>1, <1>2, <1>4, <3>1, LeaveStep DEF StartRead, rowVars
  <2>2. CASE row[c] \notin Terminal
    <3>1. row[c] # "NONE"
      BY <1>4 DEF StartRead, RowFirst
    <3>2. Attended' = Attended \cup {c}
      BY <1>1, <1>4, <2>2 DEF StartRead, Attended, Starting
    <3> QED BY <1>1, <1>2, <1>4, <2>2, <3>1, <3>2, AttendStep DEF StartRead, rowVars
  <2> QED BY <2>1, <2>2
<1>5. CASE WriteConnecting(c) \/ WriteStarting(c) \/ WriteActive(c)
  <2>1. c \in Attended /\ Attended' \subseteq Attended
    BY <1>1, <1>5 DEF WriteConnecting, WriteStarting, WriteActive, sessionVars, Attended, Starting
  <2>2. \E s \in CallStatus \ Terminal : SetRow(c, s)
    BY <1>5 DEF WriteConnecting, WriteStarting, WriteActive, CallStatus, Conversation, Terminal
  <2> QED BY <1>1, <1>2, <2>1, <2>2, KeepStep
<1>6. CASE OpenSession(c) \/ Answer(c) \/ RealtimeDrops(c) \/ Tick(c)
  <2>1. Attended' \subseteq Attended
    BY <1>1, <1>6 DEF OpenSession, Answer, RealtimeDrops, Tick, sessionVars, handlerVars,
                      Attended, Starting
  <2>2. UNCHANGED row
    BY <1>6 DEF OpenSession, Answer, RealtimeDrops, Tick, rowVars
  <2> QED BY <1>1, <1>2, <2>1, <2>2, LeaveStep
<1>7. ASSUME NEW s \in Speech, Talk(c, s)
      PROVE  Ledger!LedgerNext
  <2>1. Attended' \subseteq Attended
    BY <1>1, <1>7 DEF Talk, Attended
  <2> QED BY <1>1, <1>2, <1>7, <2>1, LeaveStep DEF Talk, rowVars
<1>8. ASSUME NEW s \in Speech, WriteTalk(c, s)
      PROVE  Ledger!LedgerNext
  <2>1. c \in Attended /\ Attended' \subseteq Attended
    BY <1>1, <1>8 DEF WriteTalk, sessionVars, Attended
  <2>2. s \in CallStatus \ Terminal
    BY VoiceAssumption DEF CallStatus, Conversation, Terminal
  <2> QED BY <1>1, <1>2, <1>8, <2>1, <2>2, KeepStep DEF WriteTalk
<1> QED BY <1>3, <1>4, <1>5, <1>6, <1>7, <1>8 DEF Media

\* Whatever ends a call begins with an endCall that works on nothing its session did not.
LEMMA EndsRecorded ==
  ASSUME TypeOK, RowFirst, Untouched, NEW e \in Enders, NEW c \in Calls, Ends(e, c)
  PROVE  Ledger!LedgerNext
<1>1. PICK as \in Terminal : EndCall(e, c, as)
  BY EndsEffect
<1>2. Kept /\ UNCHANGED <<row, pending>>
  <2>1. UNCHANGED <<spent["error"], spent["crash"]>>
    BY DEF Ends, StreamStops, SocketCloses, ProviderReports, RealtimeFails, RealtimeClosed,
           StartFails, Expires, Spend, TypeOK, Events
  <2> QED BY <2>1, EndsEffect DEF Kept, rowVars
<1>3. /\ ender[e] = Idle /\ \A f \in Enders : f # e => ender'[f] = ender[f]
      /\ \/ ender'[e] = ender[e]
         \/ ender'[e] = [pc |-> "ending", call |-> c, as |-> as] /\ mapped[c]
         \/ ender'[e] = [pc |-> "look", call |-> c, as |-> as]
  BY <1>1 DEF EndCall, EndAt, TypeOK, EnderTypes
<1>4. Owed' = Owed
  BY <1>3 DEF Owed, Idle
<1>5. Attended' \subseteq Attended
  <2>1. \A d \in Calls :
          /\ mapped'[d] => mapped[d]
          /\ realtime'[d] = "open" => realtime[d] = "open"
    BY <1>1 DEF EndCall, Teardown, sessionVars, TypeOK, SessionTypes
  <2>2. \A d \in Calls : starter'[d] \in Starting \ {"read"} => starter[d] \in Starting \ {"read"}
    <3>1. UNCHANGED starter \/ starter' = [starter EXCEPT ![c] = "done"]
      BY EndsEffect
    <3> QED BY <3>1 DEF Starting, TypeOK, HandlerTypes
  <2>3. \A d \in Calls, f \in Enders :
          ender'[f].call = d /\ ender'[f].pc \in {"ending", "write"} =>
            mapped[d] \/ (ender[f].call = d /\ ender[f].pc \in {"ending", "write"})
    BY <1>3
  <2> QED BY <1>2, <2>1, <2>2, <2>3 DEF Attended
<1> QED BY <1>2, <1>4, <1>5, LeaveStep

\* The steps of an endCall: it looks before it works on a call without a session, and owes
\* the bill of the call it closes.
LEMMA EndingRecorded ==
  ASSUME TypeOK, RowFirst, NEW e \in Enders, Ending(e)
  PROVE  Ledger!LedgerNext
<1> DEFINE c == ender[e].call
<1>1. c \in Calls /\ ender[e].as \in Terminal /\ row[c] # "NONE"
  BY Running DEF TypeOK, Ending, EndWrite, Look, Finish, Bill, EndFails, RowFirst
<1>2. UNCHANGED <<starter, pending>> /\ \A f \in Enders : f # e => ender'[f] = ender[f]
  BY DEF Ending, EndWrite, Look, Finish, Bill, EndFails, Return, EndAt, TypeOK, EnderTypes,
         handlerVars
<1>3. \A step \in {"look", "write", "bill"} :
        EndAt(e, step, ender[e].call, ender[e].as) =>
          ender'[e].pc = step /\ ender'[e].call = ender[e].call
  BY DEF EndAt, TypeOK, EnderTypes
<1>4. Return(e) => ender'[e] = Idle
  BY DEF Return, TypeOK, EnderTypes
<1>5. CASE EndWrite(e)
  <2>1. ender'[e].pc = "look" /\ ender[e].pc = "ending"
    BY <1>3, <1>5 DEF EndWrite
  <2>2. Owed' = Owed
    BY <1>2, <2>1 DEF Owed
  <2>3. c \in Attended
    BY <1>1, <2>1 DEF Attended
  <2>4. Attended' \subseteq Attended
    <3>1. \A d \in Calls :
            /\ mapped'[d] => mapped[d]
            /\ realtime'[d] = "open" => realtime[d] = "open"
      BY <1>5 DEF EndWrite, Teardown, TypeOK, SessionTypes
    <3> QED BY <1>2, <2>1, <3>1 DEF Attended
  <2>5. SetRow(c, "ENDING") /\ Kept /\ "ENDING" \in CallStatus \ Terminal
    BY <1>5 DEF EndWrite, Kept, CallStatus, Terminal
  <2> QED BY <1>1, <2>2, <2>3, <2>4, <2>5, KeepStep
<1>6. CASE Look(e)
  <2>1. UNCHANGED <<row, mapped, realtime>> /\ Kept /\ ender[e].pc = "look"
    BY <1>6 DEF Look, rowVars, sessionVars, Kept
  <2>2. CASE row[c] \in Terminal
    <3>1. ender'[e] = Idle
      BY <1>4, <1>6, <2>2 DEF Look
    <3>2. Owed' = Owed /\ Attended' \subseteq Attended
      BY <1>2, <2>1, <3>1 DEF Owed, Attended, Idle
    <3> QED BY <2>1, <3>2, LeaveStep
  <2>3. CASE row[c] \notin Terminal
    <3>1. ender'[e].pc = "write" /\ ender'[e].call = c
      BY <1>3, <1>6, <2>3 DEF Look
    <3>2. Owed' = Owed
      BY <1>2, <2>1, <3>1 DEF Owed
    <3>3. Attended' = Attended \cup {c}
      BY <1>1, <1>2, <2>1, <3>1 DEF Attended
    <3> QED BY <1>1, <2>1, <2>3, <3>2, <3>3, AttendStep
  <2> QED BY <2>2, <2>3
<1>7. CASE Finish(e)
  <2>1. /\ ender[e].pc = "write" /\ UNCHANGED <<mapped, realtime>> /\ Kept
        /\ ender'[e].pc = "bill" /\ ender'[e].call = c
    BY <1>3, <1>7 DEF Finish, sessionVars, Kept
  <2>2. Line' = [Line EXCEPT ![c] = "closed"]
    BY <1>1, <1>7, SetRowLine DEF Finish, CallStatus
  <2>3. <<c, e>> \notin Owed /\ Owed' = Owed \cup {<<c, e>>}
    BY <1>1, <1>2, <2>1 DEF Owed
  <2>4. c \in Attended /\ Attended' \subseteq Attended
    BY <1>1, <1>2, <2>1 DEF Attended
  <2>5. Ledger!Close(c, e)
    BY <2>1, <2>2, <2>3, <2>4 DEF Ledger!Close, Kept
  <2> QED BY <1>1, <2>5 DEF Ledger!LedgerNext
<1>8. CASE Bill(e)
  <2>1. /\ ender[e].pc = "bill" /\ UNCHANGED <<row, old, spent, mapped, realtime>>
        /\ ender'[e] = Idle /\ usage' = [usage EXCEPT ![c] = @ + 1]
    BY <1>4, <1>8 DEF Bill, sessionVars
  <2>2. Line' = Line
    BY <2>1 DEF Line
  <2>3. <<c, e>> \in Owed /\ Owed' = Owed \ {<<c, e>>}
    BY <1>1, <1>2, <2>1 DEF Owed, Idle
  <2>4. Attended' = Attended
    BY <1>2, <2>1 DEF Attended, Idle
  <2>5. Ledger!Record(c, e)
    BY <2>1, <2>2, <2>3, <2>4 DEF Ledger!Record
  <2> QED BY <1>1, <2>5 DEF Ledger!LedgerNext
<1>9. CASE EndFails(e)
  <2>1. UNCHANGED <<row, usage, old, mapped, realtime>> /\ ender'[e] = Idle /\ Spend("error")
    BY <1>4, <1>9 DEF EndFails, rowVars, sessionVars
  <2>2. Owed' \subseteq Owed /\ Attended' \subseteq Attended
    BY <1>2, <2>1 DEF Owed, Attended, Idle
  <2> QED BY <2>1, <2>2, FaultStep
<1> QED BY <1>5, <1>6, <1>7, <1>8, <1>9 DEF Ending

\* Only a call nobody works on, and nobody owes the bill of, comes of age; the sweeper only
\* closes one that has.
LEMMA SweepRecorded ==
  ASSUME TypeOK, SweptAreOld, Sweep
  PROVE  Ledger!LedgerNext
<1>1. UNCHANGED <<usage, starter, mapped, realtime, pending, ender, spent>>
  BY DEF Sweep, SweepRead, Age, SweepRow, rowVars, sessionVars, handlerVars
<1>2. Owed' = Owed /\ Attended' = Attended
  BY <1>1 DEF Owed, Attended
<1>3. CASE SweepRead
  BY <1>1, <1>2, <1>3, LeaveStep DEF SweepRead, rowVars, Kept
<1>4. ASSUME NEW c \in Calls, Age(c)
      PROVE  Ledger!LedgerNext
  <2>1. Line' = Line /\ Line[c] # "none"
    BY <1>4 DEF Age, Line
  <2>2. {d \in Calls : old[d]}' = {d \in Calls : old[d]} \cup {c}
    BY <1>4 DEF Age, TypeOK, RowTypes
  <2>3. \A e \in Enders : <<c, e>> \notin Owed
    BY <1>4 DEF Age, Quiet, Owed
  <2>4. Ledger!Age(c)
    BY <1>1, <1>2, <2>1, <2>2, <2>3 DEF Ledger!Age
  <2> QED BY <2>4 DEF Ledger!LedgerNext
<1>5. ASSUME NEW c \in Calls, SweepRow(c)
      PROVE  Ledger!LedgerNext
  <2>1. old[c] /\ UNCHANGED old
    BY <1>5 DEF SweepRow, SweptAreOld
  <2>2. CASE row[c] \in LiveStatuses
    <3>1. Line' = [Line EXCEPT ![c] = "closed"]
      BY <1>5, <2>2, SetRowLine DEF SweepRow, CallStatus, Terminal
    <3>2. Line[c] = "open"
      BY <2>2 DEF Line, LiveStatuses, Terminal
    <3>3. Ledger!Sweep(c)
      BY <1>1, <1>2, <2>1, <3>1, <3>2 DEF Ledger!Sweep
    <3> QED BY <3>3 DEF Ledger!LedgerNext
  <2>3. CASE row[c] \notin LiveStatuses
    BY <1>1, <1>2, <1>5, <2>1, <2>3, LeaveStep DEF SweepRow, Kept
  <2> QED BY <2>2, <2>3
<1> QED BY <1>3, <1>4, <1>5 DEF Sweep

\* A crash is a fault that takes everybody away from every call.
LEMMA CrashRecorded ==
  ASSUME TypeOK, Crash
  PROVE  Ledger!LedgerNext
<1>1. \A e \in Enders : ender'[e] = Idle
  BY DEF Crash
<1>2. Owed' \subseteq Owed
  BY <1>1 DEF Owed, Idle
<1>3. Attended' \subseteq Attended
  BY <1>1 DEF Crash, Attended, Idle, Starting
<1> QED BY <1>2, <1>3, FaultStep DEF Crash, rowVars

\* VoiceCall implements the call ledger: whatever is in flight, who writes the row of a call
\* was let in while it was open, who closes it owes the bill, and a bill is recorded once.
THEOREM CallImplementsLedger == Spec => ImplementsCallLedger
<1>1. Init => Ledger!LedgerInit
  <2> SUFFICES ASSUME Init PROVE Ledger!LedgerInit
    OBVIOUS
  <2>1. Line = [c \in Calls |-> "none"]
    BY DEF Init, Line
  <2>2. Attended = {} /\ Owed = {} /\ {c \in Calls : old[c]} = {}
    BY DEF Init, Attended, Owed, Idle, Starting
  <2>3. spent["error"] + spent["crash"] = 0
    BY DEF Init, Events
  <2> QED BY <2>1, <2>2, <2>3 DEF Init, Ledger!LedgerInit
<1>2. TypeOK /\ RowFirst /\ Untouched /\ SweptAreOld /\ [Next]_vars =>
        [Ledger!LedgerNext]_(Ledger!ledgerVars)
  <2> SUFFICES ASSUME TypeOK, RowFirst, Untouched, SweptAreOld, [Next]_vars
               PROVE  Ledger!LedgerNext \/ UNCHANGED Ledger!ledgerVars
    OBVIOUS
  <2>1. CASE UNCHANGED vars
    BY <2>1 DEF vars, rowVars, sessionVars, handlerVars, Ledger!ledgerVars, Line, Attended, Owed
  <2>2. CASE Next
    BY <2>2, NextCases, AdmissionRecorded, MediaRecorded, EndsRecorded, EndingRecorded,
       SweepRecorded, CrashRecorded
  <2> QED BY <2>1, <2>2
<1> QED BY <1>1, <1>2, FirstInvariant, BillInvariant, PTL
        DEF Spec, ImplementsCallLedger, Ledger!LedgerSpec

\* What the handlers rely on without looking holds of every reachable state.
THEOREM CallInvariant == Spec => []CallInv
<1>1. RowFirst /\ Untouched /\ LineFree /\ SweptAreOld => CallInv
  BY DEF CallInv
<1> QED BY <1>1, FirstInvariant, LineInvariant, BillInvariant, PTL

=============================================================================
