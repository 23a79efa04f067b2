------------------------- MODULE WhatsappInstances -------------------------
(***************************************************************************)
(* An organization's WhatsApp lines (whatsapp.service.ts): a row for each, *)
(* an instance of it at the provider (evolution.provider.ts), and the news *)
(* of the instance, which the provider reports and the screen may ask for. *)
(* What the provider does is told from how it is called.  A broadcast goes *)
(* on by itself after its request has been answered.                       *)
(***************************************************************************)
EXTENDS Naturals, FiniteSets

CONSTANTS
  Lines,          \* rows of channel_connections; an instance has the id of its row
  FirstLine,      \* the one that is connected at the start
  LineRequests,
  Receivers,      \* contacts a broadcast names
  LineFaults,     \* bound: provider calls refused, reports lost, processes that die
  LineEvents      \* bound: changes on the customer's phone, entries on the list

ASSUME LinesAssumption ==
  /\ IsFiniteSet(Lines) /\ FirstLine \in Lines /\ IsFiniteSet(LineRequests) /\ IsFiniteSet(Receivers)
  /\ LineFaults \in Nat /\ LineEvents \in Nat

VARIABLES
  line,      \* channel_connections: [status, inst: has a providerInstanceId, gone: deletedAt]
  instance,  \* at the provider: "none" or the state of the instance
  hooked,    \* instances whose webhook is ours
  news,      \* reports under way: <<line, state>>
  wa,        \* each request: [kind, at, on, saw, todo]
  barred,    \* receivers on the do-not-contact list
  texted, inInbox, \* broadcasts a receiver was sent, and Message rows of them
  slipped,   \* history: lines whose creation or removal failed half way, or overlapped
  doubtful,  \* history: lines with a change that was not reported, or overtaken
  unshown,   \* history: texts sent to a receiver whose row could not be written
  lineFaults, lineEvents

atProvider == <<instance, hooked, news>>
counts == <<texted, inInbox, unshown>>
lineVars == <<line, atProvider, wa, barred, counts, slipped, doubtful, lineFaults, lineEvents>>

Idle == [kind |-> "none", at |-> "end", on |-> {}, saw |-> "none", todo |-> {}]

LinesInit ==
  /\ line = [c \in Lines |-> [status |-> IF c = FirstLine THEN "CONNECTED" ELSE "NONE",
                              inst |-> c = FirstLine, gone |-> FALSE]]
  /\ instance = [c \in Lines |-> IF c = FirstLine THEN "open" ELSE "none"]
  /\ hooked = {FirstLine} /\ news = {} /\ barred = {}
  /\ wa = [r \in LineRequests |-> Idle]
  /\ texted = [p \in Receivers |-> 0] /\ inInbox = [p \in Receivers |-> 0] /\ unshown = [p \in Receivers |-> 0]
  /\ slipped = {} /\ doubtful = {} /\ lineFaults = 0 /\ lineEvents = 0

LineIsThere(c) == line[c].status # "NONE" /\ ~line[c].gone
AtLine(r, kind, at) == wa[r].kind = kind /\ wa[r].at = at

\* normalizeConnectionStatus; and getConnectionState of an instance there is not.
StatusFrom == [connecting |-> "CONNECTING", open |-> "CONNECTED", close |-> "DISCONNECTED", none |-> "ERROR"]

Onto(r, at) == wa' = [wa EXCEPT ![r] = IF at = "end" THEN [Idle EXCEPT !.kind = "done"] ELSE [@ EXCEPT !.at = at]]
MarkLine(c, status) == line' = [line EXCEPT ![c].status = status]

\* A provider call that is refused though it need not be.
RefusedByProvider == lineFaults < LineFaults /\ lineFaults' = lineFaults + 1

\* The instance changes; with a webhook the change is reported.  It overtakes whatever news of
\* the line is still under way; without one, nobody hears of it.
InstanceTurns(c, state) ==
  /\ instance' = [instance EXCEPT ![c] = state]
  /\ news' = IF c \in hooked THEN news \cup {<<c, state>>} ELSE news
  /\ doubtful' = IF \/ c \notin hooked
                    \/ \E n \in news : n[1] = c
                    \/ \E r \in LineRequests : wa[r].on = {c} /\ wa[r].at = "write"
                 THEN doubtful \cup {c} ELSE doubtful

-----------------------------------------------------------------------------
(* Creating a line *)

\* createConnection: an unfinished line is returned instead of another.
CreateConnection(r, c) ==
  /\ wa[r] = Idle /\ line[c].status = "NONE"
  /\ IF \E d \in Lines : LineIsThere(d) /\ line[d].status # "CONNECTED" THEN Onto(r, "end")
     ELSE wa' = [wa EXCEPT ![r] = [Idle EXCEPT !.kind = "create", !.at = "row", !.on = {c}]]
  /\ UNCHANGED <<line, atProvider, barred, counts, slipped, doubtful, lineFaults, lineEvents>>

\* channelConnection.create: every request a row of its own.
CreateLineRow(r, c) ==
  /\ AtLine(r, "create", "row")
  /\ IF line[c].status = "NONE"
     THEN wa' = [wa EXCEPT ![r].at = "instance", ![r].on = {c}] /\ MarkLine(c, "CREATING")
     ELSE (\A d \in Lines : line[d].status # "NONE") /\ Onto(r, "end") /\ UNCHANGED line
  /\ UNCHANGED <<atProvider, barred, counts, slipped, doubtful, lineFaults, lineEvents>>

CreateInstance(r, c) ==
  /\ AtLine(r, "create", "instance") /\ wa[r].on = {c}
  /\ \/ InstanceTurns(c, "connecting") /\ Onto(r, "webhook") /\ UNCHANGED <<lineFaults, slipped>>
     \/ RefusedByProvider /\ Onto(r, "fail") /\ UNCHANGED <<atProvider, doubtful, slipped>>
     \/ \* it was created, and the answer lost
        RefusedByProvider /\ InstanceTurns(c, "connecting") /\ Onto(r, "fail") /\ slipped' = slipped \cup {c}
  /\ UNCHANGED <<line, hooked, barred, counts, lineEvents>>

\* setWebhook: a failure is logged and nothing else.
SetWebhook(r, c) ==
  /\ AtLine(r, "create", "webhook") /\ wa[r].on = {c} /\ Onto(r, "write")
  /\ \/ hooked' = hooked \cup ({c} \ {d \in Lines : instance[d] = "none"}) /\ UNCHANGED lineFaults
     \/ RefusedByProvider /\ UNCHANGED hooked
  /\ UNCHANGED <<line, instance, news, barred, counts, slipped, doubtful, lineEvents>>

\* The row gets its instance, or its ERROR: it stays the organization's unfinished line.
FinishCreate(r, c) ==
  /\ wa[r].kind = "create" /\ wa[r].on = {c} /\ Onto(r, "end")
  /\ \/ wa[r].at = "write" /\ line' = [line EXCEPT ![c].inst = TRUE, ![c].status = "QR_REQUIRED"]
     \/ wa[r].at = "fail" /\ MarkLine(c, "ERROR")
  /\ UNCHANGED <<atProvider, barred, counts, slipped, doubtful, lineFaults, lineEvents>>

-----------------------------------------------------------------------------
(* Requests about one line *)

\* findAuthorizedConnection, and what each needs of the row: an instance, or CONNECTED as well.
FindConnection(r, kind, c) ==
  /\ wa[r] = Idle /\ LineIsThere(c)
  /\ LET ready == line[c].inst /\ (kind \in {"send", "broadcast"} => line[c].status = "CONNECTED")
     IN wa' = [wa EXCEPT ![r] =
          IF kind = "delete"
          THEN [Idle EXCEPT !.kind = kind, !.on = {c}, !.saw = line[c].status,
                            !.at = IF line[c].inst THEN "disconnect" ELSE "write"]
          ELSE IF ~ready THEN [Idle EXCEPT !.kind = "done"]
          ELSE [Idle EXCEPT !.kind = kind, !.on = {c}, !.at = "call", !.saw = line[c].status,
                            !.todo = IF kind = "broadcast" THEN Receivers ELSE {}]]
  /\ UNCHANGED <<line, atProvider, barred, counts, slipped, doubtful, lineFaults, lineEvents>>

\* getStatus asks the provider; an error is a status too.
AskState(r, c) ==
  /\ AtLine(r, "status", "call") /\ wa[r].on = {c}
  /\ \E status \in {StatusFrom[instance[c]], "ERROR"} :
       /\ IF status = StatusFrom[instance[c]] THEN UNCHANGED lineFaults ELSE RefusedByProvider
       /\ IF status = wa[r].saw THEN Onto(r, "end") ELSE wa' = [wa EXCEPT ![r].at = "write", ![r].saw = status]
  /\ UNCHANGED <<line, atProvider, barred, counts, slipped, doubtful, lineEvents>>

WriteState(r, c) ==
  /\ AtLine(r, "status", "write") /\ wa[r].on = {c} /\ MarkLine(c, wa[r].saw) /\ Onto(r, "end")
  /\ UNCHANGED <<atProvider, barred, counts, slipped, doubtful, lineFaults, lineEvents>>

\* requestQrCode, for getQrCode and reconnect: an instance that is not open starts to connect.
\* reconnect writes CONNECTING afterwards, whatever has been reported meanwhile.
RequestQrCode(r, c) ==
  /\ wa[r].kind \in {"qr", "reconnect"} /\ wa[r].at = "call" /\ wa[r].on = {c}
  /\ \/ /\ instance[c] # "none" /\ UNCHANGED lineFaults
        /\ Onto(r, IF wa[r].kind = "qr" THEN "end" ELSE "mark")
        /\ IF instance[c] = "close" THEN InstanceTurns(c, "connecting") ELSE UNCHANGED <<instance, news, doubtful>>
     \/ /\ (IF instance[c] = "none" THEN UNCHANGED lineFaults ELSE RefusedByProvider)
        /\ Onto(r, "end") /\ UNCHANGED <<instance, news, doubtful>>
  /\ UNCHANGED <<line, hooked, barred, counts, slipped, lineEvents>>

MarkConnecting(r, c) ==
  /\ AtLine(r, "reconnect", "mark") /\ wa[r].on = {c} /\ MarkLine(c, "CONNECTING") /\ Onto(r, "end")
  /\ UNCHANGED <<atProvider, barred, counts, slipped, doubtful, lineFaults, lineEvents>>

ConfigureWebhook(r, c) ==
  /\ AtLine(r, "hook", "call") /\ wa[r].on = {c} /\ Onto(r, "end")
  /\ \/ hooked' = hooked \cup ({c} \ {d \in Lines : instance[d] = "none"}) /\ UNCHANGED lineFaults
     \/ RefusedByProvider /\ UNCHANGED hooked
  /\ UNCHANGED <<line, instance, news, barred, counts, slipped, doubtful, lineEvents>>

\* sendMessage, sendTemplate: HUMAN_REPLY passes the gate; no Message row is written.
SendDirectly(r) ==
  /\ AtLine(r, "send", "call") /\ Onto(r, "end")
  /\ UNCHANGED <<line, atProvider, barred, counts, slipped, doubtful, lineFaults, lineEvents>>

\* deleteConnection: logout, then delete; if either fails the row is removed all the same.
DisconnectInstance(r, c) ==
  /\ AtLine(r, "delete", "disconnect") /\ wa[r].on = {c}
  /\ \/ /\ instance[c] # "none" /\ Onto(r, "deleteInstance") /\ UNCHANGED <<lineFaults, slipped>>
        /\ IF instance[c] = "close" THEN UNCHANGED <<instance, news, doubtful>> ELSE InstanceTurns(c, "close")
     \/ /\ IF instance[c] = "none" THEN UNCHANGED <<lineFaults, slipped>>
           ELSE RefusedByProvider /\ slipped' = slipped \cup {c}
        /\ Onto(r, "write") /\ UNCHANGED <<instance, news, doubtful>>
  /\ UNCHANGED <<line, hooked, barred, counts, lineEvents>>

DeleteInstance(r, c) ==
  /\ AtLine(r, "delete", "deleteInstance") /\ wa[r].on = {c} /\ Onto(r, "write")
  /\ \/ instance' = [instance EXCEPT ![c] = "none"] /\ hooked' = hooked \ {c} /\ UNCHANGED <<lineFaults, slipped>>
     \/ RefusedByProvider /\ slipped' = slipped \cup {c} /\ UNCHANGED <<instance, hooked>>
  /\ UNCHANGED <<line, news, barred, counts, doubtful, lineEvents>>

\* By id, whatever has been written meanwhile: a line that had no instance yet may be getting one.
RemoveRow(r, c) ==
  /\ AtLine(r, "delete", "write") /\ wa[r].on = {c} /\ Onto(r, "end")
  /\ line' = [line EXCEPT ![c].status = "DISCONNECTED", ![c].gone = TRUE]
  /\ slipped' = IF wa[r].saw \in {"CREATING", "ERROR"} THEN slipped \cup {c} ELSE slipped
  /\ UNCHANGED <<atProvider, barred, counts, doubtful, lineFaults, lineEvents>>

-----------------------------------------------------------------------------
(* Broadcasts *)

\* processBroadcast: the gate for each receiver.  One on the list, or one a broadcast has
\* reached today, is left out.
CheckGate(r, p) ==
  /\ AtLine(r, "broadcast", "call") /\ p \in wa[r].todo
  /\ wa' = [wa EXCEPT ![r] = IF p \in barred \/ inInbox[p] > 0 THEN [@ EXCEPT !.todo = wa[r].todo \ {p}]
                             ELSE [@ EXCEPT !.at = "text", !.saw = p]]
  /\ UNCHANGED <<line, atProvider, barred, counts, slipped, doubtful, lineFaults, lineEvents>>

\* The conversation is found or made, and the text sent on the instance read at the start.
BroadcastText(r, p, c) ==
  /\ AtLine(r, "broadcast", "text") /\ wa[r].saw = p /\ wa[r].on = {c}
  /\ \/ /\ instance[c] = "open" /\ UNCHANGED lineFaults
        /\ wa' = [wa EXCEPT ![r].at = "record"]
        /\ texted' = [texted EXCEPT ![p] = @ + 1]
     \/ /\ (IF instance[c] = "open" THEN RefusedByProvider ELSE UNCHANGED lineFaults)
        /\ wa' = [wa EXCEPT ![r].at = "call", ![r].todo = @ \ {p}]
        /\ UNCHANGED texted
  /\ UNCHANGED <<line, atProvider, barred, inInbox, unshown, slipped, doubtful, lineEvents>>

\* Broadcasts that have sent a receiver their text, and not recorded it.
Recording(p) == {r \in LineRequests : AtLine(r, "broadcast", "record") /\ wa[r].saw = p}

\* Its Message row, for the inbox and for the next gate.
RecordText(r, p) ==
  /\ AtLine(r, "broadcast", "record") /\ wa[r].saw = p
  /\ wa' = [wa EXCEPT ![r].at = "call", ![r].todo = @ \ {p}]
  /\ \/ inInbox' = [inInbox EXCEPT ![p] = @ + 1] /\ UNCHANGED <<unshown, lineFaults>>
     \/ RefusedByProvider /\ unshown' = [unshown EXCEPT ![p] = @ + 1] /\ UNCHANGED inInbox
  /\ UNCHANGED <<line, atProvider, barred, texted, slipped, doubtful, lineEvents>>

EndBroadcast(r) ==
  /\ AtLine(r, "broadcast", "call") /\ wa[r].todo = {} /\ Onto(r, "end")
  /\ UNCHANGED <<line, atProvider, barred, counts, slipped, doubtful, lineFaults, lineEvents>>

-----------------------------------------------------------------------------
(* The provider, the customer, and faults *)

\* The code is scanned; or the phone drops out, or logs out.
InstanceMoves(c) ==
  /\ lineEvents < LineEvents /\ lineEvents' = lineEvents + 1
  /\ \/ instance[c] = "connecting" /\ InstanceTurns(c, "open")
     \/ instance[c] \in {"connecting", "open"} /\ InstanceTurns(c, "close")
  /\ UNCHANGED <<line, hooked, wa, barred, counts, slipped, lineFaults>>

\* The status is dropped (a slip LinesHold must notice).
ReportPassedOver(c, state) == UNCHANGED line

\* handleConnectionUpdate.
HandleConnectionUpdate(c, state) == MarkLine(c, StatusFrom[state])

\* processEvolutionWebhook: a report on an instance no live row has is not for us.
ConnectionReport(c, state) ==
  /\ <<c, state>> \in news /\ news' = news \ {<<c, state>>}
  /\ IF LineIsThere(c) /\ line[c].inst THEN HandleConnectionUpdate(c, state) /\ UNCHANGED doubtful
     ELSE doubtful' = doubtful \cup {c} /\ UNCHANGED line
  /\ UNCHANGED <<instance, hooked, wa, barred, counts, slipped, lineFaults, lineEvents>>

ReportLost(n) ==
  /\ n \in news /\ RefusedByProvider /\ news' = news \ {n} /\ doubtful' = doubtful \cup {n[1]}
  /\ UNCHANGED <<line, instance, hooked, wa, barred, counts, slipped, lineEvents>>

\* Somebody asks not to be contacted.
Bar(p) ==
  /\ p \notin barred /\ lineEvents < LineEvents /\ lineEvents' = lineEvents + 1 /\ barred' = barred \cup {p}
  /\ UNCHANGED <<line, atProvider, wa, counts, slipped, doubtful, lineFaults>>

\* The process dies with what it was doing: a broadcast is not taken up again.
ServerDies ==
  /\ RefusedByProvider
  /\ wa' = [r \in LineRequests |-> IF wa[r] = Idle THEN Idle ELSE [Idle EXCEPT !.kind = "done"]]
  /\ slipped' = slipped \cup UNION {wa[r].on : r \in {r \in LineRequests : wa[r].kind \in {"create", "delete"}}}
  /\ unshown' = [p \in Receivers |-> unshown[p] + Cardinality(Recording(p))]
  /\ UNCHANGED <<line, atProvider, barred, texted, inInbox, doubtful, lineEvents>>

LinesNext ==
  \/ \E r \in LineRequests, c \in Lines :
       \/ CreateConnection(r, c) \/ CreateLineRow(r, c) \/ CreateInstance(r, c) \/ SetWebhook(r, c)
       \/ FinishCreate(r, c)
       \/ \E kind \in {"status", "qr", "reconnect", "hook", "send", "broadcast", "delete"} :
            FindConnection(r, kind, c)
       \/ AskState(r, c) \/ WriteState(r, c) \/ RequestQrCode(r, c) \/ MarkConnecting(r, c)
       \/ ConfigureWebhook(r, c) \/ DisconnectInstance(r, c) \/ DeleteInstance(r, c) \/ RemoveRow(r, c)
       \/ \E p \in Receivers : BroadcastText(r, p, c)
  \/ \E r \in LineRequests :
       SendDirectly(r) \/ EndBroadcast(r) \/ \E p \in Receivers : CheckGate(r, p) \/ RecordText(r, p)
  \/ \E c \in Lines : InstanceMoves(c) \/ \E state \in DOMAIN StatusFrom : ConnectionReport(c, state)
  \/ \E n \in news : ReportLost(n)
  \/ \E p \in Receivers : Bar(p)
  \/ ServerDies

LinesSpec == LinesInit /\ [][LinesNext]_lineVars

-----------------------------------------------------------------------------
(* Properties *)

LinesTypeOK ==
  /\ line \in [Lines -> [inst : BOOLEAN, gone : BOOLEAN,
                         status : {"NONE", "CREATING", "QR_REQUIRED"} \cup {StatusFrom[s] : s \in DOMAIN StatusFrom}]]
  /\ instance \in [Lines -> DOMAIN StatusFrom] /\ hooked \subseteq Lines /\ news \subseteq Lines \X DOMAIN StatusFrom
  /\ \A r \in LineRequests : wa[r].on \subseteq Lines /\ wa[r].todo \subseteq Receivers
  /\ barred \subseteq Receivers /\ texted \in [Receivers -> Nat] /\ inInbox \in [Receivers -> Nat] /\ unshown \in [Receivers -> Nat]
  /\ slipped \subseteq Lines /\ doubtful \subseteq Lines
  /\ lineFaults \in 0 .. LineFaults /\ lineEvents \in 0 .. LineEvents

\* An instance at the provider belongs to a row that is there and names it, so that it can be
\* got rid of, or is being made, unless its creation or removal went wrong half way.
InstanceIsHeld(c) ==
  instance[c] # "none" =>
    \/ LineIsThere(c) /\ line[c].inst
    \/ c \in slipped
    \/ \E r \in LineRequests : wa[r].kind = "create" /\ wa[r].on = {c}

\* A line that says CONNECTED, on which messages are sent, is open, or news of it is under way,
\* or some was lost or overtaken, or the line is being removed.
ConnectedIsOpen(c) ==
  LineIsThere(c) /\ line[c].status = "CONNECTED" =>
    \/ instance[c] = "open"
    \/ c \in doubtful \cup slipped
    \/ \E n \in news : n[1] = c
    \/ \E r \in LineRequests : wa[r].kind = "delete" /\ wa[r].on = {c}

\* Every text a receiver was sent by a broadcast is in the inbox, or about to be, or its row failed.
TextsAreShown == \A p \in Receivers : texted[p] = inInbox[p] + unshown[p] + Cardinality(Recording(p))

\* Through requests that overlap, reports that are late, lost or out of order, refusals and a
\* crash: instances are held, CONNECTED means open, and broadcasts are shown.
LinesHold == (\A c \in Lines : InstanceIsHeld(c) /\ ConnectedIsOpen(c)) /\ TextsAreShown
=============================================================================
