---------------------------- MODULE InboxScreens ----------------------------
(***************************************************************************)
(* What an agent sees: the page of a conversation, with its messages, or   *)
(* the inbox, with its conversations (apps/web).  Both are filled by a     *)
(* request and kept up by events over a socket (useSocket.ts, the realtime *)
(* server).  Rows are written first and their events emitted after, by     *)
(* several processes, so that events come in any order; a socket that is   *)
(* down gets none.  Items stand for messages or conversations.             *)
(***************************************************************************)
EXTENDS Naturals, Sequences, FiniteSets

CONSTANTS
  MaxItems,      \* bound: items that come into being
  Updates,       \* bound: changes of their status
  PageLimit,     \* take: 50 messages; PAGE_LIMIT conversations
  Reconnections, \* reconnectionAttempts
  Fetches,       \* bound: requests under way at a time
  ScreenFaults   \* bound: events and requests lost, sockets and sessions that end

ASSUME ScreensAssumption ==
  /\ {MaxItems, Updates, PageLimit, Reconnections, Fetches, ScreenFaults} \subseteq Nat
  /\ MaxItems > 0  \* a conversation begins with a message

VARIABLES
  page,      \* "conversation" or "inbox"
  items, status,  \* rows 1 .. items, and the status of each
  unsent,    \* events of rows written, not emitted yet: <<kind, item, status>>
  wire,      \* events on their way to this socket
  token,     \* the browser's token; without one it is at the login page
  session,   \* the session at the server
  up, tries, \* the socket, and its attempts left
  loaded, shown,  \* whether there is something to show; <<item, status>> in order
  fetch,     \* requests: "none", "asked", or the answer under way
  raced,     \* history: items an answer under way did not know of, or whose events crossed
  missed,    \* history: items whose event nobody got
  failed,    \* history: a request failed
  updates, screenFaults

source == <<items, status>>
eventQueues == <<unsent, wire>>
login == <<token, session>>
socket == <<up, tries>>
excuses == <<raced, missed, failed>>
screenVars == <<page, source, eventQueues, login, socket, loaded, shown, fetch, excuses, updates, screenFaults>>

NoAnswer == [at |-> "none", rows |-> <<>>]

ScreensInit ==
  /\ page \in {"conversation", "inbox"}
  /\ items = 1 /\ status = [i \in 1 .. MaxItems |-> 0] /\ unsent = {} /\ wire = {}
  /\ token = FALSE /\ session = FALSE /\ up = FALSE /\ tries = Reconnections
  /\ loaded = FALSE /\ shown = <<>> /\ fetch = [f \in 1 .. Fetches |-> NoAnswer]
  /\ raced = {} /\ missed = {} /\ failed = FALSE /\ updates = 0 /\ screenFaults = 0

Fails == screenFaults < ScreenFaults /\ screenFaults' = screenFaults + 1
Shows(i) == \E k \in DOMAIN shown : shown[k][1] = i
Has(rows, i) == \E k \in DOMAIN rows : rows[k] = <<i, status[i]>>
Answers == {f \in 1 .. Fetches : fetch[f].at = "answered"}

\* One more request, where the bound leaves room for it.
Load == \E f \in 1 .. Fetches : fetch[f].at = "none" /\ fetch' = [fetch EXCEPT ![f].at = "asked"]

\* Nothing is left of the page; its requests go nowhere, and the socket is disconnected.
Leave ==
  /\ loaded' = FALSE /\ shown' = <<>> /\ fetch' = [f \in 1 .. Fetches |-> NoAnswer]
  /\ wire' = {} /\ up' = FALSE /\ tries' = Reconnections /\ token' = FALSE

-----------------------------------------------------------------------------
(* The server *)

CreateItem ==
  /\ items < MaxItems /\ items' = items + 1 /\ unsent' = unsent \cup {<<"new", items + 1, 0>>}
  /\ UNCHANGED <<page, status, wire, login, socket, loaded, shown, fetch, excuses, updates, screenFaults>>

ChangeStatus(i) ==
  /\ i <= items /\ updates < Updates /\ updates' = updates + 1
  /\ status' = [status EXCEPT ![i] = @ + 1] /\ unsent' = unsent \cup {<<"status", i, status[i] + 1>>}
  /\ UNCHANGED <<page, items, wire, login, socket, loaded, shown, fetch, excuses, screenFaults>>

\* emitToOrganization: whoever is in the room gets it; a failure is logged and nothing else.
Emit(e) ==
  /\ e \in unsent /\ unsent' = unsent \ {e}
  /\ \/ up /\ wire' = wire \cup {e} /\ UNCHANGED <<missed, screenFaults>>
     \/ ~up /\ missed' = (IF page = "inbox" THEN missed \cup {e[2]} ELSE missed) /\ UNCHANGED <<wire, screenFaults>>
     \/ Fails /\ missed' = missed \cup {e[2]} /\ UNCHANGED wire
  /\ UNCHANGED <<page, source, login, socket, loaded, shown, fetch, raced, failed, updates>>

\* findOne gives a conversation's first messages, oldest first; the inbox asks for the newest.
Rows ==
  LET first == IF page = "inbox" /\ items > PageLimit THEN items - PageLimit ELSE 0
      number == IF items < PageLimit THEN items ELSE PageLimit
  IN [k \in 1 .. number |-> <<first + k, status[first + k]>>]

\* A session that has ended: the interceptor clears the token and goes to the login page.
Answer(f) ==
  /\ fetch[f].at = "asked"
  /\ \/ /\ session /\ fetch' = [fetch EXCEPT ![f] = [at |-> "answered", rows |-> Rows]]
        \* an answer that is still under way knows less
        /\ raced' = raced \cup {i \in 1 .. items : \E g \in Answers : ~Has(fetch[g].rows, i)}
        /\ UNCHANGED <<login, socket, loaded, shown, wire>>
     \/ ~session /\ Leave /\ UNCHANGED <<session, raced>>
  /\ UNCHANGED <<page, source, unsent, missed, failed, updates, screenFaults>>

-----------------------------------------------------------------------------
(* The page *)

\* login, completeMfa, register: the token is stored; the page mounts and loads.
SignIn ==
  /\ ~token /\ token' = TRUE /\ session' = TRUE /\ Load
  \* the inbox begins with an empty list, the conversation with nothing
  /\ raced' = {} /\ missed' = (IF page = "inbox" THEN {e[2] : e \in unsent} ELSE {}) /\ failed' = FALSE
  /\ UNCHANGED <<page, source, eventQueues, socket, loaded, shown, updates, screenFaults>>

\* logout: here at any rate, at the server if the request gets there.
SignOut ==
  /\ token /\ Fails /\ Leave /\ session' \in {FALSE, session}
  /\ UNCHANGED <<page, source, unsent, excuses, updates>>

\* loadConversation, loadConversations: what comes back replaces what is shown.
ApplyAnswer(f) ==
  /\ fetch[f].at = "answered" /\ fetch' = [fetch EXCEPT ![f] = NoAnswer]
  /\ shown' = fetch[f].rows /\ loaded' = TRUE
  /\ UNCHANGED <<page, source, eventQueues, login, socket, excuses, updates, screenFaults>>

LoadFails(f) ==
  /\ fetch[f].at # "none" /\ Fails /\ failed' = TRUE /\ fetch' = [fetch EXCEPT ![f] = NoAnswer]
  /\ UNCHANGED <<page, source, eventQueues, login, socket, loaded, shown, raced, missed, updates>>

\* sendMessage and runAction post, then load again; only one at a time.
SendMessage ==
  /\ page = "conversation" /\ loaded /\ session /\ items < MaxItems /\ Load
  /\ items' = items + 1 /\ unsent' = unsent \cup {<<"new", items + 1, 0>>}
  /\ UNCHANGED <<page, status, wire, login, socket, loaded, shown, excuses, updates, screenFaults>>

RunAction ==
  /\ page = "conversation" /\ loaded /\ session /\ screenFaults < ScreenFaults /\ Load
  /\ UNCHANGED <<page, source, eventQueues, login, socket, loaded, shown, excuses, updates, screenFaults>>

\* handleNewMessage, handleNewConversation: added unless it is there.  handleMessageStatus,
\* handleUpdateConversation: of what is shown.  The conversation has no list before it is loaded.
Handled(e) ==
  IF page = "conversation" /\ ~loaded THEN shown
  ELSE IF e[1] = "new" THEN (IF Shows(e[2]) THEN shown ELSE Append(shown, <<e[2], e[3]>>))
  ELSE [k \in DOMAIN shown |-> IF shown[k][1] = e[2] THEN <<e[2], e[3]>> ELSE shown[k]]

\* An event says less than the row if a later one of the same item has gone by, or is not for
\* what is shown yet.
Crosses(e) ==
  \/ e[3] < status[e[2]] /\ ~ \E later \in unsent \cup wire : later[2] = e[2] /\ later[3] = status[e[2]]
  \/ e[1] = "status" /\ ~Shows(e[2])

DeliverEvent(e) ==
  /\ up /\ e \in wire /\ wire' = wire \ {e}
  /\ shown' = Handled(e)
  /\ raced' = IF Crosses(e) \/ (\E f \in Answers : ~Has(fetch[f].rows, e[2])) THEN raced \cup {e[2]} ELSE raced
  /\ UNCHANGED <<page, source, unsent, login, socket, loaded, fetch, missed, failed, updates, screenFaults>>

-----------------------------------------------------------------------------
(* The socket *)

\* Only the first load (a slip ScreenIsTrue must notice).
LoadOnce == UNCHANGED fetch

\* The conversation loads again whenever isConnected changes; the inbox does not.
LoadOnChange == IF page = "conversation" THEN Load ELSE UNCHANGED fetch

\* The handshake checks the token's session; afterwards the socket is in the organization's room.
Connect ==
  /\ token /\ session /\ ~up /\ tries > 0 /\ up' = TRUE /\ tries' = Reconnections /\ LoadOnChange
  /\ UNCHANGED <<page, source, eventQueues, login, loaded, shown, excuses, updates, screenFaults>>

\* A refusal is not tried again; a failure is, a few times.
ConnectFails ==
  /\ token /\ ~up /\ tries > 0 /\ Fails /\ tries' = (IF session THEN tries - 1 ELSE 0)
  /\ UNCHANGED <<page, source, eventQueues, login, up, loaded, shown, fetch, excuses, updates>>

SocketDrops ==
  /\ up /\ Fails /\ up' = FALSE /\ wire' = {} /\ LoadOnChange
  /\ missed' = IF page = "inbox" THEN missed \cup {e[2] : e \in wire} ELSE missed
  /\ UNCHANGED <<page, source, unsent, login, tries, loaded, shown, raced, failed, updates>>

\* Elsewhere the session is ended: a new password, or its time.
SessionEnds ==
  /\ session /\ Fails /\ session' = FALSE
  /\ UNCHANGED <<page, source, eventQueues, token, socket, loaded, shown, fetch, excuses, updates>>

ScreensNext ==
  \/ CreateItem \/ SignIn \/ SignOut \/ SendMessage \/ RunAction
  \/ Connect \/ ConnectFails \/ SocketDrops \/ SessionEnds
  \/ \E i \in 1 .. MaxItems : ChangeStatus(i)
  \/ \E e \in unsent : Emit(e)
  \/ \E e \in wire : DeliverEvent(e)
  \/ \E f \in 1 .. Fetches : Answer(f) \/ ApplyAnswer(f) \/ LoadFails(f)

ScreensSpec == ScreensInit /\ [][ScreensNext]_screenVars

-----------------------------------------------------------------------------
(* Properties *)

Events == {"new", "status"} \X (1 .. MaxItems) \X (0 .. Updates)

ScreensTypeOK ==
  /\ page \in {"conversation", "inbox"} /\ items \in 1 .. MaxItems /\ status \in [1 .. MaxItems -> 0 .. Updates]
  /\ unsent \subseteq Events /\ wire \subseteq Events /\ {token, session, up, loaded, failed} \subseteq BOOLEAN
  /\ tries \in 0 .. Reconnections /\ \A k \in DOMAIN shown : shown[k] \in (1 .. MaxItems) \X (0 .. Updates)
  /\ \A f \in 1 .. Fetches : fetch[f].at \in {"none", "asked", "answered"}
  /\ raced \subseteq 1 .. MaxItems /\ missed \subseteq 1 .. MaxItems
  /\ updates \in 0 .. Updates /\ screenFaults \in 0 .. ScreenFaults

\* A message that is not among a conversation's first, or a conversation not among the newest.
OffThePage(i) == IF page = "conversation" THEN i > PageLimit ELSE i + PageLimit <= items

Quiet == up /\ loaded /\ unsent = {} /\ wire = {} /\ \A f \in 1 .. Fetches : fetch[f].at = "none"

\* A page that is connected and at rest shows every row, as it is, though its socket went down
\* and events were not delivered; except what a page does not hold, what an answer under way did
\* not know of, what crossed, and, in the inbox, which never loads again, what it missed.  No
\* row is shown twice, and none ahead of itself.
ScreenIsTrue ==
  /\ Quiet /\ ~failed => \A i \in 1 .. items : Has(shown, i) \/ OffThePage(i) \/ i \in raced \cup missed
  /\ \A k, n \in DOMAIN shown : shown[k][1] = shown[n][1] => k = n
  /\ \A k \in DOMAIN shown : shown[k][2] <= status[shown[k][1]]
=============================================================================
