-------------------------- MODULE CustomerRecords --------------------------
(***************************************************************************)
(* What is kept about a customer, and how it goes: contacts and their      *)
(* merge (contacts.service.ts), erasure on request (privacy.controller.ts, *)
(* erasure.service.ts) and the nightly retention sweep.  None of them is a *)
(* transaction, and messages go on arriving.  Each customer has written    *)
(* once, was called once, and an answer was learnt from the conversation.  *)
(* Writes that leave a row as it is are left out.                          *)
(***************************************************************************)
EXTENDS Naturals, Sequences, FiniteSets

CONSTANTS
  Customers,
  Arrivals,      \* messages yet to come, each <<the customer, a number>>
  Merges,        \* the merges somebody may want: <<source, target>>
  Erasures,      \* erasure requests
  RecordFaults   \* bound: statements that fail and crashes, during erasures

ASSUME RecordsAssumption ==
  /\ IsFiniteSet(Customers) /\ IsFiniteSet(Arrivals) /\ Arrivals \subseteq Customers \X Nat
  /\ Customers \cap Arrivals = {} /\ Merges \subseteq Customers \X Customers
  /\ IsFiniteSet(Erasures) /\ RecordFaults \in Nat

VARIABLES
  contact,     \* contacts: [row, phone, name]: the row, and whether it still has the two
  thread,      \* conversations, named by who started them: whose they are now, {} if deleted
  message,     \* messages: [of, thread, text]
  call,        \* the call with a customer: [turns, summary, structured]
  answers,     \* FAQ entries learnt: [thread, since]
  erasure,     \* requests: [at, status, of, purge, ids, due, overlapped]
  merging,     \* contacts.merge: [at, from, to]
  arriving,    \* handleIncomingMessage: its next step
  teaching,    \* learnFromSupportReply: [at, thread]
  recordFaults

recordVars == <<contact, thread, message, call, answers, erasure, merging, arriving, teaching, recordFaults>>

Written == Customers \cup Arrivals
NoErasure == [at |-> 0, status |-> "NONE", of |-> {}, purge |-> FALSE, ids |-> {},
              due |-> [texts |-> {}, answers |-> {}], overlapped |-> FALSE]

RecordsInit ==
  /\ contact = [c \in Customers |-> [row |-> "live", phone |-> TRUE, name |-> FALSE]]
  /\ thread = [c \in Customers |-> {c}]
  /\ message = [m \in Written |-> IF m \in Customers
                                  THEN [of |-> {m}, thread |-> {m}, text |-> "words"]
                                  ELSE [of |-> {}, thread |-> {}, text |-> "none"]]
  /\ call = [c \in Customers |-> [turns |-> "words", summary |-> TRUE, structured |-> TRUE]]
  /\ answers = [thread : Customers, since : {FALSE}]
  /\ erasure = [e \in Erasures |-> NoErasure]
  /\ merging = [at |-> "idle", from |-> {}, to |-> {}]
  /\ arriving = [m \in Arrivals |-> "idle"]
  /\ teaching = [at |-> "idle", thread |-> {}]
  /\ recordFaults = 0

-----------------------------------------------------------------------------
(* Contacts *)

\* update: only a row that is not deleted.
EditContact(c) ==
  /\ contact[c].row = "live" /\ ~contact[c].name
  /\ contact' = [contact EXCEPT ![c].name = TRUE]
  /\ UNCHANGED <<thread, message, call, answers, erasure, merging, arriving, teaching, recordFaults>>

\* importContacts: found by phone, deleted or not; without one it is a new row.
ImportContact(c) ==
  /\ contact[c].phone /\ ~contact[c].name
  /\ contact' = [contact EXCEPT ![c].name = TRUE]
  /\ UNCHANGED <<thread, message, call, answers, erasure, merging, arriving, teaching, recordFaults>>

\* An erasure of c that is under way.
UnderErasure(c) == {e \in Erasures : erasure[e].at > 0 /\ erasure[e].of = {c}}

\* merge: both are there; the conversations, the messages, then the source.
StartMerge(c, d) ==
  /\ merging.at = "idle" /\ c # d
  /\ contact[c].row = "live" /\ contact[d].row = "live"
  /\ merging' = [at |-> "threads", from |-> {c}, to |-> {d}]
  /\ UNCHANGED <<contact, thread, message, call, answers, erasure, arriving, teaching, recordFaults>>

Merged == [at |-> "done", from |-> {}, to |-> {}]

\* A foreign key: rows cannot move to a contact that has been purged.
MergeMoves(from, to) ==
  \E c \in merging.from, d \in merging.to :
    /\ merging.at = from
    /\ merging' = IF contact[d].row = "gone" THEN Merged ELSE [merging EXCEPT !.at = to]
    /\ erasure' = [e \in Erasures |->
         IF e \in UnderErasure(c) THEN [erasure[e] EXCEPT !.overlapped = TRUE] ELSE erasure[e]]

MoveThreads ==
  /\ MergeMoves("threads", "messages")
  /\ thread' = IF merging'.at = "done" THEN thread
               ELSE [c \in Customers |-> IF thread[c] = merging.from THEN merging.to ELSE thread[c]]
  /\ UNCHANGED <<contact, message, call, answers, arriving, teaching, recordFaults>>

MoveMessages ==
  /\ MergeMoves("messages", "source")
  /\ message' = IF merging'.at = "done" THEN message
                ELSE [m \in Written |-> IF message[m].of = merging.from
                                        THEN [message[m] EXCEPT !.of = merging.to] ELSE message[m]]
  /\ UNCHANGED <<contact, thread, call, answers, arriving, teaching, recordFaults>>

DeleteSource ==
  /\ merging.at = "source" /\ merging' = Merged
  /\ contact' = [c \in Customers |-> IF c \in merging.from /\ contact[c].row # "gone"
                                     THEN [contact[c] EXCEPT !.row = "deleted"] ELSE contact[c]]
  /\ UNCHANGED <<thread, message, call, answers, erasure, arriving, teaching, recordFaults>>

-----------------------------------------------------------------------------
(* Messages go on arriving, answers are learnt *)

\* The contact is found by phone, deleted or not; without one the message is a new customer's.
FindSender(m) ==
  /\ arriving[m] = "idle"
  /\ arriving' = [arriving EXCEPT ![m] = IF contact[m[1]].phone THEN "store" ELSE "done"]
  /\ UNCHANGED <<contact, thread, message, call, answers, erasure, merging, teaching, recordFaults>>

\* The message, in one of the conversations its contact has now; without one, or without the
\* contact, it goes elsewhere.
StoreArrival(m) ==
  /\ arriving[m] = "store" /\ arriving' = [arriving EXCEPT ![m] = "done"]
  /\ LET open == {t \in Customers : thread[t] = {m[1]} /\ contact[m[1]].row # "gone"}
     IN \/ \E t \in open :
             message' = [message EXCEPT ![m] = [of |-> {m[1]}, thread |-> {t}, text |-> "words"]]
        \/ open = {} /\ UNCHANGED message
  /\ UNCHANGED <<contact, thread, call, answers, erasure, merging, teaching, recordFaults>>

\* learnFromSupportReply: the customer's words are read, and come back in an entry.
ReadExchange(t) ==
  /\ teaching.at = "idle" /\ thread[t] # {}
  /\ \E m \in Written : message[m].thread = {t} /\ message[m].text = "words"
  /\ teaching' = [at |-> "keep", thread |-> {t}]
  /\ UNCHANGED <<contact, thread, message, call, answers, erasure, merging, arriving, recordFaults>>

KeepAnswer ==
  /\ teaching.at = "keep" /\ teaching' = [at |-> "done", thread |-> {}]
  /\ answers' = answers \cup [thread : teaching.thread, since : {TRUE}]
  /\ UNCHANGED <<contact, thread, message, call, erasure, merging, arriving, recordFaults>>

-----------------------------------------------------------------------------
(* Erasure *)

\* The steps of tokenize; the ids are read within the statement that deletes by them.
TokenizeSteps == <<"texts", "turns", "call", "ids", "answers", "contact">>

\* The ids looked up once the conversations are gone (a slip ErasedAsPromised must notice).
PurgeThreadsFirst == <<"texts", "turns", "call", "threads", "ids", "answers", "contact">>

\* The steps of purge: the ids first, for the conversations go before the end.
PurgeSteps == <<"ids", "answers", "turns", "texts", "call", "threads", "contact">>

StepsOf(e) == IF erasure[e].purge THEN PurgeSteps ELSE TokenizeSteps

\* eraseContact: the request is on record, the contact is there, merged away or not.
StartErasure(e, c) ==
  /\ erasure[e].status = "NONE"
  /\ \E purge \in BOOLEAN :
       erasure' = [erasure EXCEPT ![e] =
         IF contact[c].row = "gone"
         THEN [NoErasure EXCEPT !.status = "FAILED"]
         ELSE [at |-> 1, status |-> "PROCESSING", of |-> {c}, purge |-> purge, ids |-> {},
               due |-> [texts |-> {m \in Written : message[m].of = {c}},
                        answers |-> {a \in answers : thread[a.thread] = {c}}],
               overlapped |-> FALSE]]
  /\ UNCHANGED <<contact, thread, message, call, answers, merging, arriving, teaching, recordFaults>>

\* With the row of the contact go the conversations that came to it meanwhile.
DropsThreads(e, step) == step = "threads" \/ (step = "contact" /\ erasure[e].purge)

\* The next statement of e, if it is this one; the request is COMPLETED after the last.
EraseStep(e, step) ==
  /\ erasure[e].at > 0 /\ StepsOf(e)[erasure[e].at] = step
  /\ LET after == IF erasure[e].at = Len(StepsOf(e))
                  THEN [erasure[e] EXCEPT !.at = 0, !.status = "COMPLETED", !.ids = {}]
                  ELSE [erasure[e] EXCEPT !.at = @ + 1]
     IN erasure' = [x \in Erasures |->
          IF x # e
          THEN [erasure[x] EXCEPT !.overlapped =
                  (@ \/ (DropsThreads(e, step) /\ erasure[x].at > 0 /\ erasure[x].of = erasure[e].of))]
          ELSE IF step = "ids"
          THEN [after EXCEPT !.ids = {t \in Customers : thread[t] = erasure[e].of}] ELSE after]
  /\ UNCHANGED <<merging, arriving, teaching, recordFaults>>

EraseTexts(e) ==
  /\ EraseStep(e, "texts")
  /\ message' = [m \in Written |->
       IF message[m].of # erasure[e].of THEN message[m]
       ELSE IF erasure[e].purge THEN [of |-> {}, thread |-> {}, text |-> "gone"]
       ELSE [message[m] EXCEPT !.text = "token"]]
  /\ UNCHANGED <<contact, thread, call, answers>>

EraseTurns(e) ==
  /\ EraseStep(e, "turns")
  /\ call' = [c \in Customers |->
       IF c \notin erasure[e].of THEN call[c]
       ELSE [call[c] EXCEPT !.turns = IF erasure[e].purge \/ @ = "gone" THEN "gone" ELSE "token"]]
  /\ UNCHANGED <<contact, thread, message, answers>>

\* `structuredSummary: undefined' leaves that column as it is.
EraseCall(e) ==
  /\ EraseStep(e, "call")
  /\ call' = [c \in Customers |->
       IF c \notin erasure[e].of THEN call[c]
       ELSE IF erasure[e].purge THEN [turns |-> "gone", summary |-> FALSE, structured |-> FALSE]
       ELSE [call[c] EXCEPT !.summary = FALSE]]
  /\ UNCHANGED <<contact, thread, message, answers>>

\* conversationIds.
ReadIds(e) == EraseStep(e, "ids") /\ UNCHANGED <<contact, thread, message, call, answers>>

EraseAnswers(e) ==
  /\ EraseStep(e, "answers")
  /\ answers' = {a \in answers : a.thread \notin erasure[e].ids}
  /\ UNCHANGED <<contact, thread, message, call>>

\* The conversations, and by cascade the messages in them.
DropThreads(which) ==
  /\ thread' = [t \in Customers |-> IF t \in which THEN {} ELSE thread[t]]
  /\ message' = [m \in Written |-> IF message[m].thread \cap which # {}
                                   THEN [of |-> {}, thread |-> {}, text |-> "gone"] ELSE message[m]]

PurgeThreads(e) ==
  /\ EraseStep(e, "threads")
  /\ DropThreads({t \in Customers : thread[t] = erasure[e].of})
  /\ UNCHANGED <<contact, call, answers>>

\* The last: what the row said of the person, or the row with all that hangs on it.
EraseContact(e) ==
  /\ EraseStep(e, "contact")
  /\ contact' = [c \in Customers |->
       IF c \notin erasure[e].of THEN contact[c]
       ELSE [row |-> IF erasure[e].purge \/ contact[c].row = "gone" THEN "gone" ELSE "deleted",
             phone |-> FALSE, name |-> FALSE]]
  /\ IF erasure[e].purge THEN DropThreads({t \in Customers : thread[t] = erasure[e].of})
     ELSE UNCHANGED <<thread, message>>
  /\ UNCHANGED <<call, answers>>

\* A statement fails and the request with it; or the process dies, and it stays PROCESSING.
ErasureStops(e) ==
  /\ erasure[e].at > 0 /\ recordFaults < RecordFaults /\ recordFaults' = recordFaults + 1
  /\ \E status \in {"FAILED", "PROCESSING"} :
       erasure' = [erasure EXCEPT ![e] = [NoErasure EXCEPT !.status = status]]
  /\ UNCHANGED <<contact, thread, message, call, answers, merging, arriving, teaching>>

\* RetentionService.run, once the calls are older than the policy allows.  The raw copies of
\* webhooks it prunes as well are not modelled.
RetentionRun ==
  /\ \E c \in Customers : call[c].turns # "gone"
  /\ call' = [c \in Customers |-> [call[c] EXCEPT !.turns = "gone"]]
  /\ UNCHANGED <<contact, thread, message, answers, erasure, merging, arriving, teaching, recordFaults>>

RecordsNext ==
  \/ \E c \in Customers :
       \/ EditContact(c) \/ ImportContact(c) \/ ReadExchange(c)
       \/ \E e \in Erasures : StartErasure(e, c)
  \/ \E p \in Merges : StartMerge(p[1], p[2])
  \/ MoveThreads \/ MoveMessages \/ DeleteSource
  \/ \E m \in Arrivals : FindSender(m) \/ StoreArrival(m)
  \/ KeepAnswer \/ RetentionRun
  \/ \E e \in Erasures :
       \/ EraseTexts(e) \/ EraseTurns(e) \/ EraseCall(e) \/ ReadIds(e) \/ EraseAnswers(e)
       \/ PurgeThreads(e) \/ EraseContact(e) \/ ErasureStops(e)

RecordsSpec == RecordsInit /\ [][RecordsNext]_recordVars

-----------------------------------------------------------------------------
(* Properties *)

RecordsTypeOK ==
  /\ contact \in [Customers -> [row : {"live", "deleted", "gone"}, phone : BOOLEAN, name : BOOLEAN]]
  /\ thread \in [Customers -> SUBSET Customers]
  /\ message \in [Written -> [of : SUBSET Customers, thread : SUBSET Customers,
                              text : {"none", "words", "token", "gone"}]]
  /\ call \in [Customers -> [turns : {"words", "token", "gone"}, summary : BOOLEAN,
                             structured : BOOLEAN]]
  /\ answers \subseteq [thread : Customers, since : BOOLEAN]
  /\ \A e \in Erasures :
       /\ erasure[e].at \in 0 .. Len(StepsOf(e)) /\ erasure[e].of \subseteq Customers
       /\ erasure[e].status \in {"NONE", "PROCESSING", "COMPLETED", "FAILED"}
       /\ erasure[e].ids \subseteq Customers /\ erasure[e].due.texts \subseteq Written
  /\ merging.at \in {"idle", "threads", "messages", "source", "done"}
  /\ \A m \in Arrivals : arriving[m] \in {"idle", "store", "done"}
  /\ teaching.at \in {"idle", "keep", "done"}
  /\ recordFaults \in 0 .. RecordFaults

\* Whoever was told that a customer's data is erased can rely on it: once a request is COMPLETED
\* nothing of what the customer had when it started is left, not the messages, the transcripts,
\* the summary of the calls, the answers learnt from the conversations or the contact's own
\* data, however messages, edits, imports and the sweep came in between; only a merge that moves
\* the rows meanwhile takes them out of its reach, or another erasure that deletes the
\* conversations the answers are found by (tokenize, purge).
ErasedAsPromised ==
  \A e \in Erasures : erasure[e].status = "COMPLETED" /\ ~erasure[e].overlapped =>
    /\ \A m \in erasure[e].due.texts : message[m].text \in {"token", "gone"}
    /\ answers \cap erasure[e].due.answers = {}
    /\ \A c \in erasure[e].of :
         /\ call[c].turns # "words" /\ ~call[c].summary
         /\ ~contact[c].phone /\ ~contact[c].name
=============================================================================
