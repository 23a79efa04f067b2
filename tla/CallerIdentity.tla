--------------------------- MODULE CallerIdentity ---------------------------
(***************************************************************************)
(* One customer across calls, campaigns and WhatsApp                       *)
(* (caller-identity.service.ts, marketing-send.service.ts,                 *)
(* webhooks.service.ts): contacts are found by the loose form of a number  *)
(* and leads by the strict one (packages/shared/src/utils.ts), and each    *)
(* channel creates what it does not find.  The unique rows are what keeps  *)
(* two handlers from creating it twice.                                    *)
(***************************************************************************)
EXTENDS Naturals, FiniteSets

CONSTANTS
  Callers,        \* calls, each from one number
  CampaignTexts,          \* texts of campaigns, one recipient each
  Chats,          \* messages on WhatsApp
  Arriving,       \* how the networks write the number, in calls and in messages
  HistoryLimit,   \* entries of a timeline: 50 in the code
  IdentityFaults  \* bound: statements that fail

ASSUME IdentityAssumption ==
  HistoryLimit \in Nat \ {0} /\ IdentityFaults \in Nat /\ Arriving \in {"05x", "+9665x"}

-----------------------------------------------------------------------------
(* Numbers.  One customer's mobile as a sheet has it and as the networks   *)
(* give it, and a caller who withholds the number.                          *)

Writings == {"05x", "+9665x", "withheld"}

\* normalizePhone: digits without one leading zero.
LooseKey == [w \in Writings |-> CASE w = "05x" -> "5x" [] w = "+9665x" -> "9665x" [] OTHER -> ""]

\* normalizePhoneStrict: "" is what is not given, and what no lead is found by.
StrictKey == [w \in Writings |-> IF w = "withheld" THEN "" ELSE "9665x"]

Keys == {LooseKey[w] : w \in Writings}
NoContact == "none"

VARIABLES
  contacts,      \* the loose keys that have a contact
  customerLead,  \* the customer's lead: [there, written, contact]
  caller,        \* each call: [at, as, contact, lead, linked, known, made]
  text,          \* each text: [at, contact, linked]
  chat,          \* each message: [at, contact]
  filed,         \* rows of the timeline: [kind, whose, who, at, updated]
  now,           \* number of rows so far
  identityFaults

identityVars == <<contacts, customerLead, caller, text, chat, filed, now, identityFaults>>

NotCalled == [at |-> "idle", as |-> "withheld", contact |-> FALSE, lead |-> FALSE, linked |-> NoContact,
              known |-> FALSE, made |-> {}]
Unlinked == [there |-> FALSE, written |-> "05x", contact |-> NoContact]
CallSteps == {"idle", "lead", "createContact", "createLead", "link", "file", "done", "failed"}

IdentityTypeOK ==
  /\ contacts \subseteq Keys
  /\ customerLead \in [there : BOOLEAN, written : Writings, contact : Keys \cup {NoContact}]
  /\ caller \in [Callers -> [at : CallSteps, as : Writings, contact : BOOLEAN, lead : BOOLEAN,
                             linked : Keys \cup {NoContact}, known : BOOLEAN,
                             made : SUBSET {"contact", "lead"}]]
  /\ text \in [CampaignTexts -> [at : {"idle", "create", "link", "sent", "failed"},
                               contact : Keys \cup {NoContact},
                               linked : Keys \cup {NoContact}]]
  /\ chat \in [Chats -> {"idle", "create", "file", "filed", "failed"}]
  /\ \A row \in filed : row.at \in 1..now /\ row.updated \in 1..now
  /\ identityFaults \in 0..IdentityFaults

IdentityInit ==
  /\ contacts = {} /\ customerLead = Unlinked
  /\ caller = [c \in Callers |-> NotCalled]
  /\ text = [t \in CampaignTexts |-> [at |-> "idle", contact |-> NoContact, linked |-> NoContact]]
  /\ chat = [m \in Chats |-> "idle"]
  /\ filed = {} /\ now = 0 /\ identityFaults = 0

CallStep(c, from, to, what) ==
  caller[c].at = from /\ caller' = [caller EXCEPT ![c] = [what EXCEPT !.at = to]]
TextStep(t, from, to) == text[t].at = from /\ text' = [text EXCEPT ![t].at = to]
ChatStep(m, from, to) == chat[m] = from /\ chat' = [chat EXCEPT ![m] = to]

\* A row in the history of a contact, or, for a campaign, of the lead.
File(kind, whose, who) ==
  /\ now' = now + 1
  /\ filed' = filed \cup {[kind |-> kind, whose |-> whose, who |-> who, at |-> now + 1, updated |-> now + 1]}

-----------------------------------------------------------------------------
(* Leads come from a sheet or a search, with no contact yet.               *)

ImportLead ==
  /\ ~customerLead.there
  /\ \E w \in Writings \ {"withheld"} : customerLead' = [there |-> TRUE, written |-> w, contact |-> NoContact]
  /\ UNCHANGED <<contacts, caller, text, chat, filed, now, identityFaults>>

-----------------------------------------------------------------------------
(* A call: resolve, with createIfMissing                                   *)

FindCallContact(c) ==
  /\ \E w \in {Arriving, "withheld"} :
       CallStep(c, "idle", "lead", [caller[c] EXCEPT !.as = w, !.contact = LooseKey[w] \in contacts])
  /\ UNCHANGED <<contacts, customerLead, text, chat, filed, now, identityFaults>>

FindLead(c) ==
  LET found == StrictKey[caller[c].as] # "" /\ customerLead.there IN
  /\ CallStep(c, "lead", IF caller[c].contact THEN "createLead" ELSE "createContact",
              [caller[c] EXCEPT !.lead = found, !.linked = IF found THEN customerLead.contact ELSE NoContact,
                                !.known = caller[c].contact \/ found])
  /\ UNCHANGED <<contacts, customerLead, text, chat, filed, now, identityFaults>>

\* The unique row refuses a second contact, and the call with it.
CreateCallContact(c) ==
  LET key == LooseKey[caller[c].as]
      free == key \notin contacts
  IN
  /\ CallStep(c, "createContact", IF free THEN "createLead" ELSE "failed",
              [caller[c] EXCEPT !.made = @ \cup IF free THEN {"contact"} ELSE {}])
  /\ contacts' = contacts \cup {key}
  /\ UNCHANGED <<customerLead, text, chat, filed, now, identityFaults>>

\* A lead that was found is kept; one is created, with its first transition, for any number.
CreateCallLead(c) ==
  LET me == caller[c]
      needed == ~me.lead /\ StrictKey[me.as] # ""
      key == LooseKey[me.as]
  IN
  /\ \/ ~needed /\ CallStep(c, "createLead", "link", me) /\ UNCHANGED customerLead
     \/ needed /\ customerLead.there /\ CallStep(c, "createLead", "failed", me) /\ UNCHANGED customerLead
     \/ /\ needed /\ ~customerLead.there
        /\ CallStep(c, "createLead", "link", [me EXCEPT !.linked = key, !.made = @ \cup {"lead"}])
        /\ customerLead' = [there |-> TRUE, written |-> me.as, contact |-> key]
  /\ UNCHANGED <<contacts, text, chat, filed, now, identityFaults>>

\* Linked if the row as it was read is linked otherwise.
LinkLead(c) ==
  LET me == caller[c]
      key == LooseKey[me.as]
      changes == StrictKey[me.as] # "" /\ me.linked # key
  IN
  /\ CallStep(c, "link", "file", me)
  /\ customerLead' = IF changes THEN [customerLead EXCEPT !.contact = key] ELSE customerLead
  /\ UNCHANGED <<contacts, text, chat, filed, now, identityFaults>>

\* A failure to link is swallowed.
LinkFails(c) ==
  /\ CallStep(c, "link", "file", caller[c])
  /\ identityFaults < IdentityFaults /\ identityFaults' = identityFaults + 1
  /\ UNCHANGED <<contacts, customerLead, text, chat, filed, now>>

FileCall(c) ==
  /\ CallStep(c, "file", "done", caller[c])
  /\ File("CALL", LooseKey[caller[c].as], c)
  /\ UNCHANGED <<contacts, customerLead, text, chat, identityFaults>>

\* Any other statement that fails ends the call; a lead may be there without its transition.
ResolveFails(c) ==
  /\ \E from \in {"lead", "createContact", "createLead", "file"} : CallStep(c, from, "failed", caller[c])
  /\ identityFaults < IdentityFaults /\ identityFaults' = identityFaults + 1
  /\ UNCHANGED <<contacts, customerLead, text, chat, filed, now>>

-----------------------------------------------------------------------------
(* A campaign's text, past its claim (the claim is in Campaign)            *)

FindTextContact(t) ==
  /\ customerLead.there /\ text[t].at = "idle"
  /\ LET key == LooseKey[customerLead.written] IN
       text' = [text EXCEPT ![t] = [at |-> IF key \in contacts THEN "link" ELSE "create",
                                    contact |-> key, linked |-> customerLead.contact]]
  /\ UNCHANGED <<contacts, customerLead, caller, chat, filed, now, identityFaults>>

CreateTextContact(t) ==
  /\ TextStep(t, "create", IF text[t].contact \in contacts THEN "failed" ELSE "link")
  /\ contacts' = contacts \cup {text[t].contact}
  /\ UNCHANGED <<customerLead, caller, chat, filed, now, identityFaults>>

\* Past the gate, which may also turn it away: linked, and sent.
LinkTextLead(t) ==
  /\ TextStep(t, "link", "sent")
  /\ customerLead' = IF text[t].linked = text[t].contact THEN customerLead
                     ELSE [customerLead EXCEPT !.contact = text[t].contact]
  /\ File("CAMPAIGN", "lead", t)
  /\ UNCHANGED <<contacts, caller, chat, identityFaults>>

TextTurnedAway(t) ==
  /\ TextStep(t, "link", "failed")
  /\ UNCHANGED <<contacts, customerLead, caller, chat, filed, now, identityFaults>>

\* The recipient's row is written again when the customer replies.
UpdateRecipient(t) ==
  /\ \E row \in filed :
       /\ row.who = t /\ row.updated = row.at
       /\ now' = now + 1 /\ filed' = (filed \ {row}) \cup {[row EXCEPT !.updated = now + 1]}
  /\ UNCHANGED <<contacts, customerLead, caller, text, chat, identityFaults>>

-----------------------------------------------------------------------------
(* A message on WhatsApp                                                    *)

FindChatContact(m) ==
  /\ ChatStep(m, "idle", IF LooseKey[Arriving] \in contacts THEN "file" ELSE "create")
  /\ UNCHANGED <<contacts, customerLead, caller, text, filed, now, identityFaults>>

CreateChatContact(m) ==
  /\ ChatStep(m, "create", IF LooseKey[Arriving] \in contacts THEN "failed" ELSE "file")
  /\ contacts' = contacts \cup {LooseKey[Arriving]}
  /\ UNCHANGED <<customerLead, caller, text, filed, now, identityFaults>>

FileChat(m) ==
  /\ ChatStep(m, "file", "filed")
  /\ File("MESSAGE", LooseKey[Arriving], m)
  /\ UNCHANGED <<contacts, customerLead, caller, text, identityFaults>>

IdentityNext ==
  \/ ImportLead
  \/ \E c \in Callers :
       \/ FindCallContact(c) \/ FindLead(c) \/ CreateCallContact(c) \/ CreateCallLead(c)
       \/ LinkLead(c) \/ LinkFails(c) \/ FileCall(c) \/ ResolveFails(c)
  \/ \E t \in CampaignTexts :
       \/ FindTextContact(t) \/ CreateTextContact(t) \/ LinkTextLead(t) \/ TextTurnedAway(t)
       \/ UpdateRecipient(t)
  \/ \E m \in Chats : FindChatContact(m) \/ CreateChatContact(m) \/ FileChat(m)

IdentitySpec == IdentityInit /\ [][IdentityNext]_identityVars

-----------------------------------------------------------------------------
(* The timeline of a contact: the newest rows of each kind, and of those   *)
(* the newest.  Recipients are chosen by their last change and shown at    *)
(* the time they were sent to.                                              *)

MostRecent(rows, time) ==
  {row \in rows : Cardinality({other \in rows : time[other] > time[row]}) < HistoryLimit}

SentAt == [row \in filed |-> row.at]
UpdatedAt == [row \in filed |-> row.updated]

TimelineRows(contact, kind) ==
  {row \in filed : row.kind = kind /\ row.whose = contact}

LeadRows(contact) == {row \in filed : row.kind = "CAMPAIGN" /\ customerLead.contact = contact}

Timeline(contact) ==
  MostRecent(MostRecent(TimelineRows(contact, "MESSAGE"), SentAt) \cup MostRecent(TimelineRows(contact, "CALL"), SentAt)
           \cup MostRecent(LeadRows(contact), UpdatedAt),
         SentAt)

-----------------------------------------------------------------------------
(* Who is taken for a new customer is one: the call has made the contact   *)
(* and, where the number is given, the lead, and no other channel has.      *)
NewIsNew ==
  \A c \in Callers :
    caller[c].at = "done" /\ ~caller[c].known =>
      caller[c].made = {"contact"} \cup IF StrictKey[caller[c].as] = "" THEN {} ELSE {"lead"}

(* A lead is linked to a contact of the lead's own number.                  *)
LinkedToItsNumber ==
  customerLead.contact # NoContact =>
    /\ customerLead.contact \in contacts
    /\ \E w \in Writings : LooseKey[w] = customerLead.contact /\ StrictKey[w] # ""

(* A customer whose number the sheet writes as the networks do has one      *)
(* contact, and once a call or a text is through, the lead is linked to it: *)
(* that is what keeps one history (caller-identity.service.ts:19-26).       *)
OneCustomer ==
  customerLead.there /\ customerLead.written = Arriving =>
    /\ contacts \subseteq {LooseKey[Arriving], ""}
    /\ identityFaults = 0 /\ ((\E c \in Callers : caller[c].at = "done" /\ caller[c].as = Arriving)
                                \/ \E t \in CampaignTexts : text[t].at = "sent")
         => customerLead.contact = LooseKey[Arriving]

(* No message and no call is left out of a timeline that shows an older     *)
(* row.                                                                     *)
TimelineIsNewest ==
  \A contact \in contacts :
    LET shown == Timeline(contact) IN
    \A row \in (TimelineRows(contact, "MESSAGE") \cup TimelineRows(contact, "CALL")) \ shown :
      \A other \in shown : other.at > row.at

IdentityHolds == NewIsNew /\ LinkedToItsNumber /\ OneCustomer /\ TimelineIsNewest
=============================================================================
