-------------------------- MODULE ConversationDesk --------------------------
(***************************************************************************)
(* What the agents of an organization do to its conversations              *)
(* (conversations.controller.ts, conversations.service.ts).  A request is  *)
(* a few statements with no transaction around them; others of the same    *)
(* team, a purge or the removal of a member come in between.  A single       *)
(* request stops at what it does not find, a bulk request leaves it out.   *)
(***************************************************************************)
EXTENDS Naturals, Sequences, FiniteSets

CONSTANTS
  Convs, Members,
  DeskRequests,
  DeskFaults  \* bound: requests that die, conversations purged, members removed

ASSUME DeskAssumption ==
  /\ IsFiniteSet(Convs) /\ IsFiniteSet(Members) /\ IsFiniteSet(DeskRequests) /\ DeskFaults \in Nat

VARIABLES
  conv,       \* conversations: [there, status, assigned]
  active,     \* memberships there are, all of them ACTIVE
  history,    \* assignment_history: <<conversation, member>>
  tagged,     \* conversation_tags of the one tag
  watching,   \* conversation_watchers: <<conversation, member>>
  notes,      \* internal_notes: <<conversation, member>>
  mergeNotes, \* conversation_events: <<kind, conversation, the other>>
  desk,       \* each request: [kind, at, on, who, saw]
  halfDone,   \* history: conversations a bulk assignment reached and could not record
  deskFaults

deskRows == <<conv, history, tagged, watching, notes, mergeNotes>>
deskVars == <<deskRows, active, desk, halfDone, deskFaults>>

NoRequest == [kind |-> "none", at |-> 1, on |-> {}, who |-> {}, saw |-> {}]

DeskInit ==
  /\ conv = [c \in Convs |-> [there |-> TRUE, status |-> "NEW", assigned |-> {}]]
  /\ active = Members
  /\ history = {} /\ tagged = {} /\ watching = {} /\ notes = {} /\ mergeNotes = {}
  /\ desk = [r \in DeskRequests |-> NoRequest]
  /\ halfDone = {}
  /\ deskFaults = 0

There == {c \in Convs : conv[c].there}

\* What a one-statement request makes of the status.
NewStatus == [resolve |-> "RESOLVED", snooze |-> "SNOOZED", unsnooze |-> "OPEN", reopen |-> "OPEN",
              block |-> "SPAM", update |-> "PENDING"]

\* Assigned first, put on record second (a slip AssignmentIsRecorded must notice).
AssignFirst == <<"member", "owned", "write", "record">>

\* assign.
AssignSteps == <<"member", "owned", "record", "write">>

\* bulkAction: the ids are narrowed to the organization's own, then the case.
BulkSteps == [bulkAssign |-> <<"narrow", "member", "write", "record">>,
              bulkClose |-> <<"narrow", "write">>, bulkSnooze |-> <<"narrow", "write">>,
              bulkTag |-> <<"narrow", "look", "tag">>]

\* The others.
StepsFor(kind) ==
  CASE kind \in DOMAIN NewStatus -> <<"write">>
    [] kind \in DOMAIN BulkSteps -> BulkSteps[kind]
    [] kind = "assign" -> AssignSteps
    [] kind = "merge" -> <<"owned", "ownedToo", "write", "mark", "markToo">>
    [] kind \in {"addTag"} -> <<"owned", "tag">>
    [] kind \in {"removeTag"} -> <<"owned", "untag">>
    [] kind \in {"watch"} -> <<"owned", "member", "look", "follow">>
    [] kind \in {"unwatch"} -> <<"owned", "unfollow">>
    [] kind \in {"addNote"} -> <<"owned", "member", "note">>

Singles == DOMAIN NewStatus \cup {"assign", "addTag", "removeTag", "watch", "unwatch", "addNote"}
DeskKinds == Singles \cup DOMAIN BulkSteps \cup {"merge"}

\* The route: one conversation, two to merge, or several, and a member where it takes one.
Request(r, kind, on, who) ==
  /\ desk[r] = NoRequest /\ kind \notin {"none", "done"} /\ Cardinality(who) = 1
  /\ kind \in Singles => Cardinality(on) = 1
  /\ kind = "merge" => Cardinality(on) = 2
  /\ on # {}
  /\ desk' = [desk EXCEPT ![r] = [kind |-> kind, at |-> 1, on |-> on, who |-> who, saw |-> {}]]
  /\ UNCHANGED <<deskRows, active, halfDone, deskFaults>>

AtDesk(r, step) == desk[r].kind # "none" /\ desk[r].kind # "done" /\ StepsFor(desk[r].kind)[desk[r].at] = step
Finished == [NoRequest EXCEPT !.kind = "done"]

\* To the next statement; or, if it may not go on, to the end.
Onward(r, may, saw) ==
  /\ desk' = [desk EXCEPT ![r] =
       IF ~may \/ desk[r].at = Len(StepsFor(desk[r].kind)) THEN Finished
       ELSE [desk[r] EXCEPT !.at = @ + 1, !.saw = saw]]
  /\ UNCHANGED <<active, deskFaults>>

\* merge takes its two conversations in some order: the source is the one written to.
Source(r) == {CHOOSE c \in desk[r].on : TRUE}
Target(r) == desk[r].on \ Source(r)

\* assertOwned.
AssertOwned(r) ==
  /\ \/ AtDesk(r, "owned") /\ Onward(r, (IF desk[r].kind = "merge" THEN Source(r) ELSE desk[r].on) \subseteq There,
                                     desk[r].saw)
     \/ AtDesk(r, "ownedToo") /\ Onward(r, Target(r) \subseteq There, desk[r].saw)
  /\ UNCHANGED <<deskRows, halfDone>>

\* The membership is of the organization, and ACTIVE.
CheckMember(r) ==
  /\ AtDesk(r, "member") /\ Onward(r, desk[r].who \subseteq active, desk[r].saw)
  /\ UNCHANGED <<deskRows, halfDone>>

\* bulkAction narrows the ids; nothing left is a success.
Narrow(r) ==
  /\ AtDesk(r, "narrow")
  /\ desk' = [desk EXCEPT ![r] = IF desk[r].on \cap There = {} THEN Finished
                                 ELSE [desk[r] EXCEPT !.at = @ + 1, !.on = @ \cap There]]
  /\ UNCHANGED <<deskRows, active, halfDone, deskFaults>>

\* The watchers or the tags there are already.
LookFirst(r) ==
  /\ AtDesk(r, "look")
  /\ Onward(r, TRUE, IF desk[r].kind = "watch" THEN {c \in desk[r].on : <<c, CHOOSE w \in desk[r].who : TRUE>> \in watching}
                     ELSE tagged)
  /\ UNCHANGED <<deskRows, halfDone>>

\* scopedUpdate, or updateMany of several: the rows that are there.  The one it must find may
\* be gone, or the member it is to be assigned to: the request then fails.
WriteStatus(r) ==
  /\ AtDesk(r, "write")
  /\ LET kind == desk[r].kind
         assigns == kind \in {"assign", "bulkAssign"}
         found == There \cap (IF kind = "merge" THEN Source(r) ELSE desk[r].on)
         on == IF assigns /\ ~(desk[r].who \subseteq active) THEN {} ELSE found
         status == CASE kind \in DOMAIN NewStatus -> NewStatus[kind]
                     [] assigns -> "OPEN"
                     [] kind \in {"bulkClose", "merge"} -> "RESOLVED"
                     [] OTHER -> "SNOOZED"
     IN /\ Onward(r, on # {} \/ (kind \in DOMAIN BulkSteps /\ on = found), desk[r].saw)
        /\ conv' = [c \in Convs |->
             IF c \notin on THEN conv[c]
             ELSE [conv[c] EXCEPT !.status = status, !.assigned = IF assigns THEN desk[r].who ELSE @]]
  /\ UNCHANGED <<history, tagged, watching, notes, mergeNotes, halfDone>>

\* The rows of assignment_history.  Foreign keys: one conversation that is gone, or the member,
\* fails them all.
RecordAssignment(r) ==
  /\ AtDesk(r, "record")
  /\ LET ok == desk[r].on \subseteq There /\ desk[r].who \subseteq active
     IN /\ Onward(r, ok, desk[r].saw)
        /\ history' = IF ok THEN history \cup (desk[r].on \X desk[r].who) ELSE history
        /\ halfDone' = IF ok THEN halfDone ELSE halfDone \cup desk[r].on
  /\ UNCHANGED <<conv, tagged, watching, notes, mergeNotes>>

\* conversation_tags, conversation_watchers, internal_notes: unique pairs, foreign keys; many at
\* once are one statement, which fails as a whole.
AddTag(r) ==
  /\ AtDesk(r, "tag") /\ Onward(r, TRUE, {})
  /\ LET new == desk[r].on \ desk[r].saw
     IN tagged' = IF new \cap tagged = {} /\ new \subseteq There THEN tagged \cup new ELSE tagged
  /\ UNCHANGED <<conv, history, watching, notes, mergeNotes, halfDone>>

RemoveTag(r) ==
  /\ AtDesk(r, "untag") /\ Onward(r, TRUE, {}) /\ tagged' = tagged \ desk[r].on
  /\ UNCHANGED <<conv, history, watching, notes, mergeNotes, halfDone>>

Watch(r) ==
  /\ AtDesk(r, "follow") /\ Onward(r, TRUE, {})
  /\ watching' = watching \cup (((desk[r].on \ desk[r].saw) \cap There) \X desk[r].who)
  /\ UNCHANGED <<conv, history, tagged, notes, mergeNotes, halfDone>>

Unwatch(r) ==
  /\ AtDesk(r, "unfollow") /\ Onward(r, TRUE, {}) /\ watching' = watching \ (desk[r].on \X desk[r].who)
  /\ UNCHANGED <<conv, history, tagged, notes, mergeNotes, halfDone>>

AddNote(r) ==
  /\ AtDesk(r, "note") /\ Onward(r, TRUE, {})
  /\ notes' = notes \cup ((desk[r].on \cap There) \X (desk[r].who \cap active))
  /\ UNCHANGED <<conv, history, tagged, watching, mergeNotes, halfDone>>

\* merge writes an event on either side; no message moves.
MarkMerge(r) ==
  /\ \/ /\ AtDesk(r, "mark") /\ Onward(r, Source(r) \subseteq There, {})
        /\ mergeNotes' = mergeNotes \cup ({"MERGED"} \X (Source(r) \cap There) \X Target(r))
     \/ /\ AtDesk(r, "markToo") /\ Onward(r, TRUE, {})
        /\ mergeNotes' = mergeNotes \cup ({"MERGED_FROM"} \X (Target(r) \cap There) \X Source(r))
  /\ UNCHANGED <<conv, history, tagged, watching, notes, halfDone>>

-----------------------------------------------------------------------------
(* From outside *)

\* A request dies; a bulk assignment between its two statements leaves a hole.
RequestDies(r) ==
  /\ desk[r].kind \notin {"none", "done"} /\ deskFaults < DeskFaults /\ deskFaults' = deskFaults + 1
  /\ desk' = [desk EXCEPT ![r] = Finished]
  /\ halfDone' = IF desk[r].kind = "bulkAssign" /\ AtDesk(r, "record") THEN halfDone \cup desk[r].on ELSE halfDone
  /\ UNCHANGED <<deskRows, active>>

\* erasure.service.ts purges a conversation, with what hangs on it.
PurgeConversation(c) ==
  /\ conv[c].there /\ deskFaults < DeskFaults /\ deskFaults' = deskFaults + 1
  /\ conv' = [conv EXCEPT ![c] = [there |-> FALSE, status |-> "NEW", assigned |-> {}]]
  /\ history' = {h \in history : h[1] # c} /\ watching' = {w \in watching : w[1] # c}
  /\ tagged' = tagged \ {c} /\ notes' = {n \in notes : n[1] # c}
  /\ mergeNotes' = {e \in mergeNotes : e[2] # c}
  /\ UNCHANGED <<active, desk, halfDone>>

\* removeMember: the database refuses it while the history or a note names the member, and
\* takes the member off the conversations.
RemoveMember(m) ==
  /\ m \in active /\ deskFaults < DeskFaults /\ deskFaults' = deskFaults + 1
  /\ \A row \in history \cup notes : row[2] # m
  /\ active' = active \ {m}
  /\ conv' = [c \in Convs |-> [conv[c] EXCEPT !.assigned = @ \ {m}]]
  /\ UNCHANGED <<history, tagged, watching, notes, mergeNotes, desk, halfDone>>

DeskNext ==
  \/ \E r \in DeskRequests :
       \/ \E on \in SUBSET Convs, m \in Members, kind \in DeskKinds : Request(r, kind, on, {m})
       \/ AssertOwned(r) \/ CheckMember(r) \/ Narrow(r) \/ LookFirst(r) \/ WriteStatus(r)
       \/ RecordAssignment(r) \/ AddTag(r) \/ RemoveTag(r) \/ Watch(r) \/ Unwatch(r) \/ AddNote(r)
       \/ MarkMerge(r) \/ RequestDies(r)
  \/ \E c \in Convs : PurgeConversation(c)
  \/ \E m \in Members : RemoveMember(m)

DeskSpec == DeskInit /\ [][DeskNext]_deskVars

-----------------------------------------------------------------------------
(* Properties *)

DeskTypeOK ==
  /\ conv \in [Convs -> [there : BOOLEAN, assigned : SUBSET Members,
                         status : {"NEW", "OPEN", "PENDING", "RESOLVED", "SNOOZED", "SPAM"}]]
  /\ active \subseteq Members /\ history \subseteq Convs \X Members
  /\ tagged \subseteq Convs /\ watching \subseteq Convs \X Members /\ notes \subseteq Convs \X Members
  /\ mergeNotes \subseteq {"MERGED", "MERGED_FROM"} \X Convs \X Convs
  /\ desk \in [DeskRequests -> [kind : DeskKinds \cup {"none", "done"}, at : 1 .. 5, on : SUBSET Convs,
                               who : SUBSET Members, saw : SUBSET Convs]]
  /\ halfDone \subseteq Convs /\ deskFaults \in 0 .. DeskFaults

\* Whoever a conversation is assigned to is in its assignment history, through single and bulk
\* assignments that overlap, die or lose a conversation on the way; only a bulk assignment, which
\* writes the history last, is ahead of it, for one statement or, if it stops there, for good.
AssignmentIsRecorded ==
  \A c \in Convs, m \in Members :
    m \in conv[c].assigned =>
      \/ <<c, m>> \in history
      \/ c \in halfDone
      \/ \E r \in DeskRequests : desk[r].kind = "bulkAssign" /\ AtDesk(r, "record") /\ c \in desk[r].on
=============================================================================
