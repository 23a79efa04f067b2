----------------------------- MODULE RoleGrants -----------------------------
(***************************************************************************)
(* Who may do what: the catalogue of permissions, the roles of the system  *)
(* and of an organization, and their grants.  An organization's team edits *)
(* its own roles (organizations.service.ts); the scripts of a deployment   *)
(* (sync-permissions.ts, seed.ts, bootstrap-marketing.ts) bring the system *)
(* roles up to the map in packages/permissions.  Neither has transactions, *)
(* and two deployments, or two people, may be at it at once.               *)
(***************************************************************************)
EXTENDS Naturals, FiniteSets

CONSTANTS
  Codes,         \* PERMISSIONS
  OldCodes,      \* those an earlier version has put into the catalogue
  RoleRows,      \* rows of roles
  AgentRow, TeamRow, \* a system role of the earlier version, and one of the organization
  RoleActors,    \* requests and scripts
  RoleFaults     \* bound: actors that die

ASSUME RolesAssumption ==
  /\ IsFiniteSet(Codes) /\ OldCodes \subseteq Codes /\ {AgentRow, TeamRow} \subseteq RoleRows /\ AgentRow # TeamRow
  /\ IsFiniteSet(RoleRows) /\ IsFiniteSet(RoleActors) /\ RoleFaults \in Nat
  /\ {"SUPER", "AGENT"} \cap RoleRows = {}  \* a list holds names and rows

VARIABLES
  catalogue,  \* permissions
  role,       \* roles: [name, own: of the organization, system]
  granted,    \* role_permissions: <<role, code>>
  holder,     \* the role of a membership; empty once it is removed
  actor,      \* each actor: [kind, at, todo, row, list]
  edited,     \* history: the list an organization's role was last given
  torn,       \* history: roles whose edit died half way, or overlapped another
  twins,      \* history: two scripts looked for a role at a time
  done,       \* history: kinds of scripts that came to their end
  roleFaults

roleVars == <<catalogue, role, granted, holder, actor, edited, torn, twins, done, roleFaults>>

NoRole == [name |-> "none", own |-> FALSE, system |-> FALSE]
Resting == [kind |-> "none", at |-> "end", todo |-> {}, row |-> {}, list |-> {}]

\* ROLE_PERMISSIONS: the platform's owner may do everything, the others what is new.
MapGrants(name) == IF name = "SUPER" THEN Codes ELSE Codes \ OldCodes
SystemNames == {"SUPER", "AGENT"}

RolesInit ==
  /\ catalogue = OldCodes
  /\ role = [r \in RoleRows |-> CASE r = AgentRow -> [name |-> "AGENT", own |-> FALSE, system |-> TRUE]
                                  [] r = TeamRow -> [name |-> "TEAM", own |-> TRUE, system |-> FALSE]
                                  [] OTHER -> NoRole]
  /\ granted = {AgentRow, TeamRow} \X OldCodes /\ holder = {TeamRow}
  /\ actor = [a \in RoleActors |-> Resting]
  /\ edited = [r \in RoleRows |-> IF r = TeamRow THEN OldCodes ELSE {}]
  /\ torn = {} /\ twins = FALSE /\ done = {} /\ roleFaults = 0

GrantsOf(r) == {c \in Codes : <<r, c>> \in granted}
Global(name) == {r \in RoleRows : role[r].name = name /\ ~role[r].own}
ActorAt(a, kind, at) == actor[a].kind = kind /\ actor[a].at = at
Ends(a) == actor' = [actor EXCEPT ![a] = [Resting EXCEPT !.kind = "done"]]
ActorGoes(a, at, todo, row) == actor' = [actor EXCEPT ![a].at = at, ![a].todo = todo, ![a].row = row]

Scripts == {"sync", "revoke", "seed", "bootstrap"}
Scripting(a) == actor[a].kind \in Scripts

-----------------------------------------------------------------------------
(* The organization's own roles *)

\* createRole: the name may not be the platform owner's; the role first, its grants second.
CreateRole(a, r, list) ==
  /\ actor[a] = Resting /\ role[r] = NoRole
  /\ role' = [role EXCEPT ![r] = [name |-> "TEAM2", own |-> TRUE, system |-> FALSE]]
  /\ edited' = [edited EXCEPT ![r] = list]
  /\ IF list = {} THEN Ends(a)
     ELSE actor' = [actor EXCEPT ![a] = [Resting EXCEPT !.kind = "edit", !.at = "grant", !.row = {r}, !.list = list]]
  /\ \A q \in RoleRows : role[q].name # "TEAM2"  \* unique in the organization
  /\ UNCHANGED <<catalogue, granted, holder, torn, twins, done, roleFaults>>

\* updateRole finds a role of its own.
UpdateRole(a, r, list) ==
  /\ actor[a] = Resting /\ role[r].own
  /\ actor' = [actor EXCEPT ![a] = [Resting EXCEPT !.kind = "edit", !.at = "clear", !.row = {r}, !.list = list]]
  /\ torn' = IF \E b \in RoleActors : actor[b].kind = "edit" /\ actor[b].row = {r} THEN torn \cup {r} ELSE torn
  /\ UNCHANGED <<catalogue, role, granted, holder, edited, twins, done, roleFaults>>

\* The old grants stay (a slip AccountsHold must notice).
LeaveGrants(a, r) == ActorAt(a, "edit", "clear") /\ UNCHANGED granted

\* rolePermission.deleteMany.
ClearGrants(a, r) == ActorAt(a, "edit", "clear") /\ granted' = granted \ ({r} \X Codes)

EditClears(a, r) ==
  /\ actor[a].row = {r} /\ ClearGrants(a, r) /\ ActorGoes(a, "grant", {}, {r})
  /\ UNCHANGED <<catalogue, role, holder, edited, torn, twins, done, roleFaults>>

\* createMany: a pair there is already, or a code there is not, fails the whole statement.
GrantList(a, r) ==
  /\ ActorAt(a, "edit", "grant") /\ actor[a].row = {r} /\ Ends(a)
  /\ LET ok == actor[a].list \subseteq catalogue /\ actor[a].list \cap GrantsOf(r) = {}
     IN /\ granted' = IF ok THEN granted \cup ({r} \X actor[a].list) ELSE granted
        /\ torn' = IF ok THEN torn ELSE torn \cup {r}
  /\ edited' = [edited EXCEPT ![r] = actor[a].list]
  /\ UNCHANGED <<catalogue, role, holder, twins, done, roleFaults>>

\* assertAssignableRole, updateMemberRole: a role of its own, or one of the shared ones.
UpdateMemberRole(a, r) ==
  /\ \/ /\ actor[a] = Resting /\ role[r] # NoRole
        /\ IF role[r].name # "SUPER" /\ (role[r].own \/ role[r].system)
           THEN actor' = [actor EXCEPT ![a] = [Resting EXCEPT !.kind = "assign", !.row = {r}]] ELSE Ends(a)
        /\ UNCHANGED holder
     \/ /\ actor[a].kind = "assign" /\ actor[a].row = {r} /\ Ends(a)
        /\ holder' = IF holder = {} THEN {} ELSE {r}
  /\ UNCHANGED <<catalogue, role, granted, edited, torn, twins, done, roleFaults>>

EndMembership(a) ==
  /\ actor[a] = Resting /\ Ends(a) /\ holder' = {}
  /\ UNCHANGED <<catalogue, role, granted, edited, torn, twins, done, roleFaults>>

-----------------------------------------------------------------------------
(* The scripts *)

\* seed upserts its own list of codes first; the others begin with the catalogue.  bootstrap
\* reads the owner's memberships first of all.
StartScript(a, kind) ==
  /\ actor[a] = Resting /\ kind \in Scripts
  /\ actor' = [actor EXCEPT ![a] = [kind |-> kind, at |-> "codes", todo |-> Codes,
                                    row |-> IF kind = "bootstrap" THEN holder ELSE {}, list |-> {}]]
  /\ catalogue' = IF kind = "seed" THEN catalogue \cup OldCodes ELSE catalogue
  /\ UNCHANGED <<role, granted, holder, edited, torn, twins, done, roleFaults>>

\* One code after the other: looked for, and created.  The unique code lets one of two create it.
LookForCode(a) ==
  /\ Scripting(a) /\ actor[a].at = "codes"
  /\ IF actor[a].todo \subseteq catalogue
     THEN actor' = [actor EXCEPT ![a].at = "roles", ![a].todo = SystemNames]
     ELSE \E c \in actor[a].todo \ catalogue : ActorGoes(a, "create", {c}, actor[a].row)
  /\ UNCHANGED <<catalogue, role, granted, holder, edited, torn, twins, done, roleFaults>>

CreateCode(a) ==
  /\ Scripting(a) /\ actor[a].at = "create"
  /\ catalogue' = catalogue \cup actor[a].todo
  /\ IF actor[a].todo \cap catalogue = {} THEN ActorGoes(a, "codes", Codes, actor[a].row) ELSE Ends(a)
  /\ UNCHANGED <<role, granted, holder, edited, torn, twins, done, roleFaults>>

\* findFirst by name and no organization; bootstrap turns to the platform owner's role last.
\* seed finds the roles again after the sync, to grant what the sync has granted already.
LookForRole(a, name) ==
  /\ Scripting(a) /\ actor[a].at = "roles" /\ name \in actor[a].todo
  /\ actor[a].kind = "bootstrap" /\ name = "SUPER" => actor[a].todo = {"SUPER"}
  /\ \/ \E r \in Global(name) : actor' = [actor EXCEPT ![a].at = "held", ![a].list = {name, r}]
     \/ Global(name) = {} /\ actor' = [actor EXCEPT ![a].at = "make", ![a].list = {name}]
  /\ twins' = (twins \/ \E b \in RoleActors : b # a /\ actor[b].at = "make" /\ Global(name) = {})
  /\ UNCHANGED <<catalogue, role, granted, holder, edited, torn, done, roleFaults>>

\* No constraint holds two global roles of a name apart.
CreateSystemRole(a, r) ==
  /\ Scripting(a) /\ actor[a].at = "make" /\ role[r] = NoRole
  /\ \E name \in SystemNames \cap actor[a].list :
       /\ role' = [role EXCEPT ![r] = [name |-> name, own |-> FALSE, system |-> TRUE]]
       /\ actor' = [actor EXCEPT ![a].at = "held", ![a].list = {name, r}]
  /\ UNCHANGED <<catalogue, granted, holder, edited, torn, twins, done, roleFaults>>

\* What the role holds is read, then what it lacks is added, skipping duplicates; what the map
\* does not grant is removed only when that is asked for.
Reconcile(a) ==
  /\ Scripting(a)
  /\ \E name \in SystemNames \cap actor[a].list, r \in RoleRows \cap actor[a].list :
       LET wanted == MapGrants(name) \cap catalogue
       IN \/ /\ actor[a].at = "held"
             /\ granted' = granted \cup ({r} \X wanted)
             /\ actor' = [actor EXCEPT ![a].at = IF actor[a].kind = "revoke" THEN "stale" ELSE "next"]
          \/ /\ actor[a].at = "stale" /\ granted' = granted \ ({r} \X (Codes \ wanted))
             /\ actor' = [actor EXCEPT ![a].at = "next"]
  /\ UNCHANGED <<catalogue, role, holder, edited, torn, twins, done, roleFaults>>

\* The next role, or the end: bootstrap gives the owner's membership the platform's role, if the
\* membership it read is still there.
NextRole(a) ==
  /\ Scripting(a) /\ actor[a].at = "next"
  /\ LET left == actor[a].todo \ actor[a].list
     IN IF left # {}
        THEN actor' = [actor EXCEPT ![a].at = "roles", ![a].todo = left, ![a].list = {}] /\ UNCHANGED <<holder, done>>
        ELSE /\ Ends(a) /\ done' = done \cup {actor[a].kind}
             /\ holder' = IF actor[a].kind = "bootstrap" /\ actor[a].row # {} /\ holder # {}
                          THEN RoleRows \cap actor[a].list ELSE holder
  /\ UNCHANGED <<catalogue, role, granted, edited, torn, twins, roleFaults>>

ActorDies(a) ==
  /\ actor[a].kind \notin {"none", "done"} /\ roleFaults < RoleFaults /\ roleFaults' = roleFaults + 1 /\ Ends(a)
  /\ torn' = IF actor[a].kind = "edit" THEN torn \cup actor[a].row ELSE torn
  /\ UNCHANGED <<catalogue, role, granted, holder, edited, twins, done>>

RolesNext ==
  \E a \in RoleActors :
    \/ \E r \in RoleRows :
         \/ \E list \in SUBSET Codes : CreateRole(a, r, list) \/ UpdateRole(a, r, list)
         \/ EditClears(a, r) \/ GrantList(a, r) \/ UpdateMemberRole(a, r) \/ CreateSystemRole(a, r)
    \/ EndMembership(a) \/ LookForCode(a) \/ CreateCode(a) \/ Reconcile(a) \/ NextRole(a) \/ ActorDies(a)
    \/ \E kind \in Scripts : StartScript(a, kind)
    \/ \E name \in SystemNames : LookForRole(a, name)

RolesSpec == RolesInit /\ [][RolesNext]_roleVars

-----------------------------------------------------------------------------
(* Properties *)

RolesTypeOK ==
  /\ catalogue \subseteq Codes /\ granted \subseteq RoleRows \X Codes /\ holder \subseteq RoleRows
  /\ role \in [RoleRows -> [name : SystemNames \cup {"none", "TEAM", "TEAM2"}, own : BOOLEAN, system : BOOLEAN]]
  /\ \A a \in RoleActors : actor[a].row \subseteq RoleRows
  /\ edited \in [RoleRows -> SUBSET Codes] /\ torn \subseteq RoleRows /\ twins \in BOOLEAN /\ done \subseteq Scripts
  /\ roleFaults \in 0 .. RoleFaults

\* An organization's role holds the list of its last edit, whatever scripts run, unless an edit
\* is under way or broke off, or two overlapped.
TeamRolesAreTheirs ==
  \A r \in RoleRows :
    role[r].own => \/ GrantsOf(r) = edited[r]
                   \/ r \in torn
                   \/ \E a \in RoleActors : actor[a].kind = "edit" /\ actor[a].row = {r}

\* Once a script has come to its end, the system roles may do what the map says, one row each
\* unless two scripts looked for a missing role at once; nothing is revoked unasked.
SystemRolesAreMapped ==
  /\ done \cap {"sync", "revoke", "seed"} # {} =>
       \A name \in SystemNames : \E r \in Global(name) : MapGrants(name) \subseteq GrantsOf(r)
  /\ ~twins => \A name \in SystemNames : Cardinality(Global(name)) <= 1
  /\ (\A a \in RoleActors : actor[a].kind # "revoke") /\ "revoke" \notin done /\ roleFaults = 0 =>
       {AgentRow} \X OldCodes \subseteq granted

\* Edits and deployments, overlapping and dying, leave a team's roles as the team last set them
\* and the system's roles at least what the map grants; and only bootstrap appoints the owner.
RolesHold ==
  /\ TeamRolesAreTheirs /\ SystemRolesAreMapped
  /\ \A r \in holder : role[r].name = "SUPER" => "bootstrap" \in done
=============================================================================
