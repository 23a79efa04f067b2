--------------------------- MODULE AccountOpening ---------------------------
(***************************************************************************)
(* How an account comes to be, with its organization: registered by its    *)
(* owner, in statements of their own (auth.service.ts), or opened for a    *)
(* customer by the platform's owner, in a transaction                      *)
(* (platform.service.ts).  Openings run at the same time, and the roles of *)
(* the system may not be seeded yet.                                       *)
(***************************************************************************)
EXTENDS Naturals, FiniteSets

CONSTANTS
  Openings,      \* requests; each names its account and its organization
  Spellings,     \* ways to write the address of one mailbox
  PlainSpelling, \* in lower case
  OpeningFaults  \* bound: statements that fail, or processes that die

ASSUME OpeningAssumption ==
  IsFiniteSet(Openings) /\ PlainSpelling \in Spellings /\ OpeningFaults \in Nat

VARIABLES
  accounts,      \* users: [by, email]
  organizations, \* organizations, named by the opening
  memberships,   \* the openings whose account owns their organization
  trials,        \* organizations with a subscription in its trial
  signedUp,      \* openings answered with a session or a customer
  opening,       \* each opening: [at, email, trial]
  ownerRole,     \* the role ORGANIZATION_OWNER is there
  plan,          \* a plan is offered
  roleless,      \* history: registrations that found no owner's role
  openingFaults

accountRows == <<accounts, organizations, memberships, trials>>
openingVars == <<accountRows, signedUp, opening, ownerRole, plan, roleless, openingFaults>>

OpeningInit ==
  /\ accounts = {} /\ organizations = {} /\ memberships = {} /\ trials = {} /\ signedUp = {}
  /\ opening = [r \in Openings |-> [at |-> "idle", email |-> PlainSpelling, trial |-> FALSE]]
  /\ ownerRole = FALSE /\ plan = FALSE /\ roleless = {} /\ openingFaults = 0

OpeningAt(r, step) == opening[r].at = step
OpeningGoes(r, step) == opening' = [opening EXCEPT ![r].at = step]
EmailTaken(email) == \E a \in accounts : a.email = email

-----------------------------------------------------------------------------
(* register *)

\* The address is looked for as it was typed; the password is hashed.
RegisterOwner(r, email) ==
  /\ OpeningAt(r, "idle")
  /\ opening' = [opening EXCEPT ![r].email = email, ![r].at = IF EmailTaken(email) THEN "refused" ELSE "user"]
  /\ UNCHANGED <<accountRows, signedUp, ownerRole, plan, roleless, openingFaults>>

\* users.email is unique: the second of two at once fails here.
CreateUser(r) ==
  /\ OpeningAt(r, "user")
  /\ OpeningGoes(r, IF EmailTaken(opening[r].email) THEN "refused" ELSE "organization")
  /\ accounts' = IF EmailTaken(opening[r].email) THEN accounts
                 ELSE accounts \cup {[by |-> r, email |-> opening[r].email]}
  /\ UNCHANGED <<organizations, memberships, trials, signedUp, ownerRole, plan, roleless, openingFaults>>

CreateOrganization(r) ==
  /\ OpeningAt(r, "organization") /\ OpeningGoes(r, "membership")
  /\ organizations' = organizations \cup {r}
  /\ UNCHANGED <<accounts, memberships, trials, signedUp, ownerRole, plan, roleless, openingFaults>>

\* The owner's role is looked up; without it there is no membership.
CreateMembership(r) ==
  /\ OpeningAt(r, "membership") /\ OpeningGoes(r, "session")
  /\ memberships' = IF ownerRole THEN memberships \cup {r} ELSE memberships
  /\ roleless' = IF ownerRole THEN roleless ELSE roleless \cup {r}
  /\ UNCHANGED <<accounts, organizations, trials, signedUp, ownerRole, plan, openingFaults>>

OwnerSession(r) ==
  /\ OpeningAt(r, "session") /\ OpeningGoes(r, "registered")
  /\ signedUp' = signedUp \cup {r}
  /\ UNCHANGED <<accountRows, ownerRole, plan, roleless, openingFaults>>
-----------------------------------------------------------------------------
(* createCustomer *)

\* The address as it is stored and looked for.
CustomerEmail(email) == PlainSpelling

\* Nothing is written without the owner's role; the first plan on offer is read.
CreateCustomer(r, email) ==
  LET stored == CustomerEmail(email) IN
  /\ OpeningAt(r, "idle")
  /\ opening' = [opening EXCEPT ![r] =
       [at |-> IF EmailTaken(stored) \/ ~ownerRole THEN "refused" ELSE "transaction",
        email |-> stored, trial |-> plan]]
  /\ UNCHANGED <<accountRows, signedUp, ownerRole, plan, roleless, openingFaults>>

\* One transaction: the account, its organization, the membership and the trial, or nothing.
OpenCustomer(r) ==
  /\ OpeningAt(r, "transaction")
  /\ IF EmailTaken(opening[r].email)
     THEN OpeningGoes(r, "refused") /\ UNCHANGED <<accountRows, signedUp>>
     ELSE /\ OpeningGoes(r, "customer")
          /\ accounts' = accounts \cup {[by |-> r, email |-> opening[r].email]}
          /\ organizations' = organizations \cup {r}
          /\ memberships' = memberships \cup {r}
          /\ trials' = IF opening[r].trial THEN trials \cup {r} ELSE trials
          /\ signedUp' = signedUp \cup {r}
  /\ UNCHANGED <<ownerRole, plan, roleless, openingFaults>>

-----------------------------------------------------------------------------

\* A statement fails or the process dies: what was written stays, the rest is never done.
OpeningFails(r) ==
  /\ openingFaults < OpeningFaults /\ openingFaults' = openingFaults + 1
  /\ opening[r].at \in {"user", "organization", "membership", "session", "transaction"}
  /\ OpeningGoes(r, "failed")
  /\ UNCHANGED <<accountRows, signedUp, ownerRole, plan, roleless>>

\* The scripts of a deployment seed the roles; the platform's owner offers plans.
SeedOwnerRole ==
  /\ ~ownerRole /\ ownerRole' = TRUE
  /\ UNCHANGED <<accountRows, signedUp, opening, plan, roleless, openingFaults>>

OfferPlan ==
  /\ plan' = ~plan
  /\ UNCHANGED <<accountRows, signedUp, opening, ownerRole, roleless, openingFaults>>

OpeningNext ==
  \/ \E r \in Openings :
       \/ \E email \in Spellings : RegisterOwner(r, email) \/ CreateCustomer(r, email)
       \/ CreateUser(r) \/ CreateOrganization(r) \/ CreateMembership(r) \/ OwnerSession(r)
       \/ OpenCustomer(r) \/ OpeningFails(r)
  \/ SeedOwnerRole \/ OfferPlan

OpeningSpec == OpeningInit /\ [][OpeningNext]_openingVars

-----------------------------------------------------------------------------
(* Properties *)

OpeningTypeOK ==
  /\ accounts \subseteq [by : Openings, email : Spellings]
  /\ organizations \subseteq Openings /\ memberships \subseteq Openings /\ trials \subseteq Openings
  /\ signedUp \subseteq Openings /\ roleless \subseteq Openings
  /\ ownerRole \in BOOLEAN /\ plan \in BOOLEAN /\ openingFaults \in 0..OpeningFaults
  /\ opening \in [Openings -> [at : {"idle", "user", "organization", "membership", "session", "transaction",
                                   "registered", "customer", "refused", "failed"},
                              email : Spellings, trial : BOOLEAN]]

\* Nothing is left half open: an account has its organization and an organization its owner,
\* unless the registration is under way, broke off, or came before the owner's role
\* (register has no transaction).
NothingHalfOpen ==
  \A r \in {a.by : a \in accounts} \cup organizations :
    \/ r \in organizations /\ r \in memberships /\ (\E a \in accounts : a.by = r)
    \/ opening[r].at \in {"organization", "membership", "failed"} \/ r \in roleless

\* A mailbox has two accounts only where one of them was registered with another spelling, and
\* no address two: two openings at once included (createCustomer, users.email).
OneAccountEach ==
  \A a, b \in accounts : a # b =>
    /\ a.email # b.email
    /\ \E c \in {a, b} : opening[c.by].at # "customer" /\ c.email # PlainSpelling

\* Whoever was told of success can work: a member, and a customer whose opening read a plan
\* has the trial of it, and nobody else has one (register, createCustomer).
ToldOfWhatIsThere ==
  /\ signedUp \subseteq memberships \cup roleless
  /\ trials = {r \in signedUp : opening[r].at = "customer" /\ opening[r].trial}

OpeningsHold == NothingHalfOpen /\ OneAccountEach /\ ToldOfWhatIsThere
=============================================================================
