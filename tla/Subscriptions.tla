--------------------------- MODULE Subscriptions ---------------------------
(***************************************************************************)
(* How an organization comes to its subscription: the requests its owners  *)
(* file (subscription-requests.service.ts), the platform's decisions, and  *)
(* the edits of the plan meanwhile (plans.service.ts).  A decision is a    *)
(* transaction, but of READ COMMITTED: what it has read may have changed   *)
(* by the time it writes.                                                  *)
(***************************************************************************)
EXTENDS Naturals, FiniteSets

CONSTANTS
  Asks,       \* requests of the organization
  Decisions,  \* approvals and rejections
  Editions    \* bound: edits of the plan

ASSUME SubscriptionAssumption == IsFiniteSet(Asks) /\ IsFiniteSet(Decisions) /\ Editions \in Nat

VARIABLES
  edition,      \* plans, plan_prices, plan_features: which edition is in force
  offered,      \* plans.isActive and isPublic, with an active price
  asking,       \* create: its next step, and the edition it has read
  asked,        \* subscription_requests: [status, terms]
  subscription, \* subscriptions: [status, terms, by]
  deciding,     \* approve, reject: [at, on, exists]
  overlapped    \* history: requests two decisions were about at the same time

subVars == <<edition, offered, asking, asked, subscription, deciding, overlapped>>

\* createCustomer starts an organization with a trial, register with nothing.
SubscriptionInit ==
  /\ edition = 0 /\ offered = TRUE
  /\ asking = [a \in Asks |-> [at |-> "idle", terms |-> 0]]
  /\ asked = [a \in Asks |-> [status |-> "NONE", terms |-> 0]]
  /\ \E status \in {"NONE", "TRIAL"} :
       subscription = [status |-> status, terms |-> 0, by |-> {}]
  /\ deciding = [d \in Decisions |-> [at |-> "idle", on |-> {}, exists |-> FALSE]]
  /\ overlapped = {}

-----------------------------------------------------------------------------
(* The organization asks *)

AskStep(a, from, to) == asking[a].at = from /\ asking' = [asking EXCEPT ![a].at = to]

\* ALREADY_SUBSCRIBED, REQUEST_ALREADY_PENDING.
CheckSubscription(a) ==
  /\ AskStep(a, "idle", IF subscription.status = "ACTIVE" THEN "refused" ELSE "pending")
  /\ UNCHANGED <<edition, offered, asked, subscription, deciding, overlapped>>

CheckPending(a) ==
  /\ AskStep(a, "pending", IF \E b \in Asks : asked[b].status = "PENDING" THEN "refused" ELSE "plan")
  /\ UNCHANGED <<edition, offered, asked, subscription, deciding, overlapped>>

\* The plan, its price and its features, if it is offered.
ReadPlan(a) ==
  /\ asking[a].at = "plan"
  /\ asking' = [asking EXCEPT ![a] = [at |-> IF offered THEN "file" ELSE "refused", terms |-> edition]]
  /\ UNCHANGED <<edition, offered, asked, subscription, deciding, overlapped>>

\* The request carries its planSnapshot.
FileRequest(a) ==
  /\ AskStep(a, "file", "filed")
  /\ asked' = [asked EXCEPT ![a] = [status |-> "PENDING", terms |-> asking[a].terms]]
  /\ UNCHANGED <<edition, offered, subscription, deciding, overlapped>>

-----------------------------------------------------------------------------
(* The platform decides *)

Decide(d, from, to) == deciding[d].at = from /\ deciding' = [deciding EXCEPT ![d].at = to]

\* approve and reject read the request, which must be PENDING.
ReadRequest(d, a) ==
  /\ deciding[d].at = "idle" /\ asked[a].status = "PENDING"
  /\ \E at \in {"existing", "reject"} :
       deciding' = [deciding EXCEPT ![d] = [at |-> at, on |-> {a}, exists |-> FALSE]]
  /\ overlapped' = IF \E e \in Decisions : deciding[e].at \in {"existing", "approve", "reject"}
                                           /\ a \in deciding[e].on
                   THEN overlapped \cup {a} ELSE overlapped
  /\ UNCHANGED <<edition, offered, asking, asked, subscription>>

ReadExisting(d) ==
  /\ deciding[d].at = "existing"
  /\ deciding' = [deciding EXCEPT ![d].at = "approve", ![d].exists = subscription.status # "NONE"]
  /\ UNCHANGED <<edition, offered, asking, asked, subscription, overlapped>>

\* The subscription is created or overwritten and the request decided; the organization has one
\* subscription: a second creation fails and nothing is written.
ApproveFor(d, terms) ==
  /\ Decide(d, "approve", "done")
  /\ IF subscription.status # "NONE" /\ ~deciding[d].exists
     THEN UNCHANGED <<asked, subscription>>
     ELSE /\ subscription' = [status |-> "ACTIVE", terms |-> terms, by |-> deciding[d].on]
          /\ asked' = [a \in Asks |-> IF a \in deciding[d].on
                                      THEN [asked[a] EXCEPT !.status = "APPROVED"] ELSE asked[a]]
  /\ UNCHANGED <<edition, offered, asking, overlapped>>

\* The plan as it is now (a slip SubscribedAsAsked must notice).
ApproveNow(d) == ApproveFor(d, edition)

\* The snapshot of the request.
Approve(d) == \E a \in deciding[d].on : ApproveFor(d, asked[a].terms)

Reject(d) ==
  /\ Decide(d, "reject", "done")
  /\ asked' = [a \in Asks |-> IF a \in deciding[d].on
                              THEN [asked[a] EXCEPT !.status = "REJECTED"] ELSE asked[a]]
  /\ UNCHANGED <<edition, offered, asking, subscription, overlapped>>

\* update, writePriceAndFeatures: one transaction.
EditPlan ==
  /\ edition < Editions /\ edition' = edition + 1
  /\ offered' \in BOOLEAN
  /\ UNCHANGED <<asking, asked, subscription, deciding, overlapped>>

SubscriptionNext ==
  \/ \E a \in Asks : CheckSubscription(a) \/ CheckPending(a) \/ ReadPlan(a) \/ FileRequest(a)
  \/ \E d \in Decisions :
       \/ \E a \in Asks : ReadRequest(d, a)
       \/ ReadExisting(d) \/ Approve(d) \/ Reject(d)
  \/ EditPlan

SubscriptionSpec == SubscriptionInit /\ [][SubscriptionNext]_subVars

-----------------------------------------------------------------------------
(* Properties *)

SubscriptionTypeOK ==
  /\ edition \in 0 .. Editions /\ offered \in BOOLEAN
  /\ asking \in [Asks -> [at : {"idle", "pending", "plan", "file", "filed", "refused"}, terms : 0 .. Editions]]
  /\ asked \in [Asks -> [status : {"NONE", "PENDING", "APPROVED", "REJECTED"}, terms : 0 .. Editions]]
  /\ subscription \in [status : {"NONE", "TRIAL", "ACTIVE"}, terms : 0 .. Editions, by : SUBSET Asks]
  /\ deciding \in [Decisions -> [at : {"idle", "existing", "approve", "reject", "done"},
                                 on : SUBSET Asks, exists : BOOLEAN]]
  /\ overlapped \subseteq Asks

\* A subscription is on the terms its request was filed with, however often the plan has been
\* edited since ("a plan edit never touches history", plans.service.ts), it was approved and not
\* rejected, and an approved request has its subscription, unless it was decided twice at the
\* same time.
SubscribedAsAsked ==
  /\ subscription.status = "ACTIVE" =>
       \E a \in subscription.by :
         /\ subscription.terms = asked[a].terms
         /\ asked[a].status = "APPROVED" \/ a \in overlapped
  /\ \A a \in Asks : asked[a].status = "APPROVED" => subscription.status = "ACTIVE"
=============================================================================
