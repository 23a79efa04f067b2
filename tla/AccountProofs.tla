---------------------------- MODULE AccountProofs ----------------------------
(***************************************************************************)
(* Proofs about accounts: how they are opened, the throttle before them,   *)
(* their sign-in, what the browser keeps of it, the subscription of the    *)
(* organization, and the roles of its team.  Each invariant joins to the   *)
(* properties what they rest on.                                           *)
(***************************************************************************)
EXTENDS AccountOpening, LoginThrottle, AuthSession, BrowserSession, Subscriptions, RoleGrants,
        Integers, FiniteSetTheorems, SequenceTheorems, TLAPS

-----------------------------------------------------------------------------
(* Opening an account *)

HasAccount(r) == \E a \in accounts : a.by = r

\* The steps after an account, an organization and a membership are written.
WithAccount == {"organization", "membership", "session", "registered", "customer"}
WithOrganization == {"membership", "session", "registered", "customer"}
WithMembership == {"session", "registered", "customer"}
Halted == {"registered", "customer"}

\* What is there of one opening.
OpeningWritten(r) ==
  LET at == opening[r].at IN
  /\ HasAccount(r) => at \in WithAccount \cup {"failed"}
  /\ at \in WithAccount => HasAccount(r)
  /\ r \in organizations => at \in WithOrganization \cup {"failed"}
  /\ at \in WithOrganization => r \in organizations
  /\ r \in memberships => at \in WithMembership \cup {"failed"}
  /\ at \in WithMembership => r \in memberships \cup roleless
  /\ at = "customer" => r \in memberships
  /\ r \in signedUp <=> at \in Halted
  /\ r \in trials <=> (at = "customer" /\ opening[r].trial)

\* Customers are stored in one spelling, and an account under the address it was opened with.
Spelled ==
  /\ \A r \in Openings : opening[r].at \in {"transaction", "customer"} => opening[r].email = PlainSpelling
  /\ \A a \in accounts : a.email = opening[a.by].email

\* users.email is unique.
Distinct == \A a, b \in accounts : a.email = b.email => a = b

OpeningInv == OpeningTypeOK /\ (\A r \in Openings : OpeningWritten(r)) /\ Spelled /\ Distinct

-----------------------------------------------------------------------------

\* The invariant implies what is claimed of openings.
LEMMA OpeningSuffices ==
  ASSUME OpeningInv PROVE OpeningsHold
<1> USE DEF OpeningInv, OpeningTypeOK
<1>1. NothingHalfOpen
  BY DEF NothingHalfOpen, OpeningWritten, HasAccount, WithAccount, WithOrganization, WithMembership
<1>2. OneAccountEach
  BY DEF OneAccountEach, Spelled, Distinct
<1>3. ToldOfWhatIsThere
  BY DEF ToldOfWhatIsThere, OpeningWritten, WithMembership, Halted
<1> QED BY <1>1, <1>2, <1>3 DEF OpeningsHold

\* At the start nobody opens an account.
LEMMA OpeningStart == OpeningInit => OpeningInv
<1> SUFFICES ASSUME OpeningInit PROVE OpeningInv
  OBVIOUS
<1>1. OpeningTypeOK
  <2>1. opening \in [Openings -> [at : {"idle", "user", "organization", "membership", "session", "transaction",
                                     "registered", "customer", "refused", "failed"},
                                email : Spellings, trial : BOOLEAN]]
    BY OpeningAssumption DEF OpeningInit
  <2>2. openingFaults \in 0..OpeningFaults
    BY OpeningAssumption DEF OpeningInit
  <2>3. accounts = {} /\ organizations = {} /\ memberships = {} /\ trials = {} /\ signedUp = {}
        /\ roleless = {} /\ ownerRole \in BOOLEAN /\ plan \in BOOLEAN
    BY DEF OpeningInit
  <2> QED BY ONLY <2>1, <2>2, <2>3 DEF OpeningTypeOK
<1>2. \A r \in Openings : OpeningWritten(r)
  BY DEF OpeningInit, OpeningWritten, HasAccount, WithAccount, WithOrganization, WithMembership,
     Halted
<1>3. Spelled /\ Distinct
  BY DEF OpeningInit, Spelled, Distinct
<1> QED BY <1>1, <1>2, <1>3 DEF OpeningInv

\* Every step keeps the types.
LEMMA OpeningTypeStep ==
  ASSUME OpeningTypeOK, [OpeningNext]_openingVars PROVE OpeningTypeOK'
<1> USE OpeningAssumption DEF OpeningTypeOK, OpeningAt, OpeningGoes, accountRows
<1>1. ASSUME NEW r \in Openings, NEW email \in Spellings, RegisterOwner(r, email) PROVE OpeningTypeOK'
  BY <1>1 DEF RegisterOwner
<1>2. ASSUME NEW r \in Openings, NEW email \in Spellings, CreateCustomer(r, email) PROVE OpeningTypeOK'
  BY <1>2 DEF CreateCustomer, CustomerEmail
<1>3. ASSUME NEW r \in Openings, CreateUser(r) PROVE OpeningTypeOK'
  BY <1>3 DEF CreateUser
<1>4. ASSUME NEW r \in Openings, CreateOrganization(r) PROVE OpeningTypeOK'
  BY <1>4 DEF CreateOrganization
<1>5. ASSUME NEW r \in Openings, CreateMembership(r) PROVE OpeningTypeOK'
  BY <1>5 DEF CreateMembership
<1>6. ASSUME NEW r \in Openings, OwnerSession(r) PROVE OpeningTypeOK'
  BY <1>6 DEF OwnerSession
<1>7. ASSUME NEW r \in Openings, OpenCustomer(r) PROVE OpeningTypeOK'
  BY <1>7 DEF OpenCustomer
<1>8. ASSUME NEW r \in Openings, OpeningFails(r) PROVE OpeningTypeOK'
  BY <1>8 DEF OpeningFails
<1>9. CASE SeedOwnerRole \/ OfferPlan
  BY <1>9 DEF SeedOwnerRole, OfferPlan
<1>10. CASE UNCHANGED openingVars
  BY <1>10 DEF openingVars
<1> QED BY <1>1, <1>2, <1>3, <1>4, <1>5, <1>6, <1>7, <1>8, <1>9, <1>10 DEF OpeningNext

\* Every step keeps what is written of each opening, and the address of each account its own.
LEMMA OpeningWrittenStep ==
  ASSUME OpeningInv, [OpeningNext]_openingVars, OpeningTypeOK'
  PROVE  (\A r \in Openings : OpeningWritten(r))' /\ Spelled' /\ Distinct'
<1> DEFINE Kept == (\A q \in Openings : OpeningWritten(q))' /\ Spelled' /\ Distinct'
<1> USE OpeningAssumption DEF OpeningInv, OpeningTypeOK, OpeningAt, OpeningGoes, accountRows
<1>1. ASSUME NEW r \in Openings, NEW email \in Spellings, RegisterOwner(r, email) PROVE Kept
  <2>1. ASSUME NEW q \in Openings PROVE OpeningWritten(q)'
    BY <1>1 DEF RegisterOwner, OpeningWritten, HasAccount, WithAccount, WithOrganization,
       WithMembership, Halted,
       EmailTaken
  <2>2. Spelled' /\ Distinct'
    BY <1>1 DEF RegisterOwner, Spelled, Distinct, EmailTaken, OpeningWritten, HasAccount,
       WithAccount
  <2> QED BY <2>1, <2>2
<1>2. ASSUME NEW r \in Openings, NEW email \in Spellings, CreateCustomer(r, email) PROVE Kept
  <2>1. ASSUME NEW q \in Openings PROVE OpeningWritten(q)'
    BY <1>2 DEF CreateCustomer, CustomerEmail, OpeningWritten, HasAccount, WithAccount,
       WithOrganization,
                WithMembership, Halted, EmailTaken
  <2>2. Spelled' /\ Distinct'
    BY <1>2 DEF CreateCustomer, CustomerEmail, Spelled, Distinct, EmailTaken, OpeningWritten,
       HasAccount, WithAccount
  <2> QED BY <2>1, <2>2
<1>3. ASSUME NEW r \in Openings, CreateUser(r) PROVE Kept
  <2>1. ASSUME NEW q \in Openings PROVE OpeningWritten(q)'
    <3>1. q # r => opening'[q] = opening[q] /\ (HasAccount(q)' <=> HasAccount(q))
      BY <1>3 DEF CreateUser, HasAccount
    <3>2. CASE q # r
      BY <3>1, <3>2, <1>3 DEF CreateUser, OpeningWritten
    <3>3. CASE q = r /\ EmailTaken(opening[r].email)
      <4>1. opening'[r].at = "refused" /\ (HasAccount(r)' <=> HasAccount(r))
        BY <3>3, <1>3 DEF CreateUser, HasAccount
      <4> QED BY <4>1, <3>3, <1>3
            DEF CreateUser, OpeningWritten, WithAccount, WithOrganization, WithMembership, Halted
    <3>4. CASE q = r /\ ~EmailTaken(opening[r].email)
      <4>1. opening'[r].at = "organization" /\ opening'[r].trial = opening[r].trial
        BY <3>4, <1>3 DEF CreateUser
      <4>2. [by |-> r, email |-> opening[r].email] \in accounts'
        BY <3>4, <1>3 DEF CreateUser
      <4>3. HasAccount(r)'
        BY <4>2 DEF HasAccount
      <4> QED BY <4>1, <4>3, <3>4, <1>3
            DEF CreateUser, OpeningWritten, WithAccount, WithOrganization, WithMembership, Halted
    <3> QED BY <3>2, <3>3, <3>4
  <2>2. Spelled' /\ Distinct'
    BY <1>3 DEF CreateUser, Spelled, Distinct, EmailTaken, OpeningWritten, HasAccount, WithAccount
  <2> QED BY <2>1, <2>2
<1>4. ASSUME NEW r \in Openings, CreateOrganization(r) PROVE Kept
  <2>1. ASSUME NEW q \in Openings PROVE OpeningWritten(q)'
    BY <1>4 DEF CreateOrganization, OpeningWritten, HasAccount, WithAccount, WithOrganization,
       WithMembership, Halted,
                EmailTaken
  <2>2. Spelled' /\ Distinct'
    BY <1>4 DEF CreateOrganization, Spelled, Distinct, EmailTaken, OpeningWritten, HasAccount,
       WithAccount
  <2> QED BY <2>1, <2>2
<1>5. ASSUME NEW r \in Openings, CreateMembership(r) PROVE Kept
  <2>1. ASSUME NEW q \in Openings PROVE OpeningWritten(q)'
    BY <1>5 DEF CreateMembership, OpeningWritten, HasAccount, WithAccount, WithOrganization,
       WithMembership, Halted,
                EmailTaken
  <2>2. Spelled' /\ Distinct'
    BY <1>5 DEF CreateMembership, Spelled, Distinct, EmailTaken, OpeningWritten, HasAccount,
       WithAccount
  <2> QED BY <2>1, <2>2
<1>6. ASSUME NEW r \in Openings, OwnerSession(r) PROVE Kept
  <2>1. ASSUME NEW q \in Openings PROVE OpeningWritten(q)'
    BY <1>6 DEF OwnerSession, OpeningWritten, HasAccount, WithAccount, WithOrganization,
       WithMembership, Halted,
       EmailTaken
  <2>2. Spelled' /\ Distinct'
    BY <1>6 DEF OwnerSession, Spelled, Distinct, EmailTaken, OpeningWritten, HasAccount, WithAccount
  <2> QED BY <2>1, <2>2
<1>7. ASSUME NEW r \in Openings, OpenCustomer(r) PROVE Kept
  <2>1. ASSUME NEW q \in Openings PROVE OpeningWritten(q)'
    <3>1. q # r => opening'[q] = opening[q] /\ (HasAccount(q)' <=> HasAccount(q))
      BY <1>7 DEF OpenCustomer, HasAccount
    <3>2. CASE q # r
      BY <3>1, <3>2, <1>7 DEF OpenCustomer, OpeningWritten
    <3>3. CASE q = r /\ EmailTaken(opening[r].email)
      <4>1. opening'[r].at = "refused" /\ (HasAccount(r)' <=> HasAccount(r))
        BY <3>3, <1>7 DEF OpenCustomer, HasAccount
      <4> QED BY <4>1, <3>3, <1>7
            DEF OpenCustomer, OpeningWritten, WithAccount, WithOrganization, WithMembership, Halted
    <3>4. CASE q = r /\ ~EmailTaken(opening[r].email)
      <4>1. opening'[r].at = "customer" /\ opening'[r].trial = opening[r].trial
        BY <3>4, <1>7 DEF OpenCustomer
      <4>2. [by |-> r, email |-> opening[r].email] \in accounts'
        BY <3>4, <1>7 DEF OpenCustomer
      <4>3. HasAccount(r)'
        BY <4>2 DEF HasAccount
      <4> QED BY <4>1, <4>3, <3>4, <1>7
            DEF OpenCustomer, OpeningWritten, WithAccount, WithOrganization, WithMembership, Halted
    <3> QED BY <3>2, <3>3, <3>4
  <2>2. Spelled' /\ Distinct'
    BY <1>7 DEF OpenCustomer, Spelled, Distinct, EmailTaken, OpeningWritten, HasAccount, WithAccount
  <2> QED BY <2>1, <2>2
<1>8. ASSUME NEW r \in Openings, OpeningFails(r) PROVE Kept
  <2>1. ASSUME NEW q \in Openings PROVE OpeningWritten(q)'
    BY <1>8 DEF OpeningFails, OpeningWritten, HasAccount, WithAccount, WithOrganization,
       WithMembership, Halted,
       EmailTaken
  <2>2. Spelled' /\ Distinct'
    BY <1>8 DEF OpeningFails, Spelled, Distinct, EmailTaken, OpeningWritten, HasAccount, WithAccount
  <2> QED BY <2>1, <2>2
<1>9. CASE SeedOwnerRole \/ OfferPlan
  BY <1>9 DEF SeedOwnerRole, OfferPlan, OpeningWritten, HasAccount, Spelled, Distinct
<1>10. CASE UNCHANGED openingVars
  BY <1>10 DEF openingVars, OpeningWritten, HasAccount, Spelled, Distinct
<1> QED BY <1>1, <1>2, <1>3, <1>4, <1>5, <1>6, <1>7, <1>8, <1>9, <1>10 DEF OpeningNext

\* Accounts, organizations, memberships and openings keep their types.
THEOREM OpeningTypeCorrect == OpeningSpec => []OpeningTypeOK
<1>1. OpeningInit => OpeningTypeOK
  BY OpeningStart DEF OpeningInv
<1>2. OpeningTypeOK /\ [OpeningNext]_openingVars => OpeningTypeOK'
  BY OpeningTypeStep
<1> QED BY <1>1, <1>2, PTL DEF OpeningSpec

\* Nothing is left half open but by a fault or a missing role, no address has two accounts,
\* and whoever is told of success can work (register, createCustomer).
THEOREM OpeningsWhole == OpeningSpec => []OpeningsHold
<1>1. OpeningInit => OpeningInv
  BY OpeningStart
<1>2. OpeningInv /\ [OpeningNext]_openingVars => OpeningInv'
  BY OpeningTypeStep, OpeningWrittenStep DEF OpeningInv
<1>3. OpeningInv => OpeningsHold
  BY OpeningSuffices
<1> QED BY <1>1, <1>2, <1>3, PTL DEF OpeningSpec

-----------------------------------------------------------------------------
(* The throttle *)

\* A bucket: it is locked once its limit is passed, for no longer than one lockout, and until
\* its window is over.
BucketShape(k) ==
  LET b == bucket[k] IN
  /\ b.resetAt <= instant + Window
  /\ b.count = MaxOf(k) + 1 => b.resetAt <= b.lockedUntil
  /\ b.lockedUntil # 0 => b.resetAt <= b.lockedUntil /\ b.lockedUntil <= instant + Lockout

\* What was let through grows with time, up to now.
Grows(l) ==
  /\ \A t, u \in Times : t <= u => admitted[l][t] <= admitted[l][u]
  /\ \A t \in Times : t > instant => admitted[l][t] = admitted[l][instant + 1]

\* In a window that is over, the last of the limit was let through at its beginning: whatever
\* stretch of one window has not ended now holds less than the limit.
OverHolds(l) ==
  /\ admitted[l][instant + 1] = admitted[l][instant]
  /\ \A t \in Times : t + Window > instant => admitted[l][instant] < admitted[l][t] + MaxPerLogin

\* A window counts what it lets through, began with a request, and found the one before over.
Opened(l) == bucket[l].resetAt - Window
WindowHolds(l) ==
  LET b == bucket[l]
      s == Opened(l) IN
  /\ s \in 0..instant
  /\ admitted[l][instant + 1] <= admitted[l][s] + b.count
  /\ admitted[l][instant + 1] <= admitted[l][s] + MaxPerLogin
  /\ admitted[l][instant + 1] < admitted[l][s + 1] + b.count
  /\ admitted[l][instant + 1] < admitted[l][s + 1] + MaxPerLogin
  /\ \A t \in Times : t + Window > s => admitted[l][s] < admitted[l][t] + MaxPerLogin
  /\ \A t, u \in Times : t >= b.resetAt /\ u >= b.resetAt => admitted[l][t] = admitted[l][u]

LoginHolds(l) ==
  /\ Grows(l)
  /\ bucket[l].count > 0 => WindowHolds(l)
  /\ WindowOver(bucket[l]) => OverHolds(l)

ThrottleInv ==
  /\ ThrottleTypeOK /\ FewPerAccount
  /\ \A k \in BucketKeys : BucketShape(k)
  /\ \A l \in Logins : LoginHolds(l)

\* What the constants of the throttle are, in the form the steps need.
LEMMA ThrottleConstants ==
  /\ MaxPerHost \in Nat /\ MaxPerHost > 0 /\ MaxPerLogin \in Nat /\ MaxPerLogin > 0
  /\ Window \in Nat /\ Window > 0 /\ Lockout = Window /\ Horizon \in Nat /\ Restarts \in Nat
  /\ \A l \in Logins : l \notin Hosts /\ l \in BucketKeys /\ MaxOf(l) = MaxPerLogin
  /\ \A k \in BucketKeys : MaxOf(k) \in 1..MaxPerHost + MaxPerLogin
BY ThrottleAssumption DEF BucketKeys, MaxOf

\* Empty buckets, as after a start.
EmptyBuckets ==
  /\ instant \in 0..Horizon /\ restarts \in 0..Restarts
  /\ bucket = [k \in BucketKeys |-> NoBucket] /\ admitted = Nobody

\* Where no bucket holds anything, everything that is said of the buckets holds.
LEMMA EmptyHolds ==
  ASSUME EmptyBuckets
  PROVE  /\ bucket \in [BucketKeys -> BucketStates] /\ admitted \in [Logins -> [Times -> Nat]]
         /\ \A k \in BucketKeys : BucketShape(k) /\ bucket[k].count <= MaxOf(k) + 1
         /\ FewPerAccount /\ \A l \in Logins : LoginHolds(l)
<1> USE ThrottleConstants DEF EmptyBuckets
<1>1. NoBucket \in BucketStates
  BY DEF NoBucket, BucketStates
<1>2. bucket \in [BucketKeys -> BucketStates] /\ admitted \in [Logins -> [Times -> Nat]]
  BY <1>1 DEF Nobody
<1>3. \A k \in BucketKeys : BucketShape(k) /\ bucket[k].count <= MaxOf(k) + 1
  BY DEF BucketShape, NoBucket
<1>4. \A l \in Logins, t \in Times : admitted[l][t] = 0
  BY DEF Nobody
<1>5. FewPerAccount
  BY <1>4 DEF FewPerAccount
<1>6. instant \in Times /\ instant + 1 \in Times
  BY DEF Times
<1>7. \A l \in Logins : LoginHolds(l)
  BY <1>4, <1>6 DEF LoginHolds, Grows, OverHolds, NoBucket
<1> QED BY <1>2, <1>3, <1>5, <1>7

-----------------------------------------------------------------------------
(* A request *)

\* What a request makes of a bucket.
BucketTakes(k, hit, crowded) == bucket'[k] = IF hit THEN Hit(k, Swept(k, crowded)) ELSE Swept(k, crowded)

\* A sweep leaves a bucket as it is, or drops one that was over anyway.
LEMMA SweptBucket ==
  ASSUME ThrottleInv, NEW k \in BucketKeys, NEW crowded \in BOOLEAN
  PROVE  LET b == bucket[k]
             c == Swept(k, crowded)
         IN /\ c \in BucketStates /\ b \in BucketStates
            /\ c = b \/ (c = NoBucket /\ WindowOver(b) /\ ~Locked(b))
            /\ WindowOver(c) <=> WindowOver(b)
            /\ Locked(c) <=> Locked(b)
<1> USE ThrottleConstants
<1>1. bucket[k] \in BucketStates /\ NoBucket \in BucketStates /\ instant \in 0..Horizon
  BY DEF ThrottleInv, ThrottleTypeOK, BucketStates, NoBucket
<1>2. ~Locked(NoBucket) /\ WindowOver(NoBucket)
  BY <1>1 DEF Locked, WindowOver, NoBucket
<1> QED BY <1>1, <1>2 DEF Swept, Past, WindowOver

\* The four things that happen to a bucket: it is left alone, swept, opened, or counted.
LEMMA BucketChanges ==
  ASSUME ThrottleInv, NEW k \in BucketKeys, NEW crowded \in BOOLEAN, NEW hit \in BOOLEAN, BucketTakes(k, hit, crowded)
  PROVE  LET b == bucket[k]
             d == bucket'[k]
         IN \/ d = b /\ (hit => Locked(b))
            \/ d = NoBucket /\ WindowOver(b) /\ ~Locked(b) /\ ~hit
            \/ /\ hit /\ WindowOver(b) /\ ~Locked(b)
               /\ d = [count |-> 1, resetAt |-> instant + Window, lockedUntil |-> 0]
            \/ /\ hit /\ ~WindowOver(b) /\ ~Locked(b) /\ b.count \in 1..MaxOf(k)
               /\ d.count = b.count + 1 /\ d.resetAt = b.resetAt
               /\ d.lockedUntil = IF b.count = MaxOf(k) THEN instant + Lockout ELSE b.lockedUntil
               /\ d = [count |-> d.count, resetAt |-> d.resetAt, lockedUntil |-> d.lockedUntil]
<1> USE ThrottleConstants
<1> DEFINE b == bucket[k]
           c == Swept(k, crowded)
<1>1. /\ c \in BucketStates /\ b \in BucketStates
      /\ c = b \/ (c = NoBucket /\ WindowOver(b) /\ ~Locked(b))
      /\ WindowOver(c) <=> WindowOver(b)
      /\ Locked(c) <=> Locked(b)
  BY SweptBucket
<1>2. CASE ~hit
  BY <1>1, <1>2 DEF BucketTakes
<1>3. CASE hit /\ Locked(b)
  <2>1. c = b
    BY <1>1, <1>3
  <2> QED BY <1>1, <1>3, <2>1 DEF BucketTakes, Hit
<1>4. CASE hit /\ ~Locked(b) /\ WindowOver(b)
  BY <1>1, <1>4 DEF BucketTakes, Hit
<1>5. CASE hit /\ ~Locked(b) /\ ~WindowOver(b)
  <2>1. c = b
    BY <1>1, <1>5
  <2>2. b.count \in 1..MaxOf(k)
    <3>1. b.count <= MaxOf(k) + 1 /\ b.count > 0 /\ b.count \in Nat /\ instant \in Nat
      BY <1>1, <1>5 DEF ThrottleInv, ThrottleTypeOK, WindowOver, BucketStates
    <3>2. b.count # MaxOf(k) + 1
      BY <1>1, <1>5, <3>1 DEF ThrottleInv, BucketShape, WindowOver, Locked, BucketStates
    <3> QED BY <3>1, <3>2
  <2>3. LET over == b.count + 1 - MaxOf(k) IN
        bucket'[k] = [b EXCEPT !.count = @ + 1,
                               !.lockedUntil = IF over > 0
                                               THEN instant + Lockout * (IF over > 4 THEN 4 ELSE over)
                                               ELSE @]
    BY <1>1, <1>5, <2>1 DEF BucketTakes, Hit
  <2>4. bucket'[k].lockedUntil = IF b.count = MaxOf(k) THEN instant + Lockout ELSE b.lockedUntil
    <3>1. CASE b.count = MaxOf(k)
      <4>1. b.count + 1 - MaxOf(k) = 1
        BY <2>2, <3>1
      <4>2. bucket'[k].lockedUntil = instant + Lockout * 1
        BY <1>1, <2>3, <4>1 DEF BucketStates
      <4> QED BY <3>1, <4>2
    <3>2. CASE b.count # MaxOf(k)
      <4>1. ~(b.count + 1 - MaxOf(k) > 0)
        BY <2>2, <3>2
      <4> QED BY <1>1, <2>3, <3>2, <4>1 DEF BucketStates
    <3> QED BY <3>1, <3>2
  <2>5. /\ bucket'[k].count = b.count + 1 /\ bucket'[k].resetAt = b.resetAt
        /\ bucket'[k] = [count |-> bucket'[k].count, resetAt |-> bucket'[k].resetAt,
                          lockedUntil |-> bucket'[k].lockedUntil]
    BY <1>1, <2>3 DEF BucketStates
  <2> QED BY <1>5, <2>2, <2>4, <2>5
<1> QED BY <1>2, <1>3, <1>4, <1>5

\* A bucket an attempt passes over, or counts in, keeps its shape and its limit.
LEMMA BucketKept ==
  ASSUME ThrottleInv, NEW k \in BucketKeys, NEW crowded \in BOOLEAN, NEW hit \in BOOLEAN,
         BucketTakes(k, hit, crowded),
         instant' = instant
  PROVE  bucket'[k] \in BucketStates /\ bucket'[k].count <= MaxOf(k) + 1 /\ BucketShape(k)'
<1> USE ThrottleConstants
<1>1. bucket[k] \in BucketStates /\ NoBucket \in BucketStates /\ instant \in 0..Horizon /\ MaxOf(k)' = MaxOf(k)
  BY DEF ThrottleInv, ThrottleTypeOK, BucketStates, NoBucket, MaxOf
<1>2. BucketShape(k) /\ bucket[k].count <= MaxOf(k) + 1
  BY DEF ThrottleInv, ThrottleTypeOK
<1> DEFINE b == bucket[k]
           d == bucket'[k]
<1>3. CASE d = b
  BY <1>1, <1>2, <1>3 DEF BucketShape
<1>4. CASE d = NoBucket
  BY <1>1, <1>4 DEF BucketShape, NoBucket, BucketStates
<1>5. CASE d = [count |-> 1, resetAt |-> instant + Window, lockedUntil |-> 0]
  BY <1>1, <1>5 DEF BucketShape, BucketStates
<1>6. CASE /\ ~WindowOver(b) /\ b.count \in 1..MaxOf(k)
           /\ d.count = b.count + 1 /\ d.resetAt = b.resetAt
           /\ d.lockedUntil = IF b.count = MaxOf(k) THEN instant + Lockout ELSE b.lockedUntil
           /\ d = [count |-> d.count, resetAt |-> d.resetAt, lockedUntil |-> d.lockedUntil]
  <2>1. /\ b.resetAt \in 0..Horizon + Window /\ b.lockedUntil \in 0..Horizon + Lockout
        /\ b.resetAt <= instant + Window
        /\ b.lockedUntil # 0 => b.resetAt <= b.lockedUntil /\ b.lockedUntil <= instant + Lockout
    BY <1>1, <1>2 DEF BucketStates, BucketShape
  <2>2. /\ d.count \in 1..MaxOf(k) + 1 /\ d.resetAt \in 0..Horizon + Window /\ d.lockedUntil \in 0..Horizon + Lockout
        /\ d.count = MaxOf(k) + 1 => d.lockedUntil = instant + Lockout
        /\ d.lockedUntil \in {instant + Lockout, b.lockedUntil}
    BY <1>1, <1>6, <2>1
  <2>3. d \in BucketStates
    <3>1. d.count \in 0..MaxPerHost + MaxPerLogin + 1
      BY <2>2
    <3> QED BY <1>6, <2>2, <3>1 DEF BucketStates
  <2>4. BucketShape(k)'
    BY <1>1, <1>6, <2>1, <2>2 DEF BucketShape
  <2> QED BY <1>1, <2>2, <2>3, <2>4
<1> QED BY <1>3, <1>4, <1>5, <1>6, BucketChanges

\* What a request adds to the account it is for: nothing, or one from now on.
Admits(l, through) ==
  \A t \in Times : admitted'[l][t] = IF through /\ t > instant THEN admitted[l][t] + 1 ELSE admitted[l][t]

\* What is admitted of a login only grows while an attempt is weighed.
LEMMA GrowthKept ==
  ASSUME ThrottleInv, NEW l \in Logins, NEW through \in BOOLEAN, Admits(l, through), instant' = instant
  PROVE  Grows(l)'
<1> USE ThrottleConstants
<1>1. Grows(l) /\ instant \in 0..Horizon /\ \A t \in Times : admitted[l][t] \in Nat
  BY DEF ThrottleInv, LoginHolds, ThrottleTypeOK
<1>2. instant + 1 \in Times /\ Times \subseteq Nat /\ Times' = Times
  BY <1>1 DEF Times
<1> QED BY <1>1, <1>2 DEF Grows, Admits

\* A request that is not let through leaves the account as it was.
LEMMA NotThroughStep ==
  ASSUME ThrottleInv, NEW l \in Logins, NEW crowded \in BOOLEAN, NEW hit \in BOOLEAN, BucketTakes(l, hit, crowded),
         Admits(l, FALSE), Grows(l)', instant' = instant
  PROVE  LoginHolds(l)' /\ \A start, end \in Times : end <= start + Window =>
                             admitted'[l][end] < admitted'[l][start] + 2 * MaxPerLogin
<1> USE ThrottleConstants
<1> DEFINE b == bucket[l]
           d == bucket'[l]
<1>1. /\ \A t \in Times : admitted'[l][t] = admitted[l][t] /\ admitted[l][t] \in Nat
      /\ instant \in 0..Horizon /\ instant \in Times /\ instant + 1 \in Times /\ Times' = Times
      /\ b \in BucketStates /\ Grows(l) /\ LoginHolds(l)
  <2>1. \A t \in Times : admitted'[l][t] = admitted[l][t]
    BY DEF Admits
  <2>2. bucket[l] \in BucketStates /\ (\A t \in Times : admitted[l][t] \in Nat) /\ Grows(l) /\ LoginHolds(l)
    BY DEF ThrottleInv, ThrottleTypeOK, LoginHolds
  <2>3. instant \in 0..Horizon /\ instant \in Times /\ instant + 1 \in Times /\ Times' = Times
    BY DEF ThrottleInv, ThrottleTypeOK, Times
  <2> QED BY <2>1, <2>2, <2>3
<1>2. \A start, end \in Times : end <= start + Window => admitted'[l][end] < admitted'[l][start] + 2 * MaxPerLogin
  BY <1>1 DEF ThrottleInv, FewPerAccount
<1>3. WindowOver(b) => OverHolds(l)'
  BY <1>1 DEF LoginHolds, OverHolds
<1>4. CASE d = b
  <2>1. b.count > 0 => WindowHolds(l)'
    <3> SUFFICES ASSUME b.count > 0 PROVE WindowHolds(l)'
      OBVIOUS
    <3>1. WindowHolds(l)
      BY <1>1 DEF LoginHolds
    <3>2. Opened(l) \in Times /\ Opened(l) + 1 \in Times /\ Opened(l)' = Opened(l)
      BY <1>1, <1>4, <3>1 DEF WindowHolds, Times, Opened
    <3> QED BY <1>1, <1>4, <3>1, <3>2 DEF WindowHolds
  <2> QED BY <1>2, <1>3, <1>4, <2>1 DEF LoginHolds, WindowOver
<1>5. CASE d = NoBucket /\ WindowOver(b)
  BY <1>2, <1>3, <1>5 DEF LoginHolds, NoBucket
<1>6. CASE hit /\ d = [count |-> 1, resetAt |-> instant + Window, lockedUntil |-> 0] /\ WindowOver(b)
  <2>1. Opened(l)' = instant
    BY <1>1, <1>6 DEF Opened
  <2>2. OverHolds(l)
    BY <1>1, <1>6 DEF LoginHolds
  <2>3. WindowHolds(l)'
    BY <1>1, <1>6, <2>1, <2>2 DEF WindowHolds, OverHolds, Grows, Times
  <2>4. ~WindowOver(bucket[l])'
    BY <1>1, <1>6 DEF WindowOver
  <2> QED BY <1>2, <2>3, <2>4 DEF LoginHolds
<1>7. CASE hit /\ ~WindowOver(b) /\ b.count \in 1..MaxOf(l) /\ d.count = b.count + 1 /\ d.resetAt = b.resetAt
  <2>1. WindowHolds(l) /\ b.count \in Nat
    BY <1>1, <1>7 DEF LoginHolds, BucketStates
  <2>2. Opened(l) \in Times /\ Opened(l) + 1 \in Times /\ Opened(l)' = Opened(l)
    BY <1>1, <1>7, <2>1 DEF WindowHolds, Times, Opened
  <2>3. WindowHolds(l)'
    BY <1>1, <1>7, <2>1, <2>2 DEF WindowHolds
  <2>4. ~WindowOver(bucket[l])'
    BY <1>1, <1>7, <2>1 DEF WindowOver
  <2> QED BY <1>2, <2>3, <2>4 DEF LoginHolds
<1> QED BY <1>4, <1>5, <1>6, <1>7, BucketChanges

\* A request that is let through counts in the window it opens, or in one that is not full.
LEMMA ThroughStep ==
  ASSUME ThrottleInv, NEW l \in Logins, NEW crowded \in BOOLEAN, BucketTakes(l, TRUE, crowded), ~Locked(bucket'[l]),
         Admits(l, TRUE), Grows(l)', instant' = instant
  PROVE  LoginHolds(l)' /\ \A start, end \in Times : end <= start + Window =>
                             admitted'[l][end] < admitted'[l][start] + 2 * MaxPerLogin
<1> USE ThrottleConstants
<1> DEFINE b == bucket[l]
           d == bucket'[l]
           A == admitted[l]
           B == admitted'[l]
<1>1. /\ \A t \in Times : B[t] = (IF t > instant THEN A[t] + 1 ELSE A[t]) /\ A[t] \in Nat
      /\ instant \in 0..Horizon /\ instant \in Times /\ instant + 1 \in Times /\ Times' = Times
      /\ b \in BucketStates /\ Grows(l) /\ LoginHolds(l)
  <2>1. \A t \in Times : B[t] = IF t > instant THEN A[t] + 1 ELSE A[t]
    BY DEF Admits
  <2>2. bucket[l] \in BucketStates /\ (\A t \in Times : admitted[l][t] \in Nat) /\ Grows(l) /\ LoginHolds(l)
    BY DEF ThrottleInv, ThrottleTypeOK, LoginHolds
  <2>3. instant \in 0..Horizon /\ instant \in Times /\ instant + 1 \in Times /\ Times' = Times
    BY DEF ThrottleInv, ThrottleTypeOK, Times
  <2> QED BY <2>1, <2>2, <2>3
<1>2. \A start, end \in Times : end <= start + Window => A[end] < A[start] + 2 * MaxPerLogin
  BY <1>1 DEF ThrottleInv, FewPerAccount
\* Once the new window holds, so does the limit of every stretch.
<1>3. ASSUME WindowHolds(l)'
      PROVE  \A start, end \in Times : end <= start + Window => B[end] < B[start] + 2 * MaxPerLogin
  <2> SUFFICES ASSUME NEW start \in Times, NEW end \in Times, end <= start + Window
               PROVE  B[end] < B[start] + 2 * MaxPerLogin
    OBVIOUS
  <2> DEFINE s == Opened(l)'
  <2>1. s \in 0..instant /\ s \in Times /\ s + 1 \in Times
    BY <1>1, <1>3 DEF WindowHolds, Times
  <2>2. /\ B[instant + 1] <= B[s] + MaxPerLogin
        /\ B[instant + 1] < B[s + 1] + MaxPerLogin
        /\ \A t \in Times : t + Window > s => B[s] < B[t] + MaxPerLogin
    BY <1>1, <1>3 DEF WindowHolds
  <2> HIDE DEF s
  <2>3. CASE end <= instant
    BY <1>1, <1>2, <2>3 DEF Times
  <2>4. CASE end > instant /\ start <= s
    <3>1. B[end] = B[instant + 1]
      BY <1>1, <2>4 DEF Grows, Times
    <3>2. start + Window > s
      BY <1>1, <2>1, <2>4 DEF Times
    <3>3. B[s] < B[start] + MaxPerLogin
      BY <2>2, <3>2
    <3> QED BY <1>1, <2>1, <2>2, <3>1, <3>3
  <2>5. CASE end > instant /\ start > s
    <3>1. B[end] = B[instant + 1]
      BY <1>1, <2>5 DEF Grows, Times
    <3>2. B[s + 1] <= B[start]
      BY <1>1, <2>1, <2>5 DEF Grows, Times
    <3> QED BY <1>1, <2>1, <2>2, <3>1, <3>2
  <2> QED BY <1>1, <2>1, <2>3, <2>4, <2>5 DEF Times
<1>4. CASE d = [count |-> 1, resetAt |-> instant + Window, lockedUntil |-> 0] /\ WindowOver(b)
  <2>1. Opened(l)' = instant
    BY <1>1, <1>4 DEF Opened
  <2>2. OverHolds(l)
    BY <1>1, <1>4 DEF LoginHolds
  <2>3. WindowHolds(l)'
    BY <1>1, <1>4, <2>1, <2>2 DEF WindowHolds, OverHolds, Grows, Times
  <2>4. ~WindowOver(bucket[l])'
    BY <1>1, <1>4 DEF WindowOver
  <2> QED BY <1>3, <2>3, <2>4 DEF LoginHolds
<1>5. CASE /\ ~WindowOver(b) /\ b.count \in 1..MaxOf(l) /\ d.count = b.count + 1 /\ d.resetAt = b.resetAt
           /\ d.lockedUntil = IF b.count = MaxOf(l) THEN instant + Lockout ELSE b.lockedUntil
  <2>1. WindowHolds(l) /\ b.count \in Nat
    BY <1>1, <1>5 DEF LoginHolds, BucketStates
  <2>2. Opened(l) \in Times /\ Opened(l) + 1 \in Times /\ Opened(l)' = Opened(l) /\ Opened(l) <= instant
    BY <1>1, <1>5, <2>1 DEF WindowHolds, Times, Opened
  <2>3. b.count < MaxPerLogin
    BY <1>1, <1>5 DEF Locked
  <2>4. b.resetAt > instant
    BY <1>1, <1>5, <2>1 DEF WindowOver, BucketStates
  <2>5. WindowHolds(l)'
    <3> DEFINE s == Opened(l)
    <3>1. B[instant + 1] = A[instant + 1] + 1 /\ B[s] = A[s] /\ (s < instant => B[s + 1] = A[s + 1])
          /\ (s = instant => B[s + 1] = B[instant + 1])
      BY <1>1, <2>2 DEF Times
    <3>2. /\ B[instant + 1] <= B[s] + d.count
          /\ B[instant + 1] <= B[s] + MaxPerLogin
          /\ B[instant + 1] < B[s + 1] + d.count
          /\ B[instant + 1] < B[s + 1] + MaxPerLogin
      BY <1>1, <1>5, <2>1, <2>2, <2>3, <3>1 DEF WindowHolds
    <3>3. \A t \in Times : t + Window > s => B[s] < B[t] + MaxPerLogin
      BY <1>1, <2>1, <2>2, <3>1 DEF WindowHolds, Times
    <3>4. \A t, u \in Times : t >= b.resetAt /\ u >= b.resetAt => B[t] = B[u]
      BY <1>1, <2>1, <2>4 DEF WindowHolds, Times, BucketStates
    <3>5. s \in 0..instant
      BY <2>1 DEF WindowHolds
    <3> QED BY <1>5, <2>2, <3>2, <3>3, <3>4, <3>5 DEF WindowHolds
  <2>6. ~WindowOver(bucket[l])'
    BY <1>1, <1>5, <2>1, <2>4 DEF WindowOver
  <2> QED BY <1>3, <2>5, <2>6 DEF LoginHolds
<1>6. CASE d = b /\ Locked(b)
  BY <1>6 DEF Locked
<1> QED BY <1>4, <1>5, <1>6, BucketChanges

\* An attempt, let in or turned away, keeps what is said of every bucket and login.
LEMMA AttemptStep ==
  ASSUME ThrottleInv, NEW host \in Hosts, NEW for \in {{}} \cup {{l} : l \in Logins}, NEW crowded \in BOOLEAN,
         Attempt(host, for, crowded)
  PROVE  ThrottleInv'
<1> USE ThrottleConstants
<1> DEFINE hits == {host} \cup for
           passes == \A k \in hits : ~Locked(bucket'[k])
<1>1. hits \subseteq BucketKeys /\ for \subseteq Logins
  BY DEF BucketKeys
<1>2. \A k \in BucketKeys : BucketTakes(k, k \in hits, crowded)
  BY DEF Attempt, BucketTakes
<1>3. /\ bucket' = [k \in BucketKeys |-> IF k \in hits THEN Hit(k, Swept(k, crowded)) ELSE Swept(k, crowded)]
      /\ instant' = instant /\ restarts' = restarts
  BY DEF Attempt
<1>4. \A k \in hits : bucket'[k] = IF k \in hits THEN Hit(k, Swept(k, crowded)) ELSE Swept(k, crowded)
  BY <1>1, <1>3
<1>5. /\ admitted' = [l \in Logins |-> [t \in Times |->
                         IF (l \in for /\ passes) /\ t > instant THEN admitted[l][t] + 1 ELSE admitted[l][t]]]
  <2> DEFINE open == \A k \in hits : ~Locked(IF k \in hits THEN Hit(k, Swept(k, crowded)) ELSE Swept(k, crowded))
  <2>1. admitted' = [l \in Logins |-> [t \in Times |->
                       IF (l \in for /\ open) /\ t > instant THEN admitted[l][t] + 1 ELSE admitted[l][t]]]
    BY DEF Attempt
  <2>2. passes = open
    BY <1>4
  <2> HIDE DEF hits, passes, open
  <2> QED BY <2>1, <2>2
<1>6. /\ \A l \in Logins : Admits(l, l \in for /\ passes)
      /\ admitted' \in [Logins -> [Times -> Nat]]
  BY <1>5 DEF Admits, ThrottleInv, ThrottleTypeOK
<1> HIDE DEF hits, passes
<1>7. \A k \in BucketKeys : bucket'[k] \in BucketStates /\ bucket'[k].count <= MaxOf(k) + 1 /\ BucketShape(k)'
  <2> SUFFICES ASSUME NEW k \in BucketKeys
               PROVE  bucket'[k] \in BucketStates /\ bucket'[k].count <= MaxOf(k) + 1 /\ BucketShape(k)'
    OBVIOUS
  <2> DEFINE hit == k \in hits
  <2>1. hit \in BOOLEAN /\ BucketTakes(k, hit, crowded)
    BY <1>2
  <2> HIDE DEF hit
  <2> QED BY <1>3, <2>1, BucketKept
<1>8. \A l \in Logins : LoginHolds(l)' /\ \A start, end \in Times : end <= start + Window =>
                             admitted'[l][end] < admitted'[l][start] + 2 * MaxPerLogin
  <2> SUFFICES ASSUME NEW l \in Logins
               PROVE  LoginHolds(l)' /\ \A start, end \in Times : end <= start + Window =>
                             admitted'[l][end] < admitted'[l][start] + 2 * MaxPerLogin
    OBVIOUS
  <2> DEFINE hit == l \in hits
             through == l \in for /\ passes
  <2>1. hit \in BOOLEAN /\ through \in BOOLEAN /\ BucketTakes(l, hit, crowded) /\ Admits(l, through)
    BY <1>2, <1>6
  <2>2. through => hit /\ ~Locked(bucket'[l])
    BY DEF hits, passes
  <2> HIDE DEF hit, through
  <2>3. Grows(l)'
    BY <1>3, <2>1, GrowthKept
  <2>4. CASE through
    <3>1. BucketTakes(l, TRUE, crowded) /\ Admits(l, TRUE)
      BY <2>1, <2>2, <2>4 DEF BucketTakes, Admits
    <3> QED BY <1>3, <2>2, <2>3, <2>4, <3>1, ThroughStep
  <2>5. CASE ~through
    <3>1. Admits(l, FALSE)
      BY <2>1, <2>5 DEF Admits
    <3> QED BY <1>3, <2>1, <2>3, <3>1, NotThroughStep
  <2> QED BY <2>4, <2>5
<1>9. bucket' \in [BucketKeys -> BucketStates]
  BY <1>3, <1>7
<1>10. FewPerAccount'
  BY <1>8 DEF FewPerAccount, Times
<1>11. ThrottleTypeOK'
  BY <1>3, <1>6, <1>7, <1>9 DEF ThrottleTypeOK, ThrottleInv, BucketStates, MaxOf, Times
<1> QED BY <1>7, <1>8, <1>10, <1>11 DEF ThrottleInv

-----------------------------------------------------------------------------
(* Time and restarts *)

\* Time passing opens no bucket early.
LEMMA TickStep == ASSUME ThrottleInv, Tick PROVE ThrottleInv'
<1> USE ThrottleConstants
<1>1. /\ instant \in 0..Horizon /\ instant' = instant + 1 /\ instant' \in 0..Horizon
      /\ UNCHANGED <<bucket, admitted, restarts>> /\ instant + 1 \in Times /\ instant + 2 \in Times
  BY DEF Tick, ThrottleInv, ThrottleTypeOK, Times
<1>2. ThrottleTypeOK' /\ FewPerAccount'
  BY <1>1 DEF ThrottleInv, ThrottleTypeOK, BucketStates, Times, FewPerAccount, MaxOf
<1>3. \A k \in BucketKeys : BucketShape(k)'
  <2> SUFFICES ASSUME NEW k \in BucketKeys PROVE BucketShape(k)'
    OBVIOUS
  <2>1. BucketShape(k) /\ bucket[k] \in BucketStates
    BY DEF ThrottleInv, ThrottleTypeOK
  <2> QED BY <1>1, <2>1 DEF BucketShape, BucketStates, MaxOf
<1>4. \A l \in Logins : LoginHolds(l)'
  <2> SUFFICES ASSUME NEW l \in Logins PROVE LoginHolds(l)'
    OBVIOUS
  <2>1. /\ LoginHolds(l) /\ bucket[l] \in BucketStates /\ \A t \in Times : admitted[l][t] \in Nat
        /\ UNCHANGED <<bucket, admitted>> /\ Times' = Times /\ Times \subseteq Nat
    BY <1>1 DEF ThrottleInv, ThrottleTypeOK, Times
  <2>2. Grows(l)' /\ admitted[l][instant + 2] = admitted[l][instant + 1]
    BY <1>1, <2>1 DEF LoginHolds, Grows
  <2>3. bucket[l].count > 0 => WindowHolds(l)'
    BY <1>1, <2>1, <2>2 DEF LoginHolds, WindowHolds, Opened
  <2>4. WindowOver(bucket[l])' => OverHolds(l)'
    <3>1. CASE WindowOver(bucket[l])
      BY <1>1, <2>1, <2>2, <3>1 DEF LoginHolds, OverHolds
    <3>2. CASE ~WindowOver(bucket[l]) /\ WindowOver(bucket[l])'
      <4>1. bucket[l].count > 0 /\ bucket[l].resetAt = instant + 1
        BY <1>1, <2>1, <3>2 DEF WindowOver, BucketStates
      <4>2. WindowHolds(l)
        BY <2>1, <4>1 DEF LoginHolds
      <4> DEFINE s == Opened(l)
      <4>3. s + Window = instant + 1 /\ s \in Times /\ s + 1 \in Times /\ s <= instant
        BY <1>1, <4>1, <4>2 DEF Opened, WindowHolds, Times
      <4>5. admitted[l][instant + 1] < admitted[l][s + 1] + MaxPerLogin
        BY <4>2 DEF WindowHolds
      <4> HIDE DEF s
      <4>4. \A t \in Times : t + Window > instant + 1 => admitted[l][instant + 1] < admitted[l][t] + MaxPerLogin
        <5> SUFFICES ASSUME NEW t \in Times, t + Window > instant + 1
                     PROVE  admitted[l][instant + 1] < admitted[l][t] + MaxPerLogin
          OBVIOUS
        <5>0. s \in Nat /\ t \in Nat /\ instant \in Nat
          BY <1>1, <2>1, <4>3
        <5>1. s + 1 <= t
          BY <4>3, <5>0
        <5>2. admitted[l][s + 1] <= admitted[l][t]
          BY <2>1, <4>3, <5>1 DEF LoginHolds, Grows
        <5>3. admitted[l][s + 1] \in Nat /\ admitted[l][t] \in Nat /\ admitted[l][instant + 1] \in Nat
          BY <1>1, <2>1, <4>3
        <5> QED BY <4>5, <5>2, <5>3
      <4> QED BY <1>1, <2>1, <2>2, <4>4 DEF OverHolds
    <3> QED BY <3>1, <3>2
  <2> QED BY <2>1, <2>2, <2>3, <2>4 DEF LoginHolds
<1> QED BY <1>2, <1>3, <1>4 DEF ThrottleInv

\* Empty buckets satisfy the invariant.
LEMMA EmptyBucketsHold == EmptyBuckets => ThrottleInv
BY EmptyHolds DEF EmptyBuckets, ThrottleInv, ThrottleTypeOK

\* The throttle starts with empty buckets.
LEMMA ThrottleStart == ThrottleInit => ThrottleInv
BY EmptyBucketsHold, ThrottleConstants DEF ThrottleInit, EmptyBuckets

\* Every step of the throttle, a restart included, keeps the invariant.
LEMMA ThrottleStep ==
  ASSUME ThrottleInv, [ThrottleNext]_throttleVars PROVE ThrottleInv'
<1> USE ThrottleConstants
<1>1. ASSUME NEW host \in Hosts, NEW for \in {{}} \cup {{l} : l \in Logins},
             NEW crowded \in {FALSE, \E k \in BucketKeys : Past(k) /\ bucket[k] # NoBucket},
             Attempt(host, for, crowded)
      PROVE  ThrottleInv'
  <2>1. crowded \in BOOLEAN
    OBVIOUS
  <2> QED BY <1>1, <2>1, AttemptStep
<1>2. CASE Restart
  <2>1. EmptyBuckets'
    BY <1>2 DEF Restart, ThrottleInv, ThrottleTypeOK, EmptyBuckets
  <2>2. EmptyBuckets' => ThrottleInv'
    BY EmptyBucketsHold, PTL
  <2> QED BY <2>1, <2>2
<1>3. CASE UNCHANGED throttleVars
  BY <1>3 DEF throttleVars, ThrottleInv, ThrottleTypeOK, FewPerAccount, BucketShape, LoginHolds,
     Grows, OverHolds,
              WindowHolds, Opened, WindowOver
<1> QED BY <1>1, <1>2, <1>3, TickStep DEF ThrottleNext

\* Buckets and what was admitted keep their types (login-throttle.service.ts).
THEOREM ThrottleTypeCorrect == ThrottleSpec => []ThrottleTypeOK
<1>1. ThrottleInv => ThrottleTypeOK
  BY DEF ThrottleInv
<1> QED BY <1>1, ThrottleStart, ThrottleStep, PTL DEF ThrottleSpec

\* However attempts, sweeps and restarts fall, a login is let in less than twice its limit
\* within any window, and whoever waits as long as a refusal said starts afresh
\* (login-throttle.service.ts).
THEOREM ThrottleCorrect == ThrottleSpec => []ThrottleHolds
<1>1. ThrottleInv => ThrottleHolds
  BY DEF ThrottleInv, ThrottleHolds, WaitingIsEnough, BucketShape
<1> QED BY <1>1, ThrottleStart, ThrottleStep, PTL DEF ThrottleSpec

-----------------------------------------------------------------------------
(* Sign-in *)

\* A request that will issue a session, or leave one for another, was let in like a session.
LetIn ==
  \A r \in Requests : request[r].at \in {"mfa", "issue", "refresh"} =>
    request[r].proof = password \/ request[r].late \/ cut \/ Busy({"revoke"})

\* Confirmations and removals that meet are tangled, and whoever is about to turn the second
\* factor on has a confirmed credential.
FactorsMeet ==
  /\ Busy(Confirming) /\ Busy(Removing) => tangled
  /\ Busy({"enable"}) => HasConfirmed \/ tangled

\* Nothing is proved by a password to come.
PastProofs ==
  /\ \A s \in sessions : s.proof <= password
  /\ \A r \in Requests : request[r].proof <= password

AuthInv ==
  /\ AuthTypeOK /\ SessionsAreExplained /\ SecondFactorUsable
  /\ PastProofs /\ LetIn /\ FactorsMeet


\* At the start there is no session, no token and no request.
LEMMA AuthStart == AuthInit => AuthInv
<1> SUFFICES ASSUME AuthInit PROVE AuthInv
  OBVIOUS
<1> USE AuthAssumption DEF AuthInit
<1>1. Unsent \in RequestStates
  BY DEF Unsent, RequestStates, AuthSteps, Ids
<1>2. AuthTypeOK
  <2>1. request \in [Requests -> RequestStates]
    BY <1>1
  <2>2. sessions \subseteq [id : Ids, proof : 0 .. Passwords, late : BOOLEAN]
    BY DEF Ids
  <2>3. credentials \subseteq [by : Requests, after : SUBSET Requests, confirmed : BOOLEAN]
    OBVIOUS
  <2>4. password \in 0 .. Passwords /\ authCrashes \in 0 .. AuthCrashes
    OBVIOUS
  <2>5. twoFactor \in BOOLEAN /\ resetTokens \subseteq Requests /\ cut \in BOOLEAN /\ tangled \in BOOLEAN
    OBVIOUS
  <2> QED BY <2>1, <2>2, <2>3, <2>4, <2>5 DEF AuthTypeOK
<1>3. \A r \in Requests : request[r].at = "idle"
  BY DEF Unsent
<1>4. SessionsAreExplained /\ SecondFactorUsable
  BY DEF SessionsAreExplained, SecondFactorUsable
<1>5. LetIn /\ FactorsMeet
  BY <1>3 DEF LetIn, FactorsMeet, Busy, Confirming
<1>6. PastProofs
  BY DEF PastProofs, Unsent
<1> QED BY <1>2, <1>4, <1>5, <1>6 DEF AuthInv

-----------------------------------------------------------------------------
(* Types *)

\* A request goes on to another step, or starts with what it has read of a session.
LEMMA GoTyped ==
  ASSUME AuthTypeOK, NEW r \in Requests, NEW step \in AuthSteps, Go(r, step)
  PROVE  request' \in [Requests -> RequestStates]
BY DEF AuthTypeOK, Go, RequestStates

\* A request that is given a state of its own keeps the types.
LEMMA StartTyped ==
  ASSUME AuthTypeOK, NEW r \in Requests, NEW v \in RequestStates, request' = [request EXCEPT ![r] = v]
  PROVE  request' \in [Requests -> RequestStates]
BY DEF AuthTypeOK

\* Every step of a sign-in keeps the types.
LEMMA AuthTypeStep ==
  ASSUME AuthTypeOK, [AuthNext]_authVars PROVE AuthTypeOK'
<1> USE AuthAssumption
<1>0. /\ password \in 0 .. Passwords /\ resetTokens \subseteq Requests /\ resetTokens \subseteq Ids
      /\ sessions \subseteq [id : Ids, proof : 0 .. Passwords, late : BOOLEAN]
      /\ credentials \subseteq [by : Requests, after : SUBSET Requests, confirmed : BOOLEAN]
      /\ Requests \subseteq Ids /\ FirstSession \in Ids /\ request \in [Requests -> RequestStates]
      /\ \A c \in credentials : c.by \in Requests
  BY DEF AuthTypeOK, Ids
<1>1. ASSUME NEW r \in Requests, Login(r) PROVE AuthTypeOK'
  <2>1. [Unsent EXCEPT !.at = IF twoFactor THEN "mfa" ELSE "issue", !.proof = password] \in RequestStates
    BY <1>0 DEF RequestStates, AuthSteps, Unsent
  <2>2. request' \in [Requests -> RequestStates]
    BY <1>1, <2>1, StartTyped DEF Login
  <2> QED BY <1>1, <2>2 DEF Login, accountVars, AuthTypeOK
<1>2. ASSUME NEW r \in Requests, NEW s \in sessions, NEW step \in AuthSteps, Enter(r, s, step) PROVE AuthTypeOK'
  <2>1. [at |-> step, of |-> s.id, proof |-> s.proof, late |-> s.late] \in RequestStates
    BY <1>0 DEF RequestStates
  <2>2. request' \in [Requests -> RequestStates]
    BY <1>2, <2>1, StartTyped DEF Enter
  <2> QED BY <1>2, <2>2 DEF Enter, accountVars, AuthTypeOK
<1>3. ASSUME NEW r \in Requests, NEW t \in Requests, ReadToken(r, t) PROVE AuthTypeOK'
  <2>1. [Unsent EXCEPT !.at = PasswordSteps[1], !.of = t] \in RequestStates
    <3>1. PasswordSteps[1] \in AuthSteps
      BY DEF PasswordSteps, AuthSteps
    <3>2. Unsent \in RequestStates /\ t \in Ids
      BY <1>0 DEF RequestStates, Unsent, AuthSteps
    <3>3. \A u \in RequestStates, step \in AuthSteps : [u EXCEPT !.at = step, !.of = t] \in RequestStates
      BY <3>2 DEF RequestStates
    <3> QED BY <3>1, <3>2, <3>3
  <2>2. request' \in [Requests -> RequestStates]
    BY <1>3, <2>1, StartTyped DEF ReadToken
  <2> QED BY <1>3, <2>2 DEF ReadToken, accountVars, AuthTypeOK
<1>4. ASSUME NEW r \in Requests, LoginMfa(r) PROVE AuthTypeOK'
  BY <1>4, GoTyped DEF LoginMfa, accountVars, AuthTypeOK, AuthSteps
<1>5. ASSUME NEW r \in Requests, IssueSession(r) PROVE AuthTypeOK'
  <2>1. [id |-> r, proof |-> request[r].proof, late |-> request[r].late] \in
          [id : Ids, proof : 0 .. Passwords, late : BOOLEAN]
    BY <1>0 DEF RequestStates
  <2>2. request' \in [Requests -> RequestStates]
    BY <1>5, GoTyped DEF IssueSession, AuthSteps
  <2> QED BY <1>5, <2>1, <2>2 DEF IssueSession, AuthTypeOK
<1>6. ASSUME NEW r \in Requests, RefreshToken(r) \/ Logout(r) PROVE AuthTypeOK'
  <2>1. request' \in [Requests -> RequestStates]
    BY <1>6, GoTyped DEF RefreshToken, Logout, AuthSteps
  <2>2. sessions' \subseteq sessions
    BY <1>6 DEF RefreshToken, Logout
  <2> QED BY <1>6, <2>1, <2>2 DEF RefreshToken, Logout, AuthTypeOK
<1>7. ASSUME NEW r \in Requests, DropTokens(r) \/ CreateToken(r) \/ SpendToken(r) PROVE AuthTypeOK'
  <2>1. request' \in [Requests -> RequestStates]
    BY <1>7, GoTyped DEF DropTokens, CreateToken, SpendToken, AuthSteps
  <2>2. resetTokens' \subseteq Requests
    BY <1>0, <1>7 DEF DropTokens, CreateToken, SpendToken
  <2> QED BY <1>7, <2>1, <2>2 DEF DropTokens, CreateToken, SpendToken, AuthTypeOK
<1>8. ASSUME NEW r \in Requests, UpdatePassword(r) PROVE AuthTypeOK'
  <2>1. request' \in [Requests -> RequestStates]
    BY <1>8, GoTyped DEF UpdatePassword, AuthSteps, After, PasswordSteps
  <2> QED BY <1>8, <2>1 DEF UpdatePassword, AuthTypeOK
<1>9. ASSUME NEW r \in Requests, RevokeSessions(r) PROVE AuthTypeOK'
  <2>1. \A q \in Requests : [request[q] EXCEPT !.at = After("revoke")] \in RequestStates
    BY <1>0 DEF RequestStates, AuthSteps, After, PasswordSteps
  <2>2. \A q \in Requests, l \in BOOLEAN : [request[q] EXCEPT !.late = l] \in RequestStates
    BY <1>0 DEF RequestStates
  <2>3. \A q \in Requests : (request[q].late \/ (request[q].at # "idle" /\ request[q].proof < password)) \in BOOLEAN
    OBVIOUS
  <2>4. request' \in [Requests -> RequestStates]
    BY <1>9, <2>1, <2>2, <2>3 DEF RevokeSessions
  <2> QED BY <1>9, <2>4 DEF RevokeSessions, AuthTypeOK
<1>10. ASSUME NEW r \in Requests,
              DropPending(r) \/ CreateCredential(r) \/ ConfirmCredential(r) \/ EnableFactor(r)
              \/ ForgetCredentials(r) \/ DisableFactor(r)
       PROVE  AuthTypeOK'
  <2>1. PICK step \in AuthSteps :
          Go(r, step) /\ UNCHANGED <<password, sessions, resetTokens, cut, tangled, authCrashes>>
    BY <1>10 DEF DropPending, CreateCredential, ConfirmCredential, EnableFactor,
       ForgetCredentials, DisableFactor,
                 Factor, AuthSteps, Confirming, Removing
  <2>2. request' \in [Requests -> RequestStates]
    BY <2>1, GoTyped
  <2>3. twoFactor' \in BOOLEAN
    BY <1>10 DEF DropPending, CreateCredential, ConfirmCredential, EnableFactor,
       ForgetCredentials, DisableFactor,
       AuthTypeOK
  <2>4. credentials' \subseteq [by : Requests, after : SUBSET Requests, confirmed : BOOLEAN]
    <3> DEFINE Kept == [by : Requests, after : SUBSET Requests, confirmed : BOOLEAN]
    <3>1. CASE DropPending(r)
      BY <1>0, <3>1 DEF DropPending
    <3>2. CASE CreateCredential(r)
      <4>1. [by |-> r, after |-> {c.by : c \in credentials}, confirmed |-> FALSE] \in Kept
        BY <1>0
      <4> QED BY <1>0, <3>2, <4>1 DEF CreateCredential
    <3>3. CASE ConfirmCredential(r)
      <4>1. \A c \in credentials : [c EXCEPT !.confirmed = TRUE] \in Kept
        BY <1>0
      <4> QED BY <1>0, <3>3, <4>1 DEF ConfirmCredential
    <3>4. CASE EnableFactor(r) \/ DisableFactor(r) \/ ForgetCredentials(r)
      BY <1>0, <3>4 DEF EnableFactor, DisableFactor, ForgetCredentials
    <3> QED BY <1>10, <3>1, <3>2, <3>3, <3>4
  <2> QED BY <2>1, <2>2, <2>3, <2>4 DEF AuthTypeOK
<1>11. ASSUME NEW r \in Requests, FindCredential(r) PROVE AuthTypeOK'
  <2>1. \A c \in credentials : [request[r] EXCEPT !.at = "confirm", !.of = c.by] \in RequestStates
    BY <1>0 DEF RequestStates, AuthSteps, Confirming
  <2>2. request' \in [Requests -> RequestStates]
    BY <1>11, <2>1, GoTyped, StartTyped DEF FindCredential, AuthSteps
  <2> QED BY <1>11, <2>2 DEF FindCredential, accountVars, AuthTypeOK
<1>12. CASE AuthCrash
  <2>1. \A r \in Requests : [request[r] EXCEPT !.at = "done"] \in RequestStates
    BY <1>0 DEF RequestStates, AuthSteps
  <2>2. request' \in [Requests -> RequestStates]
    BY <1>0, <1>12, <2>1 DEF AuthCrash
  <2>3. cut' \in BOOLEAN /\ tangled' \in BOOLEAN
    BY <1>12 DEF AuthCrash
  <2> QED BY <1>12, <2>2, <2>3 DEF AuthCrash, accountVars, AuthTypeOK
<1>13. CASE UNCHANGED authVars
  BY <1>13 DEF authVars, accountVars, AuthTypeOK
<1>14. \A step \in {"refresh", "logout", "update", "dropPending", "find", "forget"} :
         (IF step = "update" THEN PasswordSteps[1] ELSE step) \in AuthSteps
  BY DEF PasswordSteps, AuthSteps, Confirming, Removing
<1> QED
  BY <1>1, <1>2, <1>3, <1>4, <1>5, <1>6, <1>7, <1>8, <1>9, <1>10, <1>11, <1>12, <1>13, <1>14 DEF
     AuthNext

-----------------------------------------------------------------------------
(* Sessions and passwords *)

\* A step that lets in nobody anew, ends no revocation and changes no password.
LEMMA SessionsKept ==
  ASSUME AuthTypeOK, SessionsAreExplained, LetIn,
         UNCHANGED password, cut => cut', sessions' \subseteq sessions, Busy({"revoke"}) => Busy({"revoke"})',
         \A r \in Requests : \/ request'[r].at \notin {"mfa", "issue", "refresh"}
                             \/ /\ request'[r].proof = request[r].proof /\ request'[r].late = request[r].late
                                /\ request[r].at \in {"mfa", "issue", "refresh"}
                             \/ request'[r].proof = password
                             \/ \E s \in sessions : request'[r].proof = s.proof /\ request'[r].late = s.late
  PROVE  SessionsAreExplained' /\ LetIn'
<1>1. \A s \in sessions : s.proof = password \/ s.late \/ cut \/ Busy({"revoke"})
  BY DEF SessionsAreExplained, Busy, AtStep
<1>2. SessionsAreExplained'
  <2> SUFFICES ASSUME NEW s \in sessions' PROVE s.proof = password \/ s.late \/ cut' \/ Busy({"revoke"})'
    BY DEF SessionsAreExplained, Busy, AtStep
  <2> QED BY <1>1
<1>3. LetIn'
  BY <1>1 DEF LetIn
<1> QED BY <1>2, <1>3

\* Every session that is there is explained by the password it was proved with, step by step.
LEMMA SessionsStep ==
  ASSUME AuthInv, AuthNext PROVE SessionsAreExplained' /\ LetIn'
<1> USE DEF AuthInv
<1>0. request \in [Requests -> RequestStates] /\ SessionsAreExplained /\ LetIn /\ password \in 0 .. Passwords
  BY DEF AuthTypeOK
<1> DEFINE Way == {"mfa", "issue", "refresh"}
\* A request goes on, and not from a revocation.
<1>1. ASSUME NEW r \in Requests, NEW step, Go(r, step), step \in Way => request[r].at \in Way,
             request[r].at # "revoke", UNCHANGED <<password, cut>>, sessions' \subseteq sessions
      PROVE  SessionsAreExplained' /\ LetIn'
  <2>1. Busy({"revoke"}) => Busy({"revoke"})'
    BY <1>0, <1>1 DEF Go, Busy
  <2>2. \A q \in Requests : /\ request'[q].proof = request[q].proof /\ request'[q].late = request[q].late
                            /\ request'[q].at \in Way => request[q].at \in Way
    BY <1>0, <1>1 DEF Go, RequestStates
  <2> QED BY <1>0, <1>1, <2>1, <2>2, SessionsKept
<1>2. ASSUME NEW r \in Requests, Login(r) PROVE SessionsAreExplained' /\ LetIn'
  <2>1. Busy({"revoke"}) => Busy({"revoke"})'
    BY <1>0, <1>2 DEF Login, AtStep, Busy
  <2>2. \A q \in Requests : q # r => request'[q] = request[q]
    BY <1>0, <1>2 DEF Login
  <2>3. request'[r].proof = password
    BY <1>0, <1>2 DEF Login, Unsent
  <2>4. UNCHANGED <<password, cut, sessions>>
    BY <1>2 DEF Login, accountVars
  <2> QED BY <1>0, <2>1, <2>2, <2>3, <2>4, SessionsKept
<1>3. ASSUME NEW r \in Requests, NEW s \in sessions, NEW step, Enter(r, s, step) PROVE SessionsAreExplained' /\ LetIn'
  <2>1. Busy({"revoke"}) => Busy({"revoke"})'
    BY <1>0, <1>3 DEF Enter, AtStep, Busy
  <2>2. \A q \in Requests : q # r => request'[q] = request[q]
    BY <1>0, <1>3 DEF Enter
  <2>3. request'[r].proof = s.proof /\ request'[r].late = s.late
    BY <1>0, <1>3 DEF Enter
  <2>4. UNCHANGED <<password, cut, sessions>>
    BY <1>3 DEF Enter, accountVars
  <2> QED BY <1>0, <2>1, <2>2, <2>3, <2>4, SessionsKept
<1>4. ASSUME NEW r \in Requests, NEW t \in Requests, ReadToken(r, t) PROVE SessionsAreExplained' /\ LetIn'
  <2>1. Busy({"revoke"}) => Busy({"revoke"})'
    BY <1>0, <1>4 DEF ReadToken, AtStep, Busy
  <2>2. \A q \in Requests : q # r => request'[q] = request[q]
    BY <1>0, <1>4 DEF ReadToken
  <2>3. request'[r].at = "update"
    BY <1>0, <1>4 DEF ReadToken, Unsent, PasswordSteps
  <2>4. UNCHANGED <<password, cut, sessions>>
    BY <1>4 DEF ReadToken, accountVars
  <2> QED BY <1>0, <2>1, <2>2, <2>3, <2>4, SessionsKept
<1>5. ASSUME NEW r \in Requests, IssueSession(r) PROVE SessionsAreExplained' /\ LetIn'
  <2>1. request[r].at = "issue" /\ Go(r, "done") /\ UNCHANGED <<password, cut>>
    BY <1>5 DEF IssueSession, AtStep
  <2>2. Busy({"revoke"}) => Busy({"revoke"})'
    BY <1>0, <2>1 DEF Go, Busy
  <2>3. LetIn'
    BY <1>0, <2>1, <2>2 DEF LetIn, Go, RequestStates
  <2>4. request[r].proof = password \/ request[r].late \/ cut \/ Busy({"revoke"})
    BY <1>0, <2>1 DEF LetIn
  <2>5. \A s \in sessions : s.proof = password \/ s.late \/ cut \/ Busy({"revoke"})
    BY <1>0 DEF SessionsAreExplained, Busy, AtStep
  <2>6. \A s \in sessions' : s.proof = password \/ s.late \/ cut \/ Busy({"revoke"})
    BY <1>5, <2>4, <2>5 DEF IssueSession
  <2>7. SessionsAreExplained'
    BY <2>1, <2>2, <2>6 DEF SessionsAreExplained, Busy, AtStep
  <2> QED BY <2>3, <2>7
<1>6. ASSUME NEW r \in Requests, UpdatePassword(r) PROVE SessionsAreExplained' /\ LetIn'
  <2>1. Busy({"revoke"})'
    BY <1>0, <1>6 DEF UpdatePassword, Go, After, PasswordSteps, Busy, RequestStates
  <2> QED BY <2>1 DEF SessionsAreExplained, LetIn, Busy, AtStep
<1>7. ASSUME NEW r \in Requests, RevokeSessions(r) PROVE SessionsAreExplained' /\ LetIn'
  <2>1. SessionsAreExplained'
    BY <1>7 DEF RevokeSessions, SessionsAreExplained
  <2>2. request'[r].at = "spend"
    BY <1>0, <1>7 DEF RevokeSessions, After, PasswordSteps, RequestStates
  <2>3. \A q \in Requests : q # r =>
          /\ request'[q].at = request[q].at /\ request'[q].proof = request[q].proof
          /\ request[q].late \/ (request[q].at # "idle" /\ request[q].proof < password) => request'[q].late
    BY <1>0, <1>7 DEF RevokeSessions, RequestStates
  <2>4. \A q \in Requests : request[q].proof \in 0 .. Passwords /\ request[q].proof <= password
    BY <1>0 DEF RequestStates, PastProofs
  <2>5. \A q \in Requests : request'[q].at \in Way => request'[q].proof = password \/ request'[q].late
    BY <1>0, <2>2, <2>3, <2>4, AuthAssumption
  <2> QED BY <1>7, <2>1, <2>5 DEF RevokeSessions, LetIn
<1>8. CASE AuthCrash
  <2>1. Busy({"revoke"}) => cut'
    BY <1>8 DEF AuthCrash, Busy, AtStep
  <2>2. \A q \in Requests : request'[q] = request[q] \/ request'[q].at = "done"
    BY <1>0, <1>8 DEF AuthCrash, RequestStates
  <2>3. UNCHANGED <<password, sessions>> /\ (cut => cut')
    BY <1>8 DEF AuthCrash, accountVars
  <2> QED BY <1>0, <2>1, <2>2, <2>3 DEF LetIn, SessionsAreExplained, Busy, AtStep
<1>9. ASSUME NEW r \in Requests, LoginMfa(r) \/ RefreshToken(r) \/ Logout(r) PROVE SessionsAreExplained' /\ LetIn'
  BY <1>1, <1>9 DEF LoginMfa, RefreshToken, Logout, AtStep, accountVars
<1>10. ASSUME NEW r \in Requests, DropTokens(r) \/ CreateToken(r) \/ SpendToken(r)
       PROVE  SessionsAreExplained' /\ LetIn'
  BY <1>1, <1>10 DEF DropTokens, CreateToken, SpendToken, AtStep
<1>11. ASSUME NEW r \in Requests, NEW from, NEW to, Factor(r, from, to), from # "revoke", to \notin Way
       PROVE  SessionsAreExplained' /\ LetIn'
  BY <1>1, <1>11 DEF Factor, AtStep
<1>12. ASSUME NEW r \in Requests,
              DropPending(r) \/ CreateCredential(r) \/ ConfirmCredential(r) \/ EnableFactor(r)
              \/ ForgetCredentials(r) \/ DisableFactor(r)
       PROVE  SessionsAreExplained' /\ LetIn'
  BY <1>11, <1>12 DEF DropPending, CreateCredential, ConfirmCredential, EnableFactor,
     ForgetCredentials, DisableFactor
<1>13. ASSUME NEW r \in Requests, FindCredential(r) PROVE SessionsAreExplained' /\ LetIn'
  <2>1. CASE Go(r, "done")
    BY <1>1, <1>13, <2>1 DEF FindCredential, AtStep, accountVars
  <2>2. ASSUME NEW c \in credentials, request' = [request EXCEPT ![r] = [@ EXCEPT !.at = "confirm", !.of = c.by]]
        PROVE  SessionsAreExplained' /\ LetIn'
    <3>1. request[r].at = "find" /\ UNCHANGED <<password, cut, sessions>>
      BY <1>13 DEF FindCredential, AtStep, accountVars
    <3>2. \A q \in Requests : q # r => request'[q] = request[q]
      BY <1>0, <2>2
    <3>3. request'[r].at = "confirm"
      BY <1>0, <2>2 DEF RequestStates
    <3>4. Busy({"revoke"}) => Busy({"revoke"})'
      BY <3>1, <3>2 DEF Busy
    <3> QED BY <1>0, <3>1, <3>2, <3>3, <3>4, SessionsKept
  <2> QED BY <1>13, <2>1, <2>2 DEF FindCredential
<1> QED
  BY <1>2, <1>3, <1>4, <1>5, <1>6, <1>7, <1>8, <1>9, <1>10, <1>12, <1>13 DEF AuthNext

\* A proof is of a password there was.
LEMMA ProofsStep ==
  ASSUME AuthInv, AuthNext PROVE PastProofs'
<1>0. /\ request \in [Requests -> RequestStates] /\ PastProofs /\ password \in 0 .. Passwords
      /\ sessions \subseteq [id : Ids, proof : 0 .. Passwords, late : BOOLEAN]
  BY DEF AuthInv, AuthTypeOK
<1>1. password' = password \/ password' = password + 1
  <2>1. ASSUME NEW r \in Requests, UpdatePassword(r) PROVE password' = password + 1
    BY <2>1 DEF UpdatePassword
  <2>2. CASE AuthCrash
    BY <2>2 DEF AuthCrash, accountVars
  <2> QED
    BY <2>1, <2>2
    DEF AuthNext, Login, LoginMfa, IssueSession, Enter, RefreshToken, Logout, DropTokens, CreateToken, ReadToken,
        RevokeSessions, SpendToken, DropPending, CreateCredential, FindCredential, ConfirmCredential, EnableFactor,
        ForgetCredentials, DisableFactor, Factor, accountVars
<1>2. \A s \in sessions' : s \in sessions \/ \E r \in Requests : s.proof = request[r].proof
  <2>1. ASSUME NEW r \in Requests, IssueSession(r), NEW s \in sessions', s \notin sessions
        PROVE  s.proof = request[r].proof
    BY <2>1 DEF IssueSession
  <2>2. ASSUME NEW r \in Requests, RefreshToken(r) \/ Logout(r) \/ RevokeSessions(r)
        PROVE  sessions' \subseteq sessions
    BY <2>2 DEF RefreshToken, Logout, RevokeSessions
  <2>3. CASE AuthCrash
    BY <2>3 DEF AuthCrash, accountVars
  <2> QED
    BY <2>1, <2>2, <2>3
    DEF AuthNext, Login, LoginMfa, Enter, DropTokens, CreateToken, ReadToken, UpdatePassword, SpendToken, DropPending,
        CreateCredential, FindCredential, ConfirmCredential, EnableFactor, ForgetCredentials, DisableFactor, Factor,
        accountVars
<1> DEFINE Read == \A q \in Requests : \/ request'[q].proof = request[q].proof
                                       \/ request'[q].proof \in {0, password}
                                       \/ \E s \in sessions : request'[q].proof = s.proof
<1>3. Read
  <2>1. ASSUME NEW r \in Requests, NEW v, request' = [request EXCEPT ![r] = v],
               v.proof = request[r].proof \/ v.proof \in {0, password} \/ \E s \in sessions : v.proof = s.proof
        PROVE  Read
    BY <1>0, <2>1
  <2>2. ASSUME NEW r \in Requests, NEW step, Go(r, step) PROVE Read
    BY <1>0, <2>2 DEF Go, RequestStates
  <2>3. ASSUME NEW r \in Requests, Login(r) PROVE Read
    <3>1. [Unsent EXCEPT !.at = IF twoFactor THEN "mfa" ELSE "issue", !.proof = password].proof = password
      BY DEF Unsent
    <3> QED BY <2>1, <2>3, <3>1 DEF Login
  <2>4. ASSUME NEW r \in Requests, NEW s \in sessions, NEW step, Enter(r, s, step) PROVE Read
    BY <2>1, <2>4 DEF Enter
  <2>5. ASSUME NEW r \in Requests, NEW t \in Requests, ReadToken(r, t) PROVE Read
    <3>1. [Unsent EXCEPT !.at = PasswordSteps[1], !.of = t].proof = 0
      BY DEF Unsent
    <3> QED BY <2>1, <2>5, <3>1 DEF ReadToken
  <2>6. ASSUME NEW r \in Requests, FindCredential(r) PROVE Read
    <3>1. \A c \in credentials : [request[r] EXCEPT !.at = "confirm", !.of = c.by].proof = request[r].proof
      BY <1>0 DEF RequestStates
    <3> QED BY <2>1, <2>2, <2>6, <3>1 DEF FindCredential
  <2>7. CASE \E r \in Requests : RevokeSessions(r)
    BY <1>0, <2>7 DEF RevokeSessions, RequestStates
  <2>8. CASE AuthCrash
    BY <1>0, <2>8 DEF AuthCrash, RequestStates
  <2> QED
    BY <2>2, <2>3, <2>4, <2>5, <2>6, <2>7, <2>8
    DEF AuthNext, LoginMfa, IssueSession, RefreshToken, Logout, DropTokens, CreateToken, UpdatePassword, SpendToken,
        DropPending, CreateCredential, ConfirmCredential, EnableFactor, ForgetCredentials, DisableFactor, Factor
<1>4. \A q \in Requests : request[q].proof \in 0 .. Passwords /\ request[q].proof <= password
  BY <1>0 DEF PastProofs, RequestStates
<1>5. \A s \in sessions : s.proof \in 0 .. Passwords /\ s.proof <= password
  BY <1>0 DEF PastProofs
<1>6. (\A s \in sessions' : s.proof \in 0 .. Passwords /\ s.proof <= password)
      /\ (\A q \in Requests : request'[q].proof \in 0 .. Passwords /\ request'[q].proof <= password)
  BY <1>0, <1>2, <1>3, <1>4, <1>5, AuthAssumption
<1> QED BY <1>0, <1>1, <1>6, AuthAssumption DEF PastProofs

-----------------------------------------------------------------------------
(* The second factor *)

\* A step that touches neither the flag nor the credentials, and enters no confirmation or removal.
LEMMA FactorKept ==
  ASSUME AuthInv, UNCHANGED <<twoFactor, credentials>>, tangled => tangled',
         Busy({"disable"}) => Busy({"disable"})' \/ tangled',
         Busy(Confirming)' => Busy(Confirming), Busy(Removing)' => Busy(Removing),
         Busy({"enable"})' => Busy({"enable"})
  PROVE  SecondFactorUsable' /\ FactorsMeet'
BY DEF AuthInv, SecondFactorUsable, FactorsMeet, HasConfirmed

\* A second factor that is demanded can be given, whatever confirms or removes it.
LEMMA FactorStep ==
  ASSUME AuthInv, AuthNext PROVE SecondFactorUsable' /\ FactorsMeet'
<1>0. request \in [Requests -> RequestStates] /\ SecondFactorUsable /\ FactorsMeet
  BY DEF AuthInv, AuthTypeOK
<1> DEFINE Way == Confirming \cup Removing
\* What others are busy with stays.
<1>1. ASSUME NEW r \in Requests, NEW v, request' = [request EXCEPT ![r] = v], NEW steps
      PROVE  Busy(steps)' <=> v.at \in steps \/ \E q \in Requests \ {r} : request[q].at \in steps
  BY <1>0, <1>1 DEF Busy
<1>2. ASSUME NEW r \in Requests, NEW v, request' = [request EXCEPT ![r] = v], v.at \notin Way,
             request[r].at \notin Way, UNCHANGED <<twoFactor, credentials, tangled>>
      PROVE  SecondFactorUsable' /\ FactorsMeet'
  <2>1. \A steps \in {Confirming, Removing, {"enable"}, {"disable"}} : Busy(steps)' <=> Busy(steps)
    BY <1>0, <1>1, <1>2 DEF Busy, Confirming, Removing
  <2> QED BY <1>2, <2>1, FactorKept
<1>3. ASSUME NEW r \in Requests, NEW step, step \notin Way, Go(r, step), request[r].at \notin Way,
             UNCHANGED <<twoFactor, credentials, tangled>>
      PROVE  SecondFactorUsable' /\ FactorsMeet'
  <2>1. [request[r] EXCEPT !.at = step].at = step
    BY <1>0 DEF RequestStates
  <2> QED BY <1>2, <1>3, <2>1 DEF Go
<1>4. ASSUME NEW r \in Requests, Login(r) PROVE SecondFactorUsable' /\ FactorsMeet'
  <2>1. [Unsent EXCEPT !.at = IF twoFactor THEN "mfa" ELSE "issue", !.proof = password].at \notin Way
    BY DEF Unsent, Confirming, Removing
  <2>2. request[r].at \notin Way
    BY <1>4 DEF Login, AtStep, Confirming, Removing
  <2> QED BY <1>2, <1>4, <2>1, <2>2 DEF Login, accountVars
<1>5. ASSUME NEW r \in Requests, NEW t \in Requests, ReadToken(r, t) PROVE SecondFactorUsable' /\ FactorsMeet'
  <2>1. [Unsent EXCEPT !.at = PasswordSteps[1], !.of = t].at = "update"
    BY DEF Unsent, PasswordSteps
  <2>2. request[r].at \notin Way /\ "update" \notin Way
    BY <1>5 DEF ReadToken, AtStep, Confirming, Removing
  <2> QED BY <1>2, <1>5, <2>1, <2>2 DEF ReadToken, accountVars
<1>6. ASSUME NEW r \in Requests,
             LoginMfa(r) \/ IssueSession(r) \/ RefreshToken(r) \/ Logout(r) \/ DropTokens(r) \/ CreateToken(r)
             \/ SpendToken(r) \/ UpdatePassword(r)
      PROVE  SecondFactorUsable' /\ FactorsMeet'
  <2>1. PICK step \in {"issue", "done", "token", "revoke", "spend"} : Go(r, step)
    BY <1>6 DEF LoginMfa, IssueSession, RefreshToken, Logout, DropTokens, CreateToken,
       SpendToken, UpdatePassword,
                After, PasswordSteps
  <2>2. request[r].at \in {"mfa", "issue", "refresh", "logout", "idle", "token", "spend", "update"}
    BY <1>6 DEF LoginMfa, IssueSession, RefreshToken, Logout, DropTokens, CreateToken,
       SpendToken, UpdatePassword,
       AtStep
  <2>3. UNCHANGED <<twoFactor, credentials, tangled>>
    BY <1>6 DEF LoginMfa, IssueSession, RefreshToken, Logout, DropTokens, CreateToken,
       SpendToken, UpdatePassword,
                accountVars
  <2> QED BY <1>3, <2>1, <2>2, <2>3 DEF Confirming, Removing
<1>7. ASSUME NEW r \in Requests, NEW s \in sessions, NEW step, step \notin {"enable", "disable"}, Enter(r, s, step)
      PROVE  SecondFactorUsable' /\ FactorsMeet'
  <2> DEFINE v == [at |-> step, of |-> s.id, proof |-> s.proof, late |-> s.late]
  <2>1. request' = [request EXCEPT ![r] = v] /\ v.at = step /\ request[r].at \notin Way
    BY <1>7 DEF Enter, AtStep, Confirming, Removing
  <2> HIDE DEF v
  <2>2. \A steps \in {{"enable"}, {"disable"}} : Busy(steps)' <=> Busy(steps)
    BY <1>0, <1>1, <1>7, <2>1 DEF Busy, Confirming, Removing
  <2>3. \A steps \in {Confirming, Removing} : Busy(steps)' <=> step \in steps \/ Busy(steps)
    BY <1>0, <1>1, <1>7, <2>1 DEF Busy, Confirming, Removing
  <2>4. Busy(Confirming)' /\ Busy(Removing)' => tangled'
    BY <1>0, <1>7, <2>3 DEF Enter, FactorsMeet, Confirming, Removing
  <2>5. tangled => tangled'
    BY <1>7 DEF Enter
  <2> QED BY <1>0, <1>7, <2>2, <2>4, <2>5 DEF Enter, accountVars, SecondFactorUsable,
      FactorsMeet, HasConfirmed
<1>8. ASSUME NEW r \in Requests, RevokeSessions(r) PROVE SecondFactorUsable' /\ FactorsMeet'
  <2>1. \A q \in Requests : q # r => request'[q].at = request[q].at
    BY <1>0, <1>8 DEF RevokeSessions, RequestStates
  <2>2. request'[r].at = "spend" /\ request[r].at = "revoke"
    BY <1>0, <1>8 DEF RevokeSessions, RequestStates, After, PasswordSteps, AtStep
  <2>3. \A steps \in {Confirming, Removing, {"enable"}, {"disable"}} : Busy(steps)' <=> Busy(steps)
    BY <2>1, <2>2 DEF Busy, Confirming, Removing
  <2> QED BY <1>8, <2>3, FactorKept DEF RevokeSessions
<1>9. CASE AuthCrash
  <2>1. \A q \in Requests : (request'[q] = request[q] /\ request[q].at \notin Way) \/ request'[q].at = "done"
    BY <1>0, <1>9 DEF AuthCrash, RequestStates, Confirming, Removing
  <2>2. ~Busy(Confirming)' /\ ~Busy({"enable"})' /\ ~Busy(Removing)'
    BY <2>1 DEF Busy, Confirming, Removing
  <2>3. UNCHANGED <<twoFactor, credentials>> /\ (tangled => tangled') /\ (Busy({"disable"}) => tangled')
    BY <1>9 DEF AuthCrash, accountVars
  <2> QED BY <2>2, <2>3, FactorKept
\* The set-up of a second factor keeps a confirmed credential.
<1>10. ASSUME NEW r \in Requests, DropPending(r) \/ CreateCredential(r)
       PROVE  SecondFactorUsable' /\ FactorsMeet'
  <2>1. PICK step \in {"create", "done"} : Go(r, step)
    BY <1>10 DEF DropPending, CreateCredential, Factor
  <2>2. [request[r] EXCEPT !.at = step].at = step /\ request[r].at \notin Way
    BY <1>0, <1>10 DEF RequestStates, DropPending, CreateCredential, Factor, AtStep, Confirming,
       Removing
  <2>3. \A steps \in {Confirming, Removing, {"enable"}, {"disable"}} : Busy(steps)' <=> Busy(steps)
    BY <1>0, <1>1, <2>1, <2>2 DEF Go, Busy, Confirming, Removing
  <2>4. HasConfirmed => HasConfirmed'
    BY <1>10 DEF DropPending, CreateCredential, HasConfirmed
  <2>5. UNCHANGED <<twoFactor, tangled>>
    BY <1>10 DEF DropPending, CreateCredential, Factor
  <2> QED BY <1>0, <2>3, <2>4, <2>5 DEF SecondFactorUsable, FactorsMeet
\* A confirmation: the credential is read, confirmed, and the flag set.
<1>11. ASSUME NEW r \in Requests, FindCredential(r) PROVE SecondFactorUsable' /\ FactorsMeet'
  <2>1. PICK v : request' = [request EXCEPT ![r] = v] /\ v.at \in {"done", "confirm"}
    <3>1. [request[r] EXCEPT !.at = "done"].at = "done"
      BY <1>0 DEF RequestStates
    <3>2. \A c \in credentials : [request[r] EXCEPT !.at = "confirm", !.of = c.by].at = "confirm"
      BY <1>0 DEF RequestStates
    <3> QED BY <1>11, <3>1, <3>2 DEF FindCredential, Go
  <2>2. request[r].at = "find" /\ UNCHANGED <<twoFactor, credentials, tangled>>
    BY <1>11 DEF FindCredential, AtStep, accountVars
  <2>3. /\ Busy(Confirming)' => Busy(Confirming)
        /\ \A steps \in {Removing, {"enable"}, {"disable"}} : Busy(steps)' <=> Busy(steps)
    BY <1>0, <1>1, <2>1, <2>2 DEF Busy, Confirming, Removing
  <2> QED BY <2>2, <2>3, FactorKept
<1>12. ASSUME NEW r \in Requests, ConfirmCredential(r) PROVE SecondFactorUsable' /\ FactorsMeet'
  <2> DEFINE here == {c \in credentials : c.by = request[r].of}
  <2>1. /\ Go(r, IF here = {} THEN "done" ELSE "enable") /\ UNCHANGED <<twoFactor, tangled>>
        /\ credentials' = (credentials \ here) \cup {[c EXCEPT !.confirmed = TRUE] : c \in here}
        /\ request[r].at = "confirm"
    BY <1>12 DEF ConfirmCredential, Factor, AtStep
  <2>2. credentials \subseteq [by : Requests, after : SUBSET Requests, confirmed : BOOLEAN]
    BY DEF AuthInv, AuthTypeOK
  <2>3. \A c \in here : [c EXCEPT !.confirmed = TRUE].confirmed
    BY <2>2
  <2>4. (HasConfirmed \/ here # {}) => HasConfirmed'
    <3>1. ASSUME NEW c \in credentials, c.confirmed PROVE HasConfirmed'
      <4>1. CASE c \in here
        BY <2>1, <2>3, <4>1 DEF HasConfirmed
      <4>2. CASE c \notin here
        BY <2>1, <3>1, <4>2 DEF HasConfirmed
      <4> QED BY <4>1, <4>2
    <3>2. ASSUME NEW c \in here PROVE HasConfirmed'
      BY <2>1, <2>3 DEF HasConfirmed
    <3> QED BY <3>1, <3>2 DEF HasConfirmed
  <2> HIDE DEF here
  <2>5. PICK step \in {"done", "enable"} : Go(r, step) /\ (step = "enable" => here # {})
    BY <2>1
  <2>6. [request[r] EXCEPT !.at = step].at = step
    BY <1>0 DEF RequestStates
  <2>7. /\ Busy(Confirming)' => Busy(Confirming)
        /\ \A steps \in {Removing, {"disable"}} : Busy(steps)' <=> Busy(steps)
        /\ Busy({"enable"})' => Busy({"enable"}) \/ here # {}
    BY <1>0, <1>1, <2>1, <2>5, <2>6 DEF Go, Busy, Confirming, Removing
  <2> QED BY <1>0, <2>1, <2>4, <2>7 DEF SecondFactorUsable, FactorsMeet
<1>13. ASSUME NEW r \in Requests, EnableFactor(r) PROVE SecondFactorUsable' /\ FactorsMeet'
  <2>1. Go(r, "done") /\ UNCHANGED <<credentials, tangled>> /\ request[r].at = "enable"
    BY <1>13 DEF EnableFactor, Factor, AtStep
  <2>2. [request[r] EXCEPT !.at = "done"].at = "done"
    BY <1>0 DEF RequestStates
  <2>3. /\ Busy(Confirming)' => Busy(Confirming)
        /\ Busy({"enable"})' => Busy({"enable"})
        /\ \A steps \in {Removing, {"disable"}} : Busy(steps)' <=> Busy(steps)
    BY <1>0, <1>1, <2>1, <2>2 DEF Go, Busy, Confirming, Removing
  <2>4. Busy({"enable"})
    BY <2>1 DEF Busy
  <2> QED BY <1>0, <2>1, <2>3, <2>4 DEF SecondFactorUsable, FactorsMeet, HasConfirmed
\* A removal: the credentials, then the flag.
<1>14. ASSUME NEW r \in Requests, ForgetCredentials(r) PROVE SecondFactorUsable' /\ FactorsMeet'
  <2>1. Go(r, "disable") /\ UNCHANGED <<twoFactor, tangled>> /\ request[r].at = "forget"
    BY <1>14 DEF ForgetCredentials, Factor, AtStep
  <2>2. [request[r] EXCEPT !.at = "disable"].at = "disable"
    BY <1>0 DEF RequestStates
  <2>3. /\ \A steps \in {Removing, Confirming, {"enable"}} : Busy(steps)' <=> Busy(steps)
        /\ Busy({"disable"})' /\ Busy(Removing)
    BY <1>0, <1>1, <2>1, <2>2 DEF Go, Busy, Confirming, Removing
  <2>4. Busy({"enable"}) => Busy(Confirming)
    BY DEF Busy, Confirming
  <2> QED BY <1>0, <2>1, <2>3, <2>4 DEF SecondFactorUsable, FactorsMeet
<1>15. ASSUME NEW r \in Requests, DisableFactor(r) PROVE SecondFactorUsable' /\ FactorsMeet'
  <2>1. Go(r, "done") /\ UNCHANGED <<credentials, tangled>> /\ request[r].at = "disable" /\ ~twoFactor'
    BY <1>15 DEF DisableFactor, Factor, AtStep
  <2>2. [request[r] EXCEPT !.at = "done"].at = "done"
    BY <1>0 DEF RequestStates
  <2>3. /\ Busy(Removing)' => Busy(Removing)
        /\ \A steps \in {Confirming, {"enable"}} : Busy(steps)' <=> Busy(steps)
    BY <1>0, <1>1, <2>1, <2>2 DEF Go, Busy, Confirming, Removing
  <2> QED BY <1>0, <2>1, <2>3 DEF SecondFactorUsable, FactorsMeet, HasConfirmed
<1>16. \A step \in {"refresh", "logout", "update", "dropPending", "find", "forget"} :
         (IF step = "update" THEN PasswordSteps[1] ELSE step) \notin {"enable", "disable"}
  BY DEF PasswordSteps
<1> QED
  BY <1>4, <1>5, <1>6, <1>7, <1>8, <1>9, <1>10, <1>11, <1>12, <1>13, <1>14, <1>15, <1>16 DEF
     AuthNext

\* Every step of a sign-in keeps the invariant.
LEMMA AuthStep ==
  ASSUME AuthInv, [AuthNext]_authVars PROVE AuthInv'
<1>1. AuthTypeOK'
  BY AuthTypeStep DEF AuthInv
<1>2. CASE AuthNext
  BY <1>1, <1>2, SessionsStep, ProofsStep, FactorStep DEF AuthInv
<1>3. CASE UNCHANGED authVars
  BY <1>1, <1>3 DEF authVars, accountVars, AuthInv, SessionsAreExplained, SecondFactorUsable,
     PastProofs, LetIn,
                    FactorsMeet, HasConfirmed, Busy, AtStep
<1> QED BY <1>2, <1>3

\* Requests, sessions, tokens and the second factor keep their types (auth.service.ts).
THEOREM AuthTypeCorrect == AuthSpec => []AuthTypeOK
<1>1. AuthInv => AuthTypeOK
  BY DEF AuthInv
<1> QED BY <1>1, AuthStart, AuthStep, PTL DEF AuthSpec

\* A change of the password leaves no session opened with the one before, but for those that
\* were let in earlier or a revocation that has not run or has died; and an account that asks
\* for a code has a credential to check it with (auth.service.ts).
THEOREM AccountCorrect == AuthSpec => []AccountHolds
<1>1. AuthInv => AccountHolds
  BY DEF AuthInv, AccountHolds
<1> QED BY <1>1, AuthStart, AuthStep, PTL DEF AuthSpec

-----------------------------------------------------------------------------
(* The browser *)

\* A request whose page names an organization carries it.
SaysWhatItCarries ==
  \A t \in Tabs : tab[t].ask = "call" => tab[t].says \in tab[t].named \cup {NoOrg}

BrowserInv == BrowserTypeOK /\ StoredTogether /\ NobodyPutOut /\ ActsWhereNamed /\ SaysWhatItCarries

-----------------------------------------------------------------------------

\* The organization that resolveMembership chooses is the one that was named.
LEMMA ResolvedIsNamed ==
  ASSUME NEW u, NEW named, NEW o \in Resolved(u, named), NEW says \in named \cup {NoOrg}
  PROVE  says \in {o, NoOrg}
BY DEF Resolved

\* A browser starts with nothing stored and nothing on its way.
LEMMA BrowserStart == BrowserInit => BrowserInv
<1> SUFFICES ASSUME BrowserInit PROVE BrowserInv
  OBVIOUS
<1> USE BrowserAssumption DEF BrowserInit, Blank
<1>1. tab \in [Tabs -> TabStates]
  BY DEF TabStates, Pages
<1>2. issuedTo \in Seq(Users) /\ Len(issuedTo) \in 0..SignIns
  BY EmptySeq
<1>3. BrowserTypeOK
  BY <1>1, <1>2 DEF BrowserTypeOK
<1>4. StoredTogether /\ NobodyPutOut /\ ActsWhereNamed /\ SaysWhatItCarries
  BY DEF StoredTogether, NobodyPutOut, ActsWhereNamed, SaysWhatItCarries, Accepted
<1> QED BY <1>3, <1>4 DEF BrowserInv

\* A tab that is given a typed state leaves the tabs typed.
LEMMA TabTyped ==
  ASSUME tab \in [Tabs -> TabStates], NEW t \in Tabs, NEW v \in TabStates, tab' = [tab EXCEPT ![t] = v]
  PROVE  tab' \in [Tabs -> TabStates]
OBVIOUS

\* The changes that a tab makes to itself, one request or answer at a time.
LEMMA TabChanges ==
  ASSUME BrowserTypeOK, NEW t \in Tabs
  PROVE  /\ tab[t] \in TabStates /\ NoAsk(t) \in TabStates
         /\ \A p \in Pages : Blank(p) \in TabStates
         /\ \A s \in Issued \cup {NoRequest} :
              [tab[t] EXCEPT !.mounting = FALSE, !.check = s] \in TabStates
         /\ [tab[t] EXCEPT !.check = NoRequest] \in TabStates
         /\ [tab[t] EXCEPT !.ask = "credentials"] \in TabStates
         /\ [tab[t] EXCEPT !.ask = "logout", !.sent = token] \in TabStates
         /\ \A o \in OwnOrgs : [tab[t] EXCEPT !.check = NoRequest, !.own = o] \in TabStates
         /\ \A o \in OwnOrgs \cup {NoOrg}, d \in SUBSET OwnOrgs :
              [tab[t] EXCEPT !.ask = "call", !.sent = token, !.says = o, !.named = d] \in TabStates
<1>1. tab[t] \in TabStates
  BY DEF BrowserTypeOK
<1>2. token \in Issued \cup {0}
  BY DEF BrowserTypeOK
<1>3. \A p \in Pages : Blank(p) \in TabStates
  BY DEF TabStates, Blank
<1>4. NoAsk(t) \in TabStates
  BY <1>1 DEF TabStates, NoAsk
<1>5. \A s \in Issued \cup {NoRequest} : [tab[t] EXCEPT !.mounting = FALSE, !.check = s] \in TabStates
  BY <1>1 DEF TabStates
<1>6. [tab[t] EXCEPT !.check = NoRequest] \in TabStates
  BY <1>1 DEF TabStates
<1>7. [tab[t] EXCEPT !.ask = "credentials"] \in TabStates
  BY <1>1 DEF TabStates
<1>8. [tab[t] EXCEPT !.ask = "logout", !.sent = token] \in TabStates
  BY <1>1, <1>2 DEF TabStates
<1>9. \A o \in OwnOrgs : [tab[t] EXCEPT !.check = NoRequest, !.own = o] \in TabStates
  BY <1>1 DEF TabStates
<1>10. \A o \in OwnOrgs \cup {NoOrg}, d \in SUBSET OwnOrgs :
         [tab[t] EXCEPT !.ask = "call", !.sent = token, !.says = o, !.named = d] \in TabStates
  BY <1>1, <1>2 DEF TabStates
<1> QED BY <1>1, <1>3, <1>4, <1>5, <1>6, <1>7, <1>8, <1>9, <1>10

\* What the other variables keep, where a step issues no session.
BrowserRest ==
  issuedTo' = issuedTo /\ token' \in Issued \cup {0} /\ live' \subseteq Issued /\ putOut' \subseteq Issued
        /\ storedOrg' \in OwnOrgs \cup {NoOrg}
        /\ cookie' \in BOOLEAN /\ misplaced' \in BOOLEAN /\ blurred' \in BOOLEAN

\* A step of one tab, the rest of the browser as it was, keeps the types.
LEMMA BrowserRestTyped ==
  ASSUME BrowserTypeOK, BrowserRest, tab' \in [Tabs -> TabStates] PROVE BrowserTypeOK'
<1>1. Issued' = Issued /\ OwnOrgs' = OwnOrgs /\ TabStates' = TabStates
  BY DEF Issued, OwnOrgs, TabStates, BrowserRest
<1> QED BY <1>1 DEF BrowserTypeOK, BrowserRest

\* Every step keeps the types.
LEMMA BrowserTypeStep ==
  ASSUME BrowserTypeOK, [BrowserNext]_browserVars PROVE BrowserTypeOK'
<1> USE BrowserAssumption
<1>0. /\ issuedTo \in Seq(Users) /\ \A s \in Issued : issuedTo[s] \in Users
      /\ \A u \in Users : OwnOrg[u] \in OwnOrgs
      /\ token \in Issued \cup {0} /\ storedOrg \in OwnOrgs \cup {NoOrg}
      /\ tab \in [Tabs -> TabStates]
  BY DEF BrowserTypeOK, Issued, OwnOrgs
<1>1. ASSUME NEW t \in Tabs, Visit(t) PROVE BrowserTypeOK'
  <2>1. tab' \in [Tabs -> TabStates]
    BY <1>0, <1>1, TabChanges, TabTyped DEF Visit, Middleware, Pages
  <2>2. BrowserRest
    BY <1>0, <1>1 DEF Visit, BrowserRest, BrowserTypeOK, stored
  <2> QED BY <2>1, <2>2, BrowserRestTyped
<1>2. ASSUME NEW t \in Tabs, Mount(t) PROVE BrowserTypeOK'
  <2>1. tab' \in [Tabs -> TabStates]
    BY <1>0, <1>2, TabChanges, TabTyped DEF Mount
  <2>2. BrowserRest
    BY <1>0, <1>2 DEF Mount, BrowserRest, BrowserTypeOK, stored
  <2> QED BY <2>1, <2>2, BrowserRestTyped
<1>3. ASSUME NEW t \in Tabs, Submit(t) PROVE BrowserTypeOK'
  <2>1. tab' \in [Tabs -> TabStates]
    BY <1>0, <1>3, TabChanges, TabTyped DEF Submit
  <2>2. BrowserRest
    BY <1>0, <1>3 DEF Submit, BrowserRest, BrowserTypeOK, stored
  <2> QED BY <2>1, <2>2, BrowserRestTyped
<1>4. ASSUME NEW t \in Tabs, Call(t) PROVE BrowserTypeOK'
  <2>1. tab' \in [Tabs -> TabStates]
    <3>1. PICK says \in {NoOrg, tab[t].own}, d \in SUBSET OwnOrgs :
            tab' = [tab EXCEPT ![t] = [@ EXCEPT !.ask = "call", !.sent = token, !.says = says, !.named = d]]
      <4>1. PICK says \in {NoOrg, tab[t].own}, inAddress \in BOOLEAN :
              tab' = [tab EXCEPT ![t] = [@ EXCEPT !.ask = "call", !.sent = token, !.says = says,
                                                  !.named = ({says} \ {NoOrg}) \cup Headers(inAddress)]]
        BY <1>4 DEF Call
      <4>2. tab[t].own \in OwnOrgs \cup {NoOrg}
        BY <1>0 DEF TabStates
      <4>3. ({says} \ {NoOrg}) \cup Headers(inAddress) \in SUBSET OwnOrgs
        BY <1>0, <4>1, <4>2 DEF Headers
      <4> QED BY <4>1, <4>3
    <3>2. says \in OwnOrgs \cup {NoOrg}
      BY <1>0, <3>1 DEF TabStates
    <3> QED BY <1>0, <3>1, <3>2, TabChanges, TabTyped
  <2>2. BrowserRest
    BY <1>0, <1>4 DEF Call, BrowserRest, BrowserTypeOK, stored
  <2> QED BY <2>1, <2>2, BrowserRestTyped
<1>5. ASSUME NEW t \in Tabs, SignOut(t) PROVE BrowserTypeOK'
  <2>1. tab' \in [Tabs -> TabStates]
    BY <1>0, <1>5, TabChanges, TabTyped DEF SignOut
  <2>2. BrowserRest
    BY <1>0, <1>5 DEF SignOut, BrowserRest, BrowserTypeOK, stored
  <2> QED BY <2>1, <2>2, BrowserRestTyped
<1>6. ASSUME NEW t \in Tabs, KnownUser(t) PROVE BrowserTypeOK'
  <2>1. OwnOrg[issuedTo[tab[t].check]] \in OwnOrgs
    BY <1>0, <1>6 DEF KnownUser, TabStates
  <2>2. tab' \in [Tabs -> TabStates]
    BY <1>0, <1>6, <2>1, TabChanges, TabTyped DEF KnownUser
  <2>3. BrowserRest
    BY <1>0, <1>6, <2>1 DEF KnownUser, BrowserRest, BrowserTypeOK, stored
  <2> QED BY <2>2, <2>3, BrowserRestTyped
<1>7. ASSUME NEW t \in Tabs, UnknownUser(t) PROVE BrowserTypeOK'
  <2>1. tab' \in [Tabs -> TabStates]
    BY <1>0, <1>7, TabChanges, TabTyped DEF UnknownUser, Pages
  <2>2. BrowserRest
    BY <1>0, <1>7 DEF UnknownUser, BrowserRest, BrowserTypeOK, stored, Forget
  <2> QED BY <2>1, <2>2, BrowserRestTyped
<1>8. ASSUME NEW t \in Tabs, NotSignedIn(t) PROVE BrowserTypeOK'
  <2>1. tab' \in [Tabs -> TabStates]
    BY <1>0, <1>8, TabChanges, TabTyped DEF NotSignedIn
  <2>2. BrowserRest
    BY <1>0, <1>8 DEF NotSignedIn, BrowserRest, BrowserTypeOK, stored
  <2> QED BY <2>1, <2>2, BrowserRestTyped
<1>9. ASSUME NEW t \in Tabs, Acted(t) PROVE BrowserTypeOK'
  <2>1. tab' \in [Tabs -> TabStates]
    BY <1>0, <1>9, TabChanges, TabTyped DEF Acted
  <2>2. BrowserRest
    BY <1>0, <1>9 DEF Acted, BrowserRest, BrowserTypeOK, stored
  <2> QED BY <2>1, <2>2, BrowserRestTyped
<1>10. ASSUME NEW t \in Tabs, NotDone(t) PROVE BrowserTypeOK'
  <2>1. tab' \in [Tabs -> TabStates]
    BY <1>0, <1>10, TabChanges, TabTyped DEF NotDone
  <2>2. BrowserRest
    BY <1>0, <1>10 DEF NotDone, BrowserRest, BrowserTypeOK, stored
  <2> QED BY <2>1, <2>2, BrowserRestTyped
<1>11. ASSUME NEW t \in Tabs, Unauthorized(t) PROVE BrowserTypeOK'
  <2>1. tab' \in [Tabs -> TabStates]
    BY <1>0, <1>11, TabChanges, TabTyped DEF Unauthorized, Pages
  <2>2. BrowserRest
    BY <1>0, <1>11 DEF Unauthorized, BrowserRest, BrowserTypeOK, stored, Forget
  <2> QED BY <2>1, <2>2, BrowserRestTyped
<1>12. ASSUME NEW t \in Tabs, SignedOut(t) PROVE BrowserTypeOK'
  <2>1. tab' \in [Tabs -> TabStates]
    BY <1>0, <1>12, TabChanges, TabTyped DEF SignedOut, Pages
  <2>2. BrowserRest
    BY <1>0, <1>12 DEF SignedOut, BrowserRest, BrowserTypeOK, stored
  <2> QED BY <2>1, <2>2, BrowserRestTyped
<1>13. ASSUME NEW t \in Tabs, NEW u \in Users, SignedIn(t, u) PROVE BrowserTypeOK'
  <2>1. /\ issuedTo' \in Seq(Users) /\ Len(issuedTo') = Len(issuedTo) + 1 /\ Len(issuedTo') \in 0..SignIns
    BY <1>0, <1>13, AppendProperties DEF SignedIn, Sessions, BrowserTypeOK
  <2>2. Issued \subseteq Issued' /\ Len(issuedTo') \in Issued' /\ TabStates \subseteq TabStates'
    BY <1>0, <2>1 DEF Issued, TabStates, OwnOrgs
  <2>3. tab' \in [Tabs -> TabStates]
    BY <1>0, <1>13, TabChanges, TabTyped DEF SignedIn, Pages
  <2>4. tab' \in [Tabs -> TabStates']
    BY <2>2, <2>3
  <2> QED BY <1>0, <1>13, <2>1, <2>2, <2>4 DEF SignedIn, BrowserTypeOK, OwnOrgs
<1>14. ASSUME NEW s \in live, SessionEnds(s) PROVE BrowserTypeOK'
  <2>1. BrowserRest /\ tab' \in [Tabs -> TabStates]
    BY <1>0, <1>14 DEF SessionEnds, BrowserRest, BrowserTypeOK, stored
  <2> QED BY <2>1, BrowserRestTyped
<1>15. CASE CookieExpires
  <2>1. BrowserRest /\ tab' \in [Tabs -> TabStates]
    BY <1>0, <1>15 DEF CookieExpires, BrowserRest, BrowserTypeOK
  <2> QED BY <2>1, BrowserRestTyped
<1>16. CASE UNCHANGED browserVars
  <2>1. BrowserRest /\ tab' \in [Tabs -> TabStates]
    BY <1>0, <1>16 DEF browserVars, stored, BrowserRest, BrowserTypeOK
  <2> QED BY <2>1, BrowserRestTyped
<1> QED
  BY <1>1, <1>2, <1>3, <1>4, <1>5, <1>6, <1>7, <1>8, <1>9, <1>10, <1>11, <1>12, <1>13, <1>14,
     <1>15, <1>16
  DEF BrowserNext

-----------------------------------------------------------------------------

\* A step of a tab that leaves alone what a request names, or sends none, keeps what the others carry.
LEMMA OthersCarry ==
  ASSUME SaysWhatItCarries, tab \in [Tabs -> TabStates], NEW t \in Tabs, NEW v,
         tab' = [tab EXCEPT ![t] = v], v.ask = "call" => v.says \in v.named \cup {NoOrg}
  PROVE  SaysWhatItCarries'
BY DEF SaysWhatItCarries

\* A request that was answered or is not sent yet names nothing.
LEMMA CarryStep ==
  ASSUME BrowserInv, BrowserNext PROVE SaysWhatItCarries'
<1>0. SaysWhatItCarries /\ tab \in [Tabs -> TabStates]
  BY DEF BrowserInv, BrowserTypeOK
<1>1. \A t \in Tabs : /\ NoAsk(t).ask = "none"
                      /\ \A p \in Pages : Blank(p).ask = "none"
                      /\ tab[t].ask = "call" => tab[t].says \in tab[t].named \cup {NoOrg}
  BY <1>0 DEF NoAsk, Blank, TabStates, SaysWhatItCarries
<1>2. ASSUME NEW t \in Tabs, NEW p \in Pages,
             tab' = [tab EXCEPT ![t] = Blank(p)] \/ tab' = [tab EXCEPT ![t] = NoAsk(t)]
      PROVE  SaysWhatItCarries'
  <2>1. Blank(p).ask # "call" /\ NoAsk(t).ask # "call"
    BY <1>1
  <2>2. CASE tab' = [tab EXCEPT ![t] = Blank(p)]
    BY <1>0, <2>1, <2>2, OthersCarry
  <2>3. CASE tab' = [tab EXCEPT ![t] = NoAsk(t)]
    BY <1>0, <2>1, <2>3, OthersCarry
  <2> QED BY <1>2, <2>2, <2>3
<1>3. ASSUME NEW t \in Tabs,
             \/ Visit(t) \/ NotSignedIn(t) \/ Acted(t) \/ NotDone(t) \/ Unauthorized(t) \/ SignedOut(t)
             \/ \E u \in Users : SignedIn(t, u)
      PROVE  SaysWhatItCarries'
  <2>1. \E p \in Pages : tab' = [tab EXCEPT ![t] = Blank(p)] \/ tab' = [tab EXCEPT ![t] = NoAsk(t)]
    BY <1>3 DEF Visit, NotSignedIn, Acted, NotDone, Unauthorized, SignedOut, SignedIn,
       Middleware, Pages
  <2> QED BY <1>2, <2>1
\* The answer to GET /auth/me changes nothing of the other request of the tab.
<1>4. ASSUME NEW t \in Tabs, NEW v, tab' = [tab EXCEPT ![t] = v],
             v.ask = tab[t].ask, v.says = tab[t].says, v.named = tab[t].named
      PROVE  SaysWhatItCarries'
  BY <1>0, <1>1, <1>4, OthersCarry
<1>5. ASSUME NEW t \in Tabs, Mount(t) PROVE SaysWhatItCarries'
  <2> DEFINE v == [tab[t] EXCEPT !.mounting = FALSE, !.check = IF token = 0 THEN NoRequest ELSE token]
  <2>1. tab' = [tab EXCEPT ![t] = v]
    BY <1>5 DEF Mount
  <2>2. v.ask = tab[t].ask /\ v.says = tab[t].says /\ v.named = tab[t].named
    BY <1>0 DEF TabStates
  <2> HIDE DEF v
  <2> QED BY <1>4, <2>1, <2>2
<1>6. ASSUME NEW t \in Tabs, KnownUser(t) PROVE SaysWhatItCarries'
  <2> DEFINE v == [tab[t] EXCEPT !.check = NoRequest, !.own = OwnOrg[issuedTo[tab[t].check]]]
  <2>1. tab' = [tab EXCEPT ![t] = v]
    BY <1>6 DEF KnownUser
  <2>2. v.ask = tab[t].ask /\ v.says = tab[t].says /\ v.named = tab[t].named
    BY <1>0 DEF TabStates
  <2> HIDE DEF v
  <2> QED BY <1>4, <2>1, <2>2
<1>7. ASSUME NEW t \in Tabs, UnknownUser(t) PROVE SaysWhatItCarries'
  <2> DEFINE v == [tab[t] EXCEPT !.check = NoRequest]
  <2>1. tab' = [tab EXCEPT ![t] = Blank("login")] \/ tab' = [tab EXCEPT ![t] = v]
    BY <1>7 DEF UnknownUser
  <2>2. v.ask = tab[t].ask /\ v.says = tab[t].says /\ v.named = tab[t].named
    BY <1>0 DEF TabStates
  <2> HIDE DEF v
  <2>3. CASE tab' = [tab EXCEPT ![t] = v]
    BY <1>4, <2>2, <2>3
  <2>4. CASE tab' = [tab EXCEPT ![t] = Blank("login")]
    BY <1>2, <2>4 DEF Pages
  <2> QED BY <2>1, <2>3, <2>4
<1>8. ASSUME NEW t \in Tabs, Submit(t) \/ SignOut(t) PROVE SaysWhatItCarries'
  <2> DEFINE v == [tab[t] EXCEPT !.ask = "credentials"]
             w == [tab[t] EXCEPT !.ask = "logout", !.sent = token]
  <2>1. tab' = [tab EXCEPT ![t] = v] \/ tab' = [tab EXCEPT ![t] = w]
    BY <1>8 DEF Submit, SignOut
  <2>2. v.ask # "call" /\ w.ask # "call"
    BY <1>0 DEF TabStates
  <2> HIDE DEF v, w
  <2> QED BY <1>0, <2>1, <2>2, OthersCarry
<1>9. ASSUME NEW t \in Tabs, Call(t) PROVE SaysWhatItCarries'
  <2>1. PICK says \in {NoOrg, tab[t].own}, inAddress \in BOOLEAN :
          tab' = [tab EXCEPT ![t] = [@ EXCEPT !.ask = "call", !.sent = token, !.says = says,
                                              !.named = ({says} \ {NoOrg}) \cup Headers(inAddress)]]
    BY <1>9 DEF Call
  <2> DEFINE d == ({says} \ {NoOrg}) \cup Headers(inAddress)
             v == [tab[t] EXCEPT !.ask = "call", !.sent = token, !.says = says, !.named = d]
  <2>2. says \in d \cup {NoOrg}
    OBVIOUS
  <2>3. tab' = [tab EXCEPT ![t] = v]
    BY <2>1
  <2> HIDE DEF d
  <2>4. v.says = says /\ v.named = d
    BY <1>0 DEF TabStates
  <2> HIDE DEF v
  <2> QED BY <1>0, <2>2, <2>3, <2>4, OthersCarry
<1>10. CASE UNCHANGED tab
  BY <1>0, <1>10 DEF SaysWhatItCarries
<1> QED BY <1>3, <1>5, <1>6, <1>7, <1>8, <1>9, <1>10 DEF BrowserNext, SessionEnds, CookieExpires

\* What is stored still belongs together, and no live session was put out.
LEMMA BrowserStoredStep ==
  ASSUME BrowserInv, BrowserNext PROVE StoredTogether' /\ NobodyPutOut'
<1>0. /\ StoredTogether /\ NobodyPutOut /\ issuedTo \in Seq(Users) /\ live \subseteq Issued
      /\ token \in Issued \cup {0} /\ cookie \in BOOLEAN /\ blurred \in BOOLEAN
      /\ tab \in [Tabs -> TabStates]
  BY DEF BrowserInv, BrowserTypeOK
<1> USE <1>0 DEF StoredTogether, NobodyPutOut, Accepted, stored, Issued
<1>1. ASSUME NEW t \in Tabs,
             Visit(t) \/ Submit(t) \/ Call(t) \/ SignOut(t) \/ NotSignedIn(t) \/ Acted(t) \/ NotDone(t)
      PROVE  StoredTogether' /\ NobodyPutOut'
  BY <1>1 DEF Visit, Submit, Call, SignOut, NotSignedIn, Acted, NotDone
<1>2. ASSUME NEW t \in Tabs, Mount(t) PROVE StoredTogether' /\ NobodyPutOut'
  BY <1>2 DEF Mount
<1>3. ASSUME NEW t \in Tabs, KnownUser(t) PROVE StoredTogether' /\ NobodyPutOut'
  <2> DEFINE s == tab[t].check
  <2>1. /\ s \in live /\ storedOrg' = OwnOrg[issuedTo[s]] /\ cookie' = TRUE /\ blurred' = (token # s)
        /\ token' = token /\ issuedTo' = issuedTo /\ live' = live /\ putOut' = putOut
    BY <1>3 DEF KnownUser
  <2>2. s # 0
    BY <2>1
  <2> HIDE DEF s
  <2> QED BY <2>1, <2>2
<1>4. ASSUME NEW t \in Tabs, UnknownUser(t) PROVE StoredTogether' /\ NobodyPutOut'
  BY <1>4 DEF UnknownUser, Forget
<1>5. ASSUME NEW t \in Tabs, Unauthorized(t) PROVE StoredTogether' /\ NobodyPutOut'
  BY <1>5 DEF Unauthorized, Forget
<1>6. ASSUME NEW t \in Tabs, SignedOut(t) PROVE StoredTogether' /\ NobodyPutOut'
  BY <1>6 DEF SignedOut
<1>7. ASSUME NEW t \in Tabs, NEW u \in Users, SignedIn(t, u) PROVE StoredTogether' /\ NobodyPutOut'
  <2>1. issuedTo'[Len(issuedTo) + 1] = u
    BY <1>7, AppendProperties DEF SignedIn
  <2> QED BY <1>7, <2>1 DEF SignedIn
<1>8. ASSUME NEW s \in live, SessionEnds(s) PROVE StoredTogether' /\ NobodyPutOut'
  BY <1>8 DEF SessionEnds
<1>9. CASE CookieExpires
  BY <1>9 DEF CookieExpires
<1> QED BY <1>1, <1>2, <1>3, <1>4, <1>5, <1>6, <1>7, <1>8, <1>9 DEF BrowserNext

\* A request acts where its page named, or on no organization it did not name.
LEMMA BrowserActsStep ==
  ASSUME BrowserInv, BrowserNext PROVE ActsWhereNamed'
<1>0. ActsWhereNamed /\ SaysWhatItCarries /\ misplaced \in BOOLEAN
  BY DEF BrowserInv, BrowserTypeOK
<1>1. ASSUME NEW t \in Tabs, Acted(t) PROVE ActsWhereNamed'
  <2>1. tab[t].says \in tab[t].named \cup {NoOrg}
    BY <1>0, <1>1 DEF SaysWhatItCarries, Acted
  <2>2. PICK o \in Resolved(issuedTo[tab[t].sent], tab[t].named) :
          misplaced' = (misplaced \/ tab[t].says \notin {o, NoOrg})
    BY <1>1 DEF Acted
  <2>3. tab[t].says \in {o, NoOrg}
    BY <2>1, ResolvedIsNamed
  <2> QED BY <1>0, <2>2, <2>3 DEF ActsWhereNamed
<1>2. CASE UNCHANGED misplaced
  BY <1>0, <1>2 DEF ActsWhereNamed
<1> QED
  BY <1>1, <1>2 DEF BrowserNext, Visit, Mount, Submit, Call, SignOut, KnownUser, UnknownUser,
     NotSignedIn,
                    NotDone, Unauthorized, SignedIn, SignedOut, SessionEnds, CookieExpires

\* Every step of a browser keeps the invariant.
LEMMA BrowserStep ==
  ASSUME BrowserInv, [BrowserNext]_browserVars PROVE BrowserInv'
<1>1. BrowserTypeOK'
  BY BrowserTypeStep DEF BrowserInv
<1>2. CASE BrowserNext
  BY <1>1, <1>2, CarryStep, BrowserStoredStep, BrowserActsStep DEF BrowserInv
<1>3. CASE UNCHANGED browserVars
  BY <1>1, <1>3 DEF BrowserInv, browserVars, stored, StoredTogether, NobodyPutOut, ActsWhereNamed,
                    SaysWhatItCarries, Accepted
<1> QED BY <1>2, <1>3

-----------------------------------------------------------------------------

\* What browsers, their tabs and the server hold keeps its type (hooks/useAuth.ts, lib/api.ts).
THEOREM BrowserTypeCorrect == BrowserSpec => []BrowserTypeOK
<1>1. BrowserInit => BrowserTypeOK
  BY BrowserStart DEF BrowserInv
<1> QED BY <1>1, BrowserTypeStep, PTL DEF BrowserSpec

\* The cookie, the token and the organization a browser stores belong together, nobody is put
\* out of a live session by another one's answer, and a request acts on the organization its
\* page named (useAuth, the interceptors of lib/api.ts, resolve-membership.ts).
THEOREM BrowserCorrect == BrowserSpec => []BrowserHolds
<1>1. BrowserInv => BrowserHolds
  BY DEF BrowserInv, BrowserHolds
<1> QED BY <1>1, BrowserStart, BrowserStep, PTL DEF BrowserSpec

-----------------------------------------------------------------------------
(* Subscriptions *)

\* The decisions that have read a request and not written yet.
Weighing == {"existing", "approve", "reject"}

\* A request is decided about only while it is pending, unless two decisions overlap.
Weighed ==
  /\ \A d \in Decisions, a \in Asks : deciding[d].at \in Weighing /\ a \in deciding[d].on =>
       asked[a].status = "PENDING" \/ a \in overlapped
  /\ \A d, e \in Decisions, a \in Asks :
       /\ d # e /\ deciding[d].at \in Weighing /\ deciding[e].at \in Weighing
       /\ a \in deciding[d].on /\ a \in deciding[e].on
       => a \in overlapped
  /\ \A d \in Decisions : \A a, b \in deciding[d].on : a = b

\* Whatever is about a request comes after it was filed.
FiledFirst ==
  /\ \A a \in Asks : asked[a].status # "NONE" => asking[a].at = "filed"
  /\ \A a \in subscription.by : asked[a].status # "NONE"
  /\ \A d \in Decisions : \A a \in deciding[d].on : asked[a].status # "NONE"

SubscriptionInv == SubscriptionTypeOK /\ SubscribedAsAsked /\ Weighed /\ FiledFirst

\* At the start nobody has subscribed.
LEMMA SubscriptionStart == SubscriptionInit => SubscriptionInv
BY SubscriptionAssumption
DEF SubscriptionInit, SubscriptionInv, SubscriptionTypeOK, SubscribedAsAsked, Weighed, FiledFirst, Weighing

\* An organization that asks disturbs nothing that was filed.
LEMMA AskingKeeps ==
  ASSUME SubscriptionInv, NEW a \in Asks,
         CheckSubscription(a) \/ CheckPending(a) \/ ReadPlan(a) \/ FileRequest(a)
  PROVE  SubscriptionInv'
<1> USE SubscriptionAssumption DEF SubscriptionInv
<1>1. SubscriptionTypeOK'
  <2>1. CASE CheckSubscription(a) \/ CheckPending(a)
    <3>1. PICK at \in {"refused", "pending", "plan"} : asking' = [asking EXCEPT ![a].at = at]
      BY <2>1 DEF CheckSubscription, CheckPending, AskStep
    <3>2. asking' \in [Asks -> [at : {"idle", "pending", "plan", "file", "filed", "refused"}, terms : 0 .. Editions]]
      BY <3>1 DEF SubscriptionTypeOK
    <3> QED BY <2>1, <3>2 DEF SubscriptionTypeOK, CheckSubscription, CheckPending
  <2>2. CASE ReadPlan(a)
    BY <2>2 DEF SubscriptionTypeOK, ReadPlan
  <2>3. CASE FileRequest(a)
    BY <2>3 DEF SubscriptionTypeOK, FileRequest, AskStep
  <2> QED BY <2>1, <2>2, <2>3
<1>2. asking[a].at # "filed"
  BY DEF CheckSubscription, CheckPending, ReadPlan, FileRequest, AskStep
<1>3. asked[a].status = "NONE" /\ a \notin subscription.by /\ (\A d \in Decisions : a \notin deciding[d].on)
  BY <1>2 DEF FiledFirst
<1>4. UNCHANGED <<subscription, deciding, overlapped>> /\ (\A b \in Asks : b # a => asked'[b] = asked[b])
  BY DEF CheckSubscription, CheckPending, ReadPlan, FileRequest, AskStep, SubscriptionTypeOK
<1>5. asked'[a].status \in {"NONE", "PENDING"} /\ (asked'[a].status # "NONE" => asking'[a].at = "filed")
  BY <1>3 DEF CheckSubscription, CheckPending, ReadPlan, FileRequest, AskStep, SubscriptionTypeOK
<1>6. \A b \in Asks : b # a => asking'[b] = asking[b]
  BY DEF CheckSubscription, CheckPending, ReadPlan, FileRequest, AskStep, SubscriptionTypeOK
<1>7. SubscribedAsAsked'
  BY <1>3, <1>4, <1>5 DEF SubscribedAsAsked, SubscriptionTypeOK
<1>8. Weighed'
  BY <1>3, <1>4, <1>5 DEF Weighed, SubscriptionTypeOK
<1>9. FiledFirst'
  <2>1. \A b \in Asks : asked'[b].status # "NONE" => asking'[b].at = "filed"
    BY <1>4, <1>5, <1>6 DEF FiledFirst
  <2>2. \A b \in Asks : asked[b].status # "NONE" => asked'[b].status # "NONE"
    BY <1>3, <1>4
  <2>3. subscription.by \subseteq Asks /\ \A d \in Decisions : deciding[d].on \subseteq Asks
    BY DEF SubscriptionTypeOK
  <2> QED BY <1>4, <2>1, <2>2, <2>3 DEF FiledFirst
<1> QED BY <1>1, <1>7, <1>8, <1>9

\* A decision reads a request.
LEMMA ReadingKeeps ==
  ASSUME SubscriptionInv, NEW d \in Decisions, NEW a \in Asks, ReadRequest(d, a)
  PROVE  SubscriptionInv'
<1> USE SubscriptionAssumption DEF SubscriptionInv, ReadRequest
<1>1. SubscriptionTypeOK'
  BY DEF SubscriptionTypeOK
<1>2. SubscribedAsAsked'
  BY DEF SubscribedAsAsked
<1>3. Weighed'
  BY DEF Weighed, SubscriptionTypeOK, Weighing
<1>4. FiledFirst'
  BY DEF FiledFirst, SubscriptionTypeOK
<1> QED BY <1>1, <1>2, <1>3, <1>4

\* A decision is written, or finds that it cannot be.
LEMMA DecidingKeeps ==
  ASSUME SubscriptionInv, NEW d \in Decisions, Approve(d) \/ Reject(d) \/ ReadExisting(d)
  PROVE  SubscriptionInv'
<1> USE SubscriptionAssumption DEF SubscriptionInv
<1>1. CASE ReadExisting(d)
  <2>1. SubscriptionTypeOK'
    <3>1. [deciding[d] EXCEPT !.at = "approve", !.exists = subscription.status # "NONE"]
            \in [at : {"idle", "existing", "approve", "reject", "done"}, on : SUBSET Asks, exists : BOOLEAN]
      BY DEF SubscriptionTypeOK
    <3>2. deciding' = [deciding EXCEPT ![d] = [@ EXCEPT !.at = "approve", !.exists = subscription.status # "NONE"]]
      BY <1>1 DEF ReadExisting
    <3> QED BY <1>1, <3>1, <3>2 DEF SubscriptionTypeOK, ReadExisting
  <2>2. Weighed' /\ FiledFirst' /\ SubscribedAsAsked'
    BY <1>1 DEF Weighed, FiledFirst, SubscribedAsAsked, SubscriptionTypeOK, ReadExisting, Weighing
  <2> QED BY <2>1, <2>2
<1>2. CASE Approve(d)
  <2>1. PICK a \in deciding[d].on : ApproveFor(d, asked[a].terms)
    BY <1>2 DEF Approve
  <2>2. a \in Asks /\ deciding[d].on = {a}
    BY <2>1 DEF SubscriptionTypeOK, Weighed
  <2>3. SubscriptionTypeOK'
    BY <2>1, <2>2 DEF SubscriptionTypeOK, ApproveFor, Decide
  <2>4. deciding' = [deciding EXCEPT ![d].at = "done"] /\ deciding[d].at = "approve"
    BY <2>1 DEF ApproveFor, Decide
  <2>5. CASE UNCHANGED <<asked, subscription>>
    BY <2>1, <2>3, <2>4, <2>5 DEF Weighed, FiledFirst, SubscribedAsAsked, SubscriptionTypeOK,
       Weighing, ApproveFor
  <2>6. CASE /\ subscription' = [status |-> "ACTIVE", terms |-> asked[a].terms, by |-> {a}]
             /\ asked' = [b \in Asks |-> IF b = a THEN [asked[b] EXCEPT !.status = "APPROVED"] ELSE asked[b]]
    <3>1. /\ asked'[a].status = "APPROVED" /\ asked'[a].terms = asked[a].terms
          /\ \A b \in Asks : b # a => asked'[b] = asked[b]
      BY <2>2, <2>6 DEF SubscriptionTypeOK
    <3>2. SubscribedAsAsked'
      BY <2>2, <2>6, <3>1 DEF SubscribedAsAsked
    <3>3. Weighed'
      BY <2>1, <2>2, <2>4, <3>1 DEF Weighed, SubscriptionTypeOK, Weighing, ApproveFor
    <3>4. FiledFirst'
      BY <2>1, <2>2, <2>4, <2>6, <3>1 DEF FiledFirst, SubscriptionTypeOK, ApproveFor
    <3> QED BY <2>3, <3>2, <3>3, <3>4
  <2> QED BY <2>1, <2>2, <2>5, <2>6 DEF ApproveFor
<1>3. CASE Reject(d)
  <2>1. SubscriptionTypeOK'
    BY <1>3 DEF SubscriptionTypeOK, Reject, Decide
  <2>2. \A b \in Asks : /\ b \notin deciding[d].on => asked'[b] = asked[b]
                        /\ b \in deciding[d].on => /\ asked'[b].status = "REJECTED"
                                                   /\ asked'[b].terms = asked[b].terms
    BY <1>3 DEF Reject, SubscriptionTypeOK
  <2>3. deciding' = [deciding EXCEPT ![d].at = "done"] /\ deciding[d].at = "reject"
    BY <1>3 DEF Reject, Decide
  <2>4. UNCHANGED <<asking, subscription, overlapped>>
    BY <1>3 DEF Reject
  <2>5. SubscribedAsAsked'
    BY <2>2, <2>3, <2>4 DEF SubscribedAsAsked, Weighed, Weighing, SubscriptionTypeOK
  <2>6. Weighed'
    BY <2>2, <2>3, <2>4 DEF Weighed, Weighing, SubscriptionTypeOK
  <2>7. FiledFirst'
    BY <2>2, <2>3, <2>4 DEF FiledFirst, SubscriptionTypeOK
  <2> QED BY <2>1, <2>5, <2>6, <2>7
<1> QED BY <1>1, <1>2, <1>3

\* Every step of a subscription, or of the plans, keeps the invariant.
LEMMA SubscriptionStep ==
  ASSUME SubscriptionInv, [SubscriptionNext]_subVars PROVE SubscriptionInv'
<1>1. CASE EditPlan
  BY <1>1, SubscriptionAssumption
  DEF EditPlan, SubscriptionInv, SubscriptionTypeOK, SubscribedAsAsked, Weighed, FiledFirst
<1>2. CASE UNCHANGED subVars
  BY <1>2 DEF subVars, SubscriptionInv, SubscriptionTypeOK, SubscribedAsAsked, Weighed, FiledFirst
<1> QED BY <1>1, <1>2, AskingKeeps, ReadingKeeps, DecidingKeeps DEF SubscriptionNext

\* Subscriptions, plans and requests keep their types (subscriptions.service.ts).
THEOREM SubscriptionTypeCorrect == SubscriptionSpec => []SubscriptionTypeOK
<1>1. SubscriptionInv => SubscriptionTypeOK
  BY DEF SubscriptionInv
<1> QED BY <1>1, SubscriptionStart, SubscriptionStep, PTL DEF SubscriptionSpec

\* A subscription is on the terms its request was filed with and that were approved, and what
\* was approved is subscribed to (subscriptions.service.ts).
THEOREM SubscribedCorrect == SubscriptionSpec => []SubscribedAsAsked
<1>1. SubscriptionInv => SubscribedAsAsked
  BY DEF SubscriptionInv
<1> QED BY <1>1, SubscriptionStart, SubscriptionStep, PTL DEF SubscriptionSpec

-----------------------------------------------------------------------------
(* Roles and their grants *)

RoleStates == [name : SystemNames \cup {"none", "TEAM", "TEAM2"}, own : BOOLEAN, system : BOOLEAN]
ActorStates == [kind : Scripts \cup {"none", "edit", "assign", "done"},
                at : {"end", "clear", "grant", "codes", "create", "roles", "make", "held", "stale", "next"},
                todo : SUBSET (Codes \cup SystemNames), row : SUBSET RoleRows,
                list : SUBSET (Codes \cup SystemNames \cup RoleRows)]
AtRoles == {"roles", "make", "held", "stale", "next"}

\* A system role of that name, and one that may do what the map says.
IsGlobal(r, name, rows) == r \in RoleRows /\ rows[r].name = name /\ ~rows[r].own
MayDoAll(r, name, grants) == \A c \in MapGrants(name) : <<r, c>> \in grants
Mapped(name, rows, grants) == \E r \in RoleRows : IsGlobal(r, name, rows) /\ MayDoAll(r, name, grants)

\* What an edit or an assignment is about, and the codes of its list.
EditGood(x, rows) ==
  /\ x.kind = "edit" => /\ x.at \in {"clear", "grant"} /\ x.list \subseteq Codes
                        /\ \E r \in RoleRows : x.row = {r} /\ rows[r].own
  /\ x.kind = "assign" => /\ x.at = "end"
                          /\ \E r \in RoleRows : x.row = {r} /\ rows[r] # NoRole /\ rows[r].name # "SUPER"
  /\ x.kind \in {"none", "done"} => x.at = "end"

\* Where a script is: the codes first, then one role after the other.
ScriptGood(x, rows, grants, codes) ==
  x.kind \in Scripts =>
    /\ x.at \in {"codes", "create"} \cup AtRoles
    /\ x.at = "codes" => x.todo = Codes
    /\ x.at = "create" => x.todo \subseteq Codes
    /\ x.at \in AtRoles => Codes \subseteq codes /\ x.todo \subseteq SystemNames
                           /\ \A name \in SystemNames \ x.todo : Mapped(name, rows, grants)
    /\ x.at = "stale" => x.kind = "revoke"
    /\ x.at = "make" => \E name \in x.todo : x.list = {name}
    /\ x.at \in {"held", "stale", "next"} =>
         \E name \in x.todo, r \in RoleRows :
           /\ x.list = {name, r} /\ IsGlobal(r, name, rows)
           /\ x.at \in {"stale", "next"} => MayDoAll(r, name, grants)

RoleRowGood(r, x, grants) ==
  /\ x.name \in SystemNames => ~x.own
  /\ x = NoRole => \A c \in Codes : <<r, c>> \notin grants

RoleRowsGood ==
  /\ \A r \in RoleRows : RoleRowGood(r, role[r], granted)
  /\ role[AgentRow] = [name |-> "AGENT", own |-> FALSE, system |-> TRUE]
  /\ \A r \in holder : role[r] # NoRole

\* Two edits of a role at a time leave it torn, and one that has cleared it finds it empty.
EditsRole(x, r) == x.kind = "edit" /\ x.row = {r}
EditsApart ==
  \A r \in RoleRows \ torn : \A a \in RoleActors : EditsRole(actor[a], r) =>
    /\ \A b \in RoleActors : EditsRole(actor[b], r) => a = b
    /\ actor[a].at = "grant" => \A c \in Codes : <<r, c>> \notin granted

\* Whoever makes a system role has found none, and is alone.
MakersApart ==
  ~twins =>
    /\ \A name \in SystemNames : \A r, q \in RoleRows : IsGlobal(r, name, role) /\ IsGlobal(q, name, role) => r = q
    /\ \A a, b \in RoleActors : actor[a].at = "make" /\ actor[b].at = "make" => a = b
    /\ \A a \in RoleActors : actor[a].at = "make" =>
         \A name \in SystemNames \cap actor[a].list : \A r \in RoleRows : ~IsGlobal(r, name, role)

\* What the earlier version granted stays until somebody revokes.
OldKept ==
  \/ \A c \in OldCodes : <<AgentRow, c>> \in granted
  \/ "revoke" \in done \/ roleFaults > 0
  \/ \E a \in RoleActors : actor[a].kind = "revoke" /\ actor[a].at \in AtRoles

RolesTyped == RolesTypeOK /\ actor \in [RoleActors -> ActorStates]
ActorsGood == \A a \in RoleActors : EditGood(actor[a], role) /\ ScriptGood(actor[a], role, granted, catalogue)
DoneMapped == done \cap {"sync", "revoke", "seed"} # {} => \A name \in SystemNames : Mapped(name, role, granted)
HolderIsAppointed == \A r \in holder : role[r].name = "SUPER" => "bootstrap" \in done

RolesInv ==
  /\ RolesTyped /\ RoleRowsGood /\ ActorsGood
  /\ EditsApart /\ MakersApart /\ OldKept /\ TeamRolesAreTheirs /\ DoneMapped /\ HolderIsAppointed

-----------------------------------------------------------------------------
RolesGrow ==
  /\ catalogue \subseteq catalogue'
  /\ \A r \in RoleRows : role[r] # NoRole => role'[r] = role[r]
  /\ \A r \in RoleRows : \A c \in Codes :
       role[r].name \in SystemNames /\ c \in MapGrants(role[r].name) /\ <<r, c>> \in granted => <<r, c>> \in granted'

\* A role of the system keeps what the map grants it, whatever else grows.
LEMMA MappedStays ==
  ASSUME RolesTyped, RolesGrow, NEW name \in SystemNames
  PROVE  /\ \A r \in RoleRows : IsGlobal(r, name, role) =>
              IsGlobal(r, name, role') /\ (MayDoAll(r, name, granted) => MayDoAll(r, name, granted'))
         /\ Mapped(name, role, granted) => Mapped(name, role', granted')
<1>1. ASSUME NEW r \in RoleRows, IsGlobal(r, name, role)
      PROVE  IsGlobal(r, name, role') /\ (MayDoAll(r, name, granted) => MayDoAll(r, name, granted'))
  <2>1. role[r].name = name /\ ~role[r].own /\ role[r] # NoRole
    BY <1>1 DEF IsGlobal, NoRole, SystemNames
  <2>2. role'[r] = role[r]
    BY <2>1 DEF RolesGrow
  <2>3. MapGrants(name) \subseteq Codes
    BY DEF MapGrants
  <2> QED BY <1>1, <2>1, <2>2, <2>3 DEF IsGlobal, MayDoAll, RolesGrow
<1> QED BY <1>1 DEF Mapped, IsGlobal

\* And the other actors stand where they stood.
LEMMA ActorsStay ==
  ASSUME RolesTyped, RolesGrow, NEW x \in ActorStates
  PROVE  /\ EditGood(x, role) => EditGood(x, role')
         /\ ScriptGood(x, role, granted, catalogue) => ScriptGood(x, role', granted', catalogue')
<1>1. ASSUME EditGood(x, role) PROVE EditGood(x, role')
  <2>1. ASSUME NEW r \in RoleRows, role[r].own PROVE role'[r] = role[r]
    BY <2>1 DEF RolesGrow, NoRole
  <2> QED BY <1>1, <2>1 DEF EditGood, RolesGrow
<1>2. ASSUME ScriptGood(x, role, granted, catalogue), x.kind \in Scripts
      PROVE  ScriptGood(x, role', granted', catalogue')
  <2>1. catalogue \subseteq catalogue'
    BY DEF RolesGrow
  <2>2. x.at \in AtRoles => \A name \in SystemNames \ x.todo : Mapped(name, role', granted')
    BY <1>2, MappedStays DEF ScriptGood
  <2>3. ASSUME x.at \in {"held", "stale", "next"}
        PROVE  \E name \in x.todo, r \in RoleRows :
                 /\ x.list = {name, r} /\ IsGlobal(r, name, role')
                 /\ x.at \in {"stale", "next"} => MayDoAll(r, name, granted')
    <3>1. x.todo \subseteq SystemNames
      BY <1>2, <2>3 DEF ScriptGood, AtRoles
    <3>2. PICK name \in x.todo, r \in RoleRows :
                 /\ x.list = {name, r} /\ IsGlobal(r, name, role)
                 /\ x.at \in {"stale", "next"} => MayDoAll(r, name, granted)
      BY <1>2, <2>3 DEF ScriptGood
    <3>3. /\ IsGlobal(r, name, role')
          /\ MayDoAll(r, name, granted) => MayDoAll(r, name, granted')
      BY <3>1, <3>2, MappedStays
    <3> QED BY <3>2, <3>3
  <2> QED BY <1>2, <2>1, <2>2, <2>3 DEF ScriptGood
<1> QED BY <1>1, <1>2 DEF ScriptGood

\* A step that moves one actor, and lets the catalogue and the roles grow.
LEMMA ActorMoves ==
  ASSUME RolesTyped, ActorsGood, DoneMapped, RolesGrow, RolesTypeOK', NEW a \in RoleActors, NEW x \in ActorStates,
         actor' = [actor EXCEPT ![a] = x],
         EditGood(x, role'), ScriptGood(x, role', granted', catalogue')
  PROVE  /\ RolesTyped' /\ ActorsGood'
         /\ \A b \in RoleActors : actor'[b] = IF b = a THEN x ELSE actor[b]
         /\ (done' \cap {"sync", "revoke", "seed"} = done \cap {"sync", "revoke", "seed"} => DoneMapped')
<1>1. actor' \in [RoleActors -> ActorStates]
  BY DEF RolesTyped
<1>2. \A b \in RoleActors : actor'[b] = IF b = a THEN x ELSE actor[b]
  BY DEF RolesTyped
<1>3. ASSUME NEW b \in RoleActors
      PROVE  EditGood(actor'[b], role') /\ ScriptGood(actor'[b], role', granted', catalogue')
  <2>1. CASE b = a
    BY <1>2, <2>1
  <2>2. CASE b # a
    <3>1. actor'[b] = actor[b] /\ actor[b] \in ActorStates
      BY <1>2, <2>2 DEF RolesTyped
    <3> QED BY <3>1, ActorsStay DEF ActorsGood
  <2> QED BY <2>1, <2>2
<1>4. ASSUME done' \cap {"sync", "revoke", "seed"} = done \cap {"sync", "revoke", "seed"}
      PROVE  DoneMapped'
  BY <1>4, MappedStays DEF DoneMapped
<1> QED BY <1>1, <1>2, <1>3, <1>4 DEF RolesTyped, ActorsGood

-----------------------------------------------------------------------------
\* A step of an actor that is no edit, and leaves the roles and the grants of a team alone.
LeavesTeams(a, x) ==
  /\ actor' = [actor EXCEPT ![a] = x] /\ actor[a].kind # "edit" /\ x.kind # "edit"
  /\ edited' = edited /\ torn' = torn /\ \A r \in RoleRows : role'[r].own => role[r].own
  /\ \A r \in RoleRows : role[r].own => \A c \in Codes : <<r, c>> \in granted' <=> <<r, c>> \in granted

\* Such a step keeps the edits apart, and the teams' roles as they set them.
LEMMA LeavesStep ==
  ASSUME RolesInv, NEW a \in RoleActors, NEW x \in ActorStates, LeavesTeams(a, x)
  PROVE  EditsApart' /\ TeamRolesAreTheirs'
<1>1. \A b \in RoleActors : actor'[b] = IF b = a THEN x ELSE actor[b]
  BY DEF RolesInv, RolesTyped, LeavesTeams
<1>2. \A b \in RoleActors : actor'[b].kind = "edit" <=> actor[b].kind = "edit"
  BY <1>1 DEF LeavesTeams
<1>3. \A b \in RoleActors : actor[b].kind = "edit" => actor'[b] = actor[b]
  BY <1>1 DEF LeavesTeams
<1>4. \A b \in RoleActors, r \in RoleRows : EditsRole(actor[b], r) => role[r].own
  BY DEF RolesInv, ActorsGood, EditGood, EditsRole
<1>5. EditsApart'
  <2> SUFFICES ASSUME NEW r \in RoleRows \ torn', NEW b \in RoleActors, EditsRole(actor'[b], r)
               PROVE  /\ \A d \in RoleActors : EditsRole(actor'[d], r) => b = d
                      /\ actor'[b].at = "grant" => \A c \in Codes : <<r, c>> \notin granted'
    BY DEF EditsApart
  <2>1. EditsRole(actor[b], r) /\ actor'[b] = actor[b] /\ r \in RoleRows \ torn
    BY <1>2, <1>3 DEF EditsRole, LeavesTeams
  <2>2. \A d \in RoleActors : EditsRole(actor'[d], r) => EditsRole(actor[d], r)
    BY <1>2, <1>3 DEF EditsRole
  <2> QED BY <2>1, <2>2, <1>4 DEF RolesInv, EditsApart, LeavesTeams
<1>6. TeamRolesAreTheirs'
  <2> SUFFICES ASSUME NEW r \in RoleRows, role'[r].own, r \notin torn',
                      ~ \E b \in RoleActors : actor'[b].kind = "edit" /\ actor'[b].row = {r}
               PROVE  GrantsOf(r)' = edited'[r]
    BY DEF TeamRolesAreTheirs
  <2>1. GrantsOf(r) = edited[r]
    BY <1>2, <1>3 DEF RolesInv, TeamRolesAreTheirs, LeavesTeams
  <2> QED BY <2>1 DEF GrantsOf, LeavesTeams
<1> QED BY <1>5, <1>6

\* No role is made or lost by it, and nobody comes to make one.
LEMMA MakersStay ==
  ASSUME MakersApart, RolesTyped, NEW a \in RoleActors, NEW x \in ActorStates, actor' = [actor EXCEPT ![a] = x],
         x.at # "make", twins => twins',
         \A name \in SystemNames, r \in RoleRows : IsGlobal(r, name, role') <=> IsGlobal(r, name, role)
  PROVE  MakersApart'
<1>1. \A b \in RoleActors : actor'[b].at = "make" => actor[b].at = "make" /\ actor'[b] = actor[b]
  BY DEF RolesTyped
<1> SUFFICES ASSUME ~twins' PROVE MakersApart'
  BY DEF MakersApart
<1>2. \A name \in SystemNames : \A r, q \in RoleRows : IsGlobal(r, name, role') /\ IsGlobal(q, name, role') => r = q
  BY DEF MakersApart
<1>3. \A b, d \in RoleActors : actor'[b].at = "make" /\ actor'[d].at = "make" => b = d
  BY <1>1 DEF MakersApart
<1>4. \A b \in RoleActors : actor'[b].at = "make" =>
         \A name \in SystemNames \cap actor'[b].list : \A r \in RoleRows : ~IsGlobal(r, name, role')
  BY <1>1 DEF MakersApart
<1> QED BY <1>2, <1>3, <1>4 DEF MakersApart

\* The earlier version's grants stay, or somebody revokes.
LEMMA OldStays ==
  ASSUME OldKept, RolesTyped, NEW a \in RoleActors, NEW x \in ActorStates, actor' = [actor EXCEPT ![a] = x],
         done \subseteq done', roleFaults > 0 => roleFaults' > 0,
         \/ \A c \in OldCodes : <<AgentRow, c>> \in granted => <<AgentRow, c>> \in granted'
         \/ x.kind = "revoke" /\ x.at \in AtRoles,
         actor[a].kind = "revoke" /\ actor[a].at \in AtRoles =>
           \/ x.kind = "revoke" /\ x.at \in AtRoles
           \/ "revoke" \in done' \/ roleFaults' > 0
  PROVE  OldKept'
<1>1. \A b \in RoleActors : actor'[b] = IF b = a THEN x ELSE actor[b]
  BY DEF RolesTyped
<1>2. CASE x.kind = "revoke" /\ x.at \in AtRoles
  BY <1>1, <1>2 DEF OldKept
<1>3. CASE ~(x.kind = "revoke" /\ x.at \in AtRoles)
  <2>1. CASE \A c \in OldCodes : <<AgentRow, c>> \in granted
    BY <1>3, <2>1 DEF OldKept
  <2>2. CASE "revoke" \in done \/ roleFaults > 0
    BY <2>2 DEF OldKept
  <2>3. CASE \E b \in RoleActors : actor[b].kind = "revoke" /\ actor[b].at \in AtRoles
    BY <1>1, <1>3, <2>3 DEF OldKept
  <2> QED BY <2>1, <2>2, <2>3 DEF OldKept
<1> QED BY <1>2, <1>3

\* A step that touches neither roles nor grants.
TouchesNoRole(a, x) ==
  /\ actor' = [actor EXCEPT ![a] = x] /\ actor[a].kind # "edit" /\ x.kind # "edit" /\ x.at # "make"
  /\ ~(actor[a].kind = "revoke" /\ actor[a].at \in AtRoles)
  /\ catalogue \subseteq catalogue'
  /\ role' = role /\ granted' = granted /\ edited' = edited /\ torn' = torn /\ twins' = twins
  /\ done' = done /\ roleFaults' = roleFaults
  /\ \A r \in holder' : role[r] # NoRole /\ (role[r].name = "SUPER" => "bootstrap" \in done)

\* A step that touches neither roles nor grants keeps everything.
LEMMA TouchesStep ==
  ASSUME RolesInv, NEW a \in RoleActors, NEW x \in ActorStates, TouchesNoRole(a, x),
         catalogue' \subseteq Codes, holder' \subseteq RoleRows,
         EditGood(x, role), ScriptGood(x, role, granted, catalogue')
  PROVE  RolesInv'
<1>1. RolesGrow
  BY DEF TouchesNoRole, RolesGrow
<1>2. RolesTypeOK'
  <2>1. \A b \in RoleActors : actor'[b].row \subseteq RoleRows
    BY DEF RolesInv, RolesTyped, TouchesNoRole, ActorStates
  <2> QED BY <2>1 DEF RolesInv, RolesTyped, RolesTypeOK, TouchesNoRole
<1>3. /\ RolesTyped' /\ ActorsGood' /\ DoneMapped'
  <2>1. EditGood(x, role') /\ ScriptGood(x, role', granted', catalogue')
    BY DEF TouchesNoRole
  <2> QED BY <1>1, <1>2, <2>1, ActorMoves DEF RolesInv, TouchesNoRole
<1>4. EditsApart' /\ TeamRolesAreTheirs'
  BY LeavesStep DEF LeavesTeams, TouchesNoRole
<1>5. MakersApart'
  BY MakersStay DEF RolesInv, TouchesNoRole
<1>6. OldKept'
  BY OldStays DEF RolesInv, TouchesNoRole
<1>7. RoleRowsGood' /\ HolderIsAppointed'
  BY DEF RolesInv, RoleRowsGood, RoleRowGood, HolderIsAppointed, TouchesNoRole
<1> QED BY <1>3, <1>4, <1>5, <1>6, <1>7 DEF RolesInv

-----------------------------------------------------------------------------
(* One lemma per action *)

\* What rests, and what has ended, is good.
LEMMA ActorAtRest ==
  /\ [Resting EXCEPT !.kind = "done"] \in ActorStates
  /\ EditGood([Resting EXCEPT !.kind = "done"], role)
  /\ ScriptGood([Resting EXCEPT !.kind = "done"], role, granted, catalogue)
  /\ [Resting EXCEPT !.kind = "done"].kind = "done" /\ [Resting EXCEPT !.kind = "done"].at = "end"
BY DEF Resting, ActorStates, EditGood, ScriptGood, Scripts

\* A record of an actor, written out after a change.
LEMMA ActorFields ==
  ASSUME NEW x \in ActorStates, NEW h, NEW t, NEW w, NEW z, z = [x EXCEPT !.at = h, !.todo = t, !.row = w]
  PROVE  z = [kind |-> x.kind, at |-> h, todo |-> t, row |-> w, list |-> x.list]
<1>1. z.kind = x.kind /\ z.at = h /\ z.todo = t /\ z.row = w /\ z.list = x.list
  BY DEF ActorStates
<1>2. z = [kind |-> z.kind, at |-> z.at, todo |-> z.todo, row |-> z.row, list |-> z.list]
  BY DEF ActorStates
<1> QED BY <1>1, <1>2

\* What an actor becomes that goes on to another step.
LEMMA ActorGoesTo ==
  ASSUME actor \in [RoleActors -> ActorStates], NEW a \in RoleActors, NEW h, NEW t, NEW w, ActorGoes(a, h, t, w)
  PROVE  actor' = [actor EXCEPT ![a] = [kind |-> actor[a].kind, at |-> h, todo |-> t, row |-> w, list |-> actor[a].list]]
<1>1. actor[a] \in ActorStates
  OBVIOUS
<1>2. actor' = [actor EXCEPT ![a] = [actor[a] EXCEPT !.at = h, !.todo = t, !.row = w]]
  BY <1>1 DEF ActorGoes
<1>3. [actor[a] EXCEPT !.at = h, !.todo = t, !.row = w]
        = [kind |-> actor[a].kind, at |-> h, todo |-> t, row |-> w, list |-> actor[a].list]
  BY <1>1, ActorFields
<1> QED BY <1>2, <1>3

TakesRole(a, h, l) == actor' = [actor EXCEPT ![a].at = h, ![a].list = l]

\* And one that takes a role in hand.
LEMMA ActorTakes ==
  ASSUME actor \in [RoleActors -> ActorStates], NEW a \in RoleActors, NEW h, NEW l, TakesRole(a, h, l)
  PROVE  actor' = [actor EXCEPT ![a] = [kind |-> actor[a].kind, at |-> h, todo |-> actor[a].todo, row |-> actor[a].row,
                                        list |-> l]]
<1>1. actor[a] \in ActorStates
  OBVIOUS
<1>2. ASSUME NEW z, z = [actor[a] EXCEPT !.at = h, !.list = l]
      PROVE  z = [kind |-> actor[a].kind, at |-> h, todo |-> actor[a].todo, row |-> actor[a].row, list |-> l]
  <2>1. z.kind = actor[a].kind /\ z.at = h /\ z.todo = actor[a].todo /\ z.row = actor[a].row /\ z.list = l
    BY <1>1, <1>2 DEF ActorStates
  <2>2. z = [kind |-> z.kind, at |-> z.at, todo |-> z.todo, row |-> z.row, list |-> z.list]
    BY <1>1, <1>2 DEF ActorStates
  <2> QED BY <2>1, <2>2
<1>3. actor' = [actor EXCEPT ![a] = [actor[a] EXCEPT !.at = h, !.list = l]]
  BY <1>1 DEF TakesRole
<1> QED BY <1>2, <1>3

\* A role is given to a member: never the owner's.
LEMMA AssignStep ==
  ASSUME RolesInv, NEW a \in RoleActors, NEW r \in RoleRows, UpdateMemberRole(a, r)
  PROVE  RolesInv'
<1> DEFINE y == [Resting EXCEPT !.kind = "done"]
           z == [Resting EXCEPT !.kind = "assign", !.row = {r}]
<1>0. y \in ActorStates /\ EditGood(y, role) /\ ScriptGood(y, role, granted, catalogue')
      /\ y.kind = "done" /\ y.at = "end"
  BY ActorAtRest DEF UpdateMemberRole
<1>1. z \in ActorStates /\ z.kind = "assign" /\ z.at = "end" /\ z.row = {r}
  BY DEF Resting, ActorStates
<1>2. catalogue' \subseteq Codes /\ holder \subseteq RoleRows /\ catalogue' = catalogue
  BY DEF RolesInv, RolesTyped, RolesTypeOK, UpdateMemberRole
<1>3. \A q \in holder : role[q] # NoRole /\ (role[q].name = "SUPER" => "bootstrap" \in done)
  BY DEF RolesInv, RoleRowsGood, RoleRowGood, HolderIsAppointed
<1>4. /\ role' = role /\ granted' = granted /\ edited' = edited /\ torn' = torn /\ twins' = twins
      /\ done' = done /\ roleFaults' = roleFaults
  BY DEF UpdateMemberRole
<1>5. CASE actor[a] = Resting /\ role[r] # NoRole /\ holder' = holder /\ actor' = [actor EXCEPT ![a] = z]
           /\ role[r].name # "SUPER"
  <2>1. TouchesNoRole(a, z)
    <3> HIDE DEF y, z
    <3> QED BY <1>1, <1>2, <1>3, <1>4, <1>5 DEF TouchesNoRole, Resting
  <2>2. EditGood(z, role) /\ ScriptGood(z, role, granted, catalogue')
    <3> HIDE DEF y, z
    <3> QED BY <1>1, <1>5 DEF EditGood, ScriptGood, Scripts
  <2> HIDE DEF y, z
  <2> QED BY <1>1, <1>2, <1>5, <2>1, <2>2, TouchesStep
<1>6. CASE actor[a] = Resting /\ holder' = holder /\ actor' = [actor EXCEPT ![a] = y]
  <2> HIDE DEF y, z
  <2>1. TouchesNoRole(a, y)
    BY <1>0, <1>2, <1>3, <1>4, <1>6 DEF TouchesNoRole, Resting
  <2> QED BY <1>0, <1>2, <1>6, <2>1, TouchesStep
<1>7. CASE actor[a].kind = "assign" /\ actor[a].row = {r} /\ actor' = [actor EXCEPT ![a] = y]
           /\ holder' = IF holder = {} THEN {} ELSE {r}
  <2> HIDE DEF y, z
  <2>1. role[r] # NoRole /\ role[r].name # "SUPER"
    <3>1. EditGood(actor[a], role)
      BY DEF RolesInv, ActorsGood
    <3> QED BY <1>7, <3>1 DEF EditGood
  <2>2. TouchesNoRole(a, y)
    BY <1>0, <1>2, <1>3, <1>4, <1>7, <2>1 DEF TouchesNoRole
  <2> QED BY <1>0, <1>2, <1>7, <2>2, TouchesStep
<1>8. ASSUME actor[a] = Resting, role[r] # NoRole, UNCHANGED holder,
             IF role[r].name # "SUPER" /\ (role[r].own \/ role[r].system)
             THEN actor' = [actor EXCEPT ![a] = z] ELSE Ends(a)
      PROVE  RolesInv'
  <2>1. CASE role[r].name # "SUPER" /\ (role[r].own \/ role[r].system)
    <3>1. actor' = [actor EXCEPT ![a] = z]
      BY <1>8, <2>1, Zenon
    <3> QED BY <1>5, <1>8, <2>1, <3>1
  <2>2. CASE ~(role[r].name # "SUPER" /\ (role[r].own \/ role[r].system))
    <3>1. actor' = [actor EXCEPT ![a] = y]
      BY <1>8, <2>2, Zenon DEF Ends
    <3> QED BY <1>6, <1>8, <3>1
  <2> QED BY <2>1, <2>2
<1> QED BY <1>7, <1>8, Zenon DEF UpdateMemberRole, Ends

\* The membership is removed.
LEMMA MembershipEnds ==
  ASSUME RolesInv, NEW a \in RoleActors, EndMembership(a)
  PROVE  RolesInv'
<1> DEFINE y == [Resting EXCEPT !.kind = "done"]
<1>0. y \in ActorStates /\ EditGood(y, role) /\ ScriptGood(y, role, granted, catalogue')
      /\ y.kind = "done" /\ y.at = "end" /\ actor' = [actor EXCEPT ![a] = y]
  BY ActorAtRest DEF EndMembership, Ends
<1>1. catalogue' \subseteq Codes /\ catalogue' = catalogue /\ holder' = {}
  BY DEF RolesInv, RolesTyped, RolesTypeOK, EndMembership
<1> HIDE DEF y
<1>2. TouchesNoRole(a, y)
  BY <1>0, <1>1 DEF TouchesNoRole, EndMembership, Resting
<1> QED BY <1>0, <1>1, <1>2, TouchesStep

\* A script begins with the codes.
LEMMA ScriptStarts ==
  ASSUME RolesInv, NEW a \in RoleActors, NEW kind \in Scripts, StartScript(a, kind)
  PROVE  RolesInv'
<1> DEFINE x == [kind |-> kind, at |-> "codes", todo |-> Codes, row |-> IF kind = "bootstrap" THEN holder ELSE {}, list |-> {}]
<1>1. catalogue \subseteq Codes /\ holder \subseteq RoleRows /\ OldCodes \subseteq Codes
  BY RolesAssumption DEF RolesInv, RolesTyped, RolesTypeOK
<1>2. x \in ActorStates /\ x.kind = kind /\ x.at = "codes" /\ x.todo = Codes /\ actor' = [actor EXCEPT ![a] = x]
  BY <1>1 DEF ActorStates, StartScript
<1>3. catalogue' \subseteq Codes /\ catalogue \subseteq catalogue' /\ holder' = holder
  BY <1>1 DEF StartScript
<1> HIDE DEF x
<1>4. kind \notin {"edit", "assign", "none", "done"}
  BY DEF Scripts
<1>5. TouchesNoRole(a, x)
  <2>1. actor[a].kind = "none"
    BY DEF StartScript, Resting
  <2>2. \A r \in holder' : role[r] # NoRole /\ (role[r].name = "SUPER" => "bootstrap" \in done)
    BY <1>3 DEF RolesInv, RoleRowsGood, RoleRowGood, HolderIsAppointed
  <2> QED BY <1>2, <1>3, <1>4, <2>1, <2>2 DEF TouchesNoRole, StartScript
<1>6. EditGood(x, role) /\ ScriptGood(x, role, granted, catalogue')
  BY <1>2, <1>4 DEF EditGood, ScriptGood, AtRoles
<1> QED BY <1>1, <1>2, <1>3, <1>5, <1>6, TouchesStep

\* The next code is looked for; once all are there it turns to the roles.
LEMMA LookForCodeStep ==
  ASSUME RolesInv, NEW a \in RoleActors, LookForCode(a)
  PROVE  RolesInv'
<1> DEFINE x(at, todo) == [kind |-> actor[a].kind, at |-> at, todo |-> todo, row |-> actor[a].row, list |-> actor[a].list]
<1>1. actor[a] \in ActorStates /\ actor \in [RoleActors -> ActorStates] /\ ScriptGood(actor[a], role, granted, catalogue)
  BY DEF RolesInv, RolesTyped, ActorsGood
<1>2. actor[a].kind \in Scripts /\ actor[a].at = "codes" /\ actor[a].todo = Codes
      /\ actor[a].kind \notin {"edit", "assign", "none", "done"}
  BY <1>1 DEF LookForCode, Scripting, ScriptGood, Scripts
<1>3. catalogue' = catalogue /\ catalogue \subseteq Codes /\ holder' = holder /\ holder \subseteq RoleRows
  BY DEF RolesInv, RolesTyped, RolesTypeOK, LookForCode
<1>4. ASSUME NEW at \in {"create", "roles"}, NEW todo \in SUBSET (Codes \cup SystemNames),
             actor' = [actor EXCEPT ![a] = x(at, todo)],
             at = "create" => todo \subseteq Codes,
             at = "roles" => Codes \subseteq catalogue /\ todo = SystemNames
      PROVE  RolesInv'
  <2> DEFINE y == x(at, todo)
  <2>1. y \in ActorStates /\ y.kind = actor[a].kind /\ y.at = at /\ y.todo = todo
    BY <1>1 DEF ActorStates
  <2> HIDE DEF y
  <2>2. TouchesNoRole(a, y)
    <3>1. actor' = [actor EXCEPT ![a] = y]
      BY <1>4 DEF y
    <3> QED BY <1>2, <1>3, <2>1, <3>1 DEF TouchesNoRole, LookForCode, AtRoles, RolesInv,
        RoleRowsGood, RoleRowGood, HolderIsAppointed
  <2>3. EditGood(y, role) /\ ScriptGood(y, role, granted, catalogue')
    BY <1>2, <1>3, <1>4, <2>1 DEF EditGood, ScriptGood, AtRoles
  <2> QED BY <1>3, <2>1, <2>2, <2>3, TouchesStep
<1>5. CASE actor[a].todo \subseteq catalogue
  <2>1. actor' = [actor EXCEPT ![a] = x("roles", SystemNames)]
    BY <1>1, <1>5 DEF LookForCode, ActorStates
  <2> QED BY <1>2, <1>4, <1>5, <2>1
<1>6. CASE ~(actor[a].todo \subseteq catalogue)
  <2>1. PICK c \in actor[a].todo \ catalogue : ActorGoes(a, "create", {c}, actor[a].row)
    BY <1>6 DEF LookForCode
  <2>2. c \in Codes
    BY <1>2
  <2>4. actor' = [actor EXCEPT ![a] = x("create", {c})]
    BY <1>1, <2>1, ActorGoesTo
  <2> QED BY <1>4, <2>2, <2>4
<1> QED BY <1>5, <1>6

\* A code more, or another script was first and this one ends.
LEMMA CreateCodeStep ==
  ASSUME RolesInv, NEW a \in RoleActors, CreateCode(a)
  PROVE  RolesInv'
<1> DEFINE x == [kind |-> actor[a].kind, at |-> "codes", todo |-> Codes, row |-> actor[a].row, list |-> actor[a].list]
           y == [Resting EXCEPT !.kind = "done"]
<1>1. actor[a] \in ActorStates /\ actor \in [RoleActors -> ActorStates] /\ ScriptGood(actor[a], role, granted, catalogue)
  BY DEF RolesInv, RolesTyped, ActorsGood
<1>2. actor[a].kind \in Scripts /\ actor[a].at = "create" /\ actor[a].todo \subseteq Codes
      /\ actor[a].kind \notin {"edit", "assign", "none", "done"}
  BY <1>1 DEF CreateCode, Scripting, ScriptGood, Scripts
<1>3. catalogue \subseteq catalogue' /\ catalogue' \subseteq Codes /\ holder' = holder /\ holder \subseteq RoleRows
  BY <1>2 DEF RolesInv, RolesTyped, RolesTypeOK, CreateCode
<1>4. x \in ActorStates /\ x.kind = actor[a].kind /\ x.at = "codes" /\ x.todo = Codes
  BY <1>1 DEF ActorStates
<1>5. y \in ActorStates /\ y.kind = "done" /\ y.at = "end"
  BY ActorAtRest
<1>6. actor' = [actor EXCEPT ![a] = x] \/ actor' = [actor EXCEPT ![a] = y]
  BY <1>1 DEF CreateCode, ActorGoes, Ends, ActorStates
<1> HIDE DEF x, y
<1>7. ASSUME NEW z \in {x, y}, actor' = [actor EXCEPT ![a] = z] PROVE RolesInv'
  <2>1. TouchesNoRole(a, z)
    BY <1>2, <1>3, <1>4, <1>5, <1>7 DEF TouchesNoRole, CreateCode, AtRoles, RolesInv,
       RoleRowsGood, RoleRowGood, HolderIsAppointed
  <2>2. EditGood(z, role) /\ ScriptGood(z, role, granted, catalogue')
    BY <1>2, <1>4, <1>5, <1>7 DEF EditGood, ScriptGood, AtRoles, Scripts
  <2> QED BY <1>3, <1>4, <1>5, <2>1, <2>2, TouchesStep
<1> QED BY <1>6, <1>7

\* A role is held, or there is none and this script alone goes to make it.
LEMMA LookForRoleStep ==
  ASSUME RolesInv, NEW a \in RoleActors, NEW name \in SystemNames, LookForRole(a, name)
  PROVE  RolesInv'
<1> DEFINE x(h, l) == [kind |-> actor[a].kind, at |-> h, todo |-> actor[a].todo, row |-> actor[a].row, list |-> l]
<1>1. actor[a] \in ActorStates /\ actor \in [RoleActors -> ActorStates] /\ ScriptGood(actor[a], role, granted, catalogue)
  BY DEF RolesInv, RolesTyped, ActorsGood
<1>2. actor[a].kind \in Scripts /\ actor[a].at = "roles" /\ name \in actor[a].todo
      /\ actor[a].kind \notin {"edit", "assign", "none", "done"}
  BY DEF LookForRole, Scripting, Scripts
<1>3. /\ Codes \subseteq catalogue /\ actor[a].todo \subseteq SystemNames
      /\ \A n \in SystemNames \ actor[a].todo : Mapped(n, role, granted)
  BY <1>1, <1>2 DEF ScriptGood, AtRoles
<1>4. /\ role' = role /\ granted' = granted /\ catalogue' = catalogue /\ holder' = holder
      /\ edited' = edited /\ torn' = torn /\ done' = done /\ roleFaults' = roleFaults
  BY DEF LookForRole
<1>5. twins' = (twins \/ \E b \in RoleActors : b # a /\ actor[b].at = "make" /\ Global(name) = {}) /\ twins \in BOOLEAN
  BY DEF LookForRole, RolesInv, RolesTyped, RolesTypeOK
<1>6. twins' \in BOOLEAN /\ (twins => twins')
  BY <1>5, Zenon
<1>7. ASSUME NEW h \in {"held", "make"}, NEW l \in SUBSET (Codes \cup SystemNames \cup RoleRows),
             actor' = [actor EXCEPT ![a] = x(h, l)],
             h = "held" => \E r \in RoleRows : l = {name, r} /\ IsGlobal(r, name, role),
             h = "make" => l = {name} /\ Global(name) = {}
      PROVE  RolesInv'
  <2> DEFINE y == x(h, l)
  <2>1. y \in ActorStates /\ y.kind = actor[a].kind /\ y.at = h /\ y.todo = actor[a].todo /\ y.list = l
        /\ actor' = [actor EXCEPT ![a] = y]
    BY <1>1, <1>7 DEF ActorStates
  <2> HIDE DEF y
  <2>2. EditGood(y, role')
    BY <1>2, <2>1 DEF EditGood
  <2>3. ScriptGood(y, role', granted', catalogue')
    BY <1>2, <1>3, <1>4, <1>7, <2>1 DEF ScriptGood, AtRoles
  <2>4. RolesGrow
    BY <1>4 DEF RolesGrow
  <2>5. RolesTypeOK'
    <3>1. \A b \in RoleActors : actor'[b].row \subseteq RoleRows
      BY <1>1, <2>1 DEF ActorStates
    <3> QED BY <1>4, <1>6, <3>1 DEF RolesInv, RolesTyped, RolesTypeOK
  <2>6. RolesTyped' /\ ActorsGood' /\ DoneMapped'
        /\ \A b \in RoleActors : actor'[b] = IF b = a THEN y ELSE actor[b]
    BY <1>4, <2>1, <2>2, <2>3, <2>4, <2>5, ActorMoves DEF RolesInv
  <2>7. EditsApart' /\ TeamRolesAreTheirs'
    BY <1>2, <1>4, <2>1, LeavesStep DEF LeavesTeams
  <2>8. OldKept'
    BY <1>1, <1>2, <1>4, <2>1, OldStays DEF RolesInv, AtRoles
  <2>9. RoleRowsGood' /\ HolderIsAppointed'
    BY <1>4 DEF RolesInv, RoleRowsGood, RoleRowGood, HolderIsAppointed
  <2>10. MakersApart'
    <3>1. CASE h = "held"
      <4>1. \A n \in SystemNames, r \in RoleRows : IsGlobal(r, n, role') <=> IsGlobal(r, n, role)
        BY <1>4
      <4> QED BY <1>6, <2>1, <3>1, <4>1, MakersStay DEF RolesInv
    <3>2. CASE h = "make"
      <4> SUFFICES ASSUME ~twins' PROVE MakersApart'
        BY DEF MakersApart
      <4>1. ~twins
        BY <1>6
      <4>2. \A b \in RoleActors : b # a => actor[b].at # "make"
        BY <1>5, <1>7, <3>2
      <4>3. \A b \in RoleActors : actor'[b].at = "make" => b = a /\ actor'[b].list = {name}
        BY <1>7, <2>1, <2>6, <3>2, <4>2
      <4>4. \A r \in RoleRows : ~IsGlobal(r, name, role)
        BY <1>7, <3>2 DEF Global, IsGlobal
      <4> QED BY <1>4, <4>1, <4>3, <4>4 DEF MakersApart, RolesInv
    <3> QED BY <3>1, <3>2
  <2> QED BY <2>6, <2>7, <2>8, <2>9, <2>10 DEF RolesInv
<1>8. CASE \E r \in Global(name) : actor' = [actor EXCEPT ![a].at = "held", ![a].list = {name, r}]
  <2>1. PICK r \in Global(name) : actor' = [actor EXCEPT ![a].at = "held", ![a].list = {name, r}]
    BY <1>8
  <2>2. r \in RoleRows /\ IsGlobal(r, name, role)
    BY DEF Global, IsGlobal
  <2>3. actor' = [actor EXCEPT ![a] = x("held", {name, r})]
    <3>1. TakesRole(a, "held", {name, r})
      BY <2>1 DEF TakesRole
    <3> QED BY <1>1, <3>1, ActorTakes
  <2> QED BY <1>7, <2>2, <2>3
<1>9. CASE Global(name) = {} /\ actor' = [actor EXCEPT ![a].at = "make", ![a].list = {name}]
  <2>1. actor' = [actor EXCEPT ![a] = x("make", {name})]
    <3>1. TakesRole(a, "make", {name})
      BY <1>9 DEF TakesRole
    <3> QED BY <1>1, <3>1, ActorTakes
  <2> QED BY <1>7, <1>9, <2>1
<1> QED BY <1>8, <1>9 DEF LookForRole

\* The role is granted what the map says; and only what is not on the map is revoked.
LEMMA ReconcileStep ==
  ASSUME RolesInv, NEW a \in RoleActors, Reconcile(a)
  PROVE  RolesInv'
<1> DEFINE x(h) == [actor[a] EXCEPT !.at = h]
<1>1. actor[a] \in ActorStates /\ actor \in [RoleActors -> ActorStates] /\ ScriptGood(actor[a], role, granted, catalogue)
  BY DEF RolesInv, RolesTyped, ActorsGood
<1>2. /\ role' = role /\ catalogue' = catalogue /\ holder' = holder /\ edited' = edited /\ torn' = torn
      /\ twins' = twins /\ done' = done /\ roleFaults' = roleFaults
  BY DEF Reconcile
<1>3. actor[a].kind \in Scripts /\ actor[a].at \in {"held", "stale"} /\ actor[a].kind \notin {"edit", "assign", "none", "done"}
  BY DEF Reconcile, Scripting, Scripts
<1>4. /\ Codes \subseteq catalogue /\ actor[a].todo \subseteq SystemNames
      /\ \A n \in SystemNames \ actor[a].todo : Mapped(n, role, granted)
      /\ actor[a].at = "stale" => actor[a].kind = "revoke"
  BY <1>1, <1>3 DEF ScriptGood, AtRoles
<1>5. PICK name \in SystemNames, r \in RoleRows :
        /\ actor[a].list = {name, r} /\ IsGlobal(r, name, role) /\ name \in actor[a].todo
        /\ actor[a].at = "stale" => MayDoAll(r, name, granted)
  BY <1>1, <1>3, <1>4 DEF ScriptGood
<1>6. \A n \in SystemNames \cap actor[a].list : n = name
  BY <1>5, RolesAssumption DEF SystemNames
<1>7. \A q \in RoleRows \cap actor[a].list : q = r
  BY <1>5, RolesAssumption DEF SystemNames
<1>8. MapGrants(name) \cap catalogue = MapGrants(name) /\ MapGrants(name) \subseteq Codes
  BY <1>4 DEF MapGrants
<1>9. \/ /\ actor[a].at = "held" /\ granted' = granted \cup ({r} \X MapGrants(name))
         /\ actor' = [actor EXCEPT ![a].at = IF actor[a].kind = "revoke" THEN "stale" ELSE "next"]
      \/ /\ actor[a].at = "stale" /\ granted' = granted \ ({r} \X (Codes \ MapGrants(name)))
         /\ actor' = [actor EXCEPT ![a].at = "next"]
  BY <1>6, <1>7, <1>8 DEF Reconcile
<1>10. /\ MayDoAll(r, name, granted') /\ granted' \subseteq RoleRows \X Codes
       /\ \A q \in RoleRows : q # r => \A c \in Codes : <<q, c>> \in granted' <=> <<q, c>> \in granted
       /\ \A c \in MapGrants(name) : <<r, c>> \in granted => <<r, c>> \in granted'
  <2>1. granted \subseteq RoleRows \X Codes
    BY DEF RolesInv, RolesTyped, RolesTypeOK
  <2>2. CASE granted' = granted \cup ({r} \X MapGrants(name))
    BY <1>8, <2>1, <2>2 DEF MayDoAll
  <2>3. CASE granted' = granted \ ({r} \X (Codes \ MapGrants(name))) /\ actor[a].at = "stale"
    BY <1>5, <1>8, <2>1, <2>3 DEF MayDoAll
  <2> QED BY <1>9, <2>2, <2>3
<1>11. role[r].name = name /\ ~role[r].own /\ role[r] # NoRole
  BY <1>5 DEF IsGlobal, NoRole, SystemNames
<1>12. PICK h \in {"stale", "next"} : /\ actor' = [actor EXCEPT ![a] = x(h)]
                                      /\ h = "stale" => actor[a].kind = "revoke" /\ actor[a].at = "held"
                                      /\ actor[a].at = "held" /\ actor[a].kind = "revoke" => h = "stale"
  <2>1. CASE actor[a].at = "held" /\ actor' = [actor EXCEPT ![a].at = IF actor[a].kind = "revoke" THEN "stale" ELSE "next"]
    BY <1>1, <2>1
  <2>2. CASE actor[a].at = "stale" /\ actor' = [actor EXCEPT ![a].at = "next"]
    BY <1>1, <2>2
  <2> QED BY <1>9, <2>1, <2>2
<1> DEFINE y == x(h)
<1>13. y \in ActorStates /\ y.kind = actor[a].kind /\ y.at = h /\ y.todo = actor[a].todo /\ y.list = actor[a].list
       /\ actor' = [actor EXCEPT ![a] = y]
  BY <1>1, <1>12 DEF ActorStates
<1> HIDE DEF y
<1>14. RolesGrow
  BY <1>2, <1>10, <1>11 DEF RolesGrow
<1>15. EditGood(y, role')
  BY <1>3, <1>13 DEF EditGood
<1>16. ScriptGood(y, role', granted', catalogue')
  <2>1. \A n \in SystemNames \ y.todo : Mapped(n, role', granted')
    BY <1>4, <1>13, <1>14, MappedStays DEF RolesInv
  <2>2. y.at \in {"stale", "next"} /\ name \in y.todo /\ y.list = {name, r} /\ IsGlobal(r, name, role')
        /\ MayDoAll(r, name, granted') /\ y.todo \subseteq SystemNames /\ Codes \subseteq catalogue'
        /\ (y.at = "stale" => y.kind = "revoke")
    BY <1>2, <1>4, <1>5, <1>10, <1>12, <1>13
  <2> QED BY <2>1, <2>2 DEF ScriptGood, AtRoles
<1>17. RolesTypeOK'
  <2>1. \A b \in RoleActors : actor'[b].row \subseteq RoleRows
    BY <1>1, <1>13 DEF ActorStates
  <2> QED BY <1>2, <1>10, <2>1 DEF RolesInv, RolesTyped, RolesTypeOK
<1>18. RolesTyped' /\ ActorsGood' /\ DoneMapped'
  BY <1>2, <1>13, <1>14, <1>15, <1>16, <1>17, ActorMoves DEF RolesInv
<1>19. EditsApart' /\ TeamRolesAreTheirs'
  BY <1>2, <1>3, <1>10, <1>11, <1>13, LeavesStep DEF LeavesTeams
<1>20. OldKept'
  <2>1. CASE actor[a].at = "held"
    <3>1. \A c \in OldCodes : <<AgentRow, c>> \in granted => <<AgentRow, c>> \in granted'
      BY <1>9, <2>1
    <3> QED BY <1>1, <1>2, <1>12, <1>13, <2>1, <3>1, OldStays DEF RolesInv, AtRoles
  <2>2. CASE actor[a].at = "stale"
    <3>1. y.kind = "revoke" /\ y.at \in AtRoles
      BY <1>4, <1>12, <1>13, <2>2 DEF AtRoles
    <3> QED BY <1>1, <1>2, <1>13, <3>1, OldStays DEF RolesInv
  <2> QED BY <1>3, <2>1, <2>2
<1>21. RoleRowsGood'
  <2>1. ASSUME NEW q \in RoleRows, role[q] = NoRole, NEW c \in Codes PROVE <<q, c>> \notin granted'
    BY <1>10, <1>11, <2>1 DEF RolesInv, RoleRowsGood, RoleRowGood
  <2> QED BY <1>2, <2>1 DEF RolesInv, RoleRowsGood, RoleRowGood
<1>22. HolderIsAppointed'
  BY <1>2 DEF RolesInv, HolderIsAppointed
<1>23. MakersApart'
  <2>1. \A n \in SystemNames, q \in RoleRows : IsGlobal(q, n, role') <=> IsGlobal(q, n, role)
    BY <1>2
  <2> QED BY <1>2, <1>12, <1>13, <2>1, MakersStay DEF RolesInv
<1> QED BY <1>18, <1>19, <1>20, <1>21, <1>22, <1>23 DEF RolesInv

\* One role is mapped; with none left the script is done, and all of them are.
LEMMA NextRoleStep ==
  ASSUME RolesInv, NEW a \in RoleActors, NextRole(a)
  PROVE  RolesInv'
<1> DEFINE y == [Resting EXCEPT !.kind = "done"]
           left == actor[a].todo \ actor[a].list
           x == [actor[a] EXCEPT !.at = "roles", !.todo = left, !.list = {}]
<1>1. actor[a] \in ActorStates /\ actor \in [RoleActors -> ActorStates] /\ ScriptGood(actor[a], role, granted, catalogue)
  BY DEF RolesInv, RolesTyped, ActorsGood
<1>2. /\ role' = role /\ granted' = granted /\ catalogue' = catalogue /\ edited' = edited /\ torn' = torn
      /\ twins' = twins /\ roleFaults' = roleFaults
  BY DEF NextRole
<1>3. actor[a].kind \in Scripts /\ actor[a].at = "next" /\ actor[a].kind \notin {"edit", "assign", "none", "done"}
  BY DEF NextRole, Scripting, Scripts
<1>4. /\ Codes \subseteq catalogue /\ actor[a].todo \subseteq SystemNames
      /\ \A n \in SystemNames \ actor[a].todo : Mapped(n, role, granted)
  BY <1>1, <1>3 DEF ScriptGood, AtRoles
<1>5. PICK name \in SystemNames, r \in RoleRows :
        /\ actor[a].list = {name, r} /\ IsGlobal(r, name, role) /\ MayDoAll(r, name, granted)
  BY <1>1, <1>3, <1>4 DEF ScriptGood
<1>6. \A n \in SystemNames \ left : Mapped(n, role, granted)
  <2>1. Mapped(name, role, granted)
    BY <1>5 DEF Mapped
  <2>2. \A n \in SystemNames : n # r
    BY RolesAssumption DEF SystemNames
  <2> QED BY <1>4, <1>5, <2>1, <2>2
<1>7. RoleRows \cap actor[a].list = {r} /\ role[r] # NoRole
  BY <1>5, RolesAssumption DEF SystemNames, IsGlobal, NoRole
<1>8. x \in ActorStates /\ x.kind = actor[a].kind /\ x.at = "roles" /\ x.todo = left
  BY <1>1 DEF ActorStates
<1>9. y \in ActorStates /\ y.kind = "done" /\ y.at = "end"
  BY ActorAtRest
<1>10. RolesGrow
  BY <1>2 DEF RolesGrow
<1>11. RoleRowsGood /\ HolderIsAppointed /\ holder \subseteq RoleRows /\ done \subseteq Scripts
  BY DEF RolesInv, RolesTyped, RolesTypeOK
<1>12. /\ holder' \subseteq RoleRows /\ done' \subseteq Scripts /\ done \subseteq done'
       /\ \A q \in holder' : role[q] # NoRole /\ (role[q].name = "SUPER" => "bootstrap" \in done')
  <2>1. CASE UNCHANGED <<holder, done>>
    BY <1>11, <2>1 DEF RoleRowsGood, RoleRowGood, HolderIsAppointed
  <2>2. CASE done' = done \cup {actor[a].kind} /\ holder' = holder
    BY <1>3, <1>11, <2>2 DEF RoleRowsGood, RoleRowGood, HolderIsAppointed
  <2>3. CASE done' = done \cup {actor[a].kind} /\ actor[a].kind = "bootstrap" /\ holder' = RoleRows \cap actor[a].list
    BY <1>3, <1>7, <1>11, <2>3
  <2> QED BY <2>1, <2>2, <2>3 DEF NextRole
<1>13. RoleRowsGood' /\ HolderIsAppointed'
  BY <1>2, <1>11, <1>12 DEF RoleRowsGood, RoleRowGood, HolderIsAppointed
<1>14. ASSUME NEW z \in ActorStates, actor' = [actor EXCEPT ![a] = z], z.kind # "edit", z.at # "make",
              EditGood(z, role), ScriptGood(z, role, granted, catalogue),
              actor[a].kind = "revoke" => "revoke" \in done' \/ (z.kind = "revoke" /\ z.at = "roles"),
              done' = done \/ left = {}
       PROVE  RolesInv'
  <2>1. EditGood(z, role') /\ ScriptGood(z, role', granted', catalogue')
    BY <1>2, <1>14
  <2>2. RolesTypeOK'
    <3>1. \A b \in RoleActors : actor'[b].row \subseteq RoleRows
      BY <1>1, <1>14 DEF ActorStates
    <3> QED BY <1>2, <1>12, <3>1 DEF RolesInv, RolesTyped, RolesTypeOK
  <2>3. /\ RolesTyped' /\ ActorsGood' /\ (done' = done => DoneMapped')
    BY <1>10, <1>14, <2>1, <2>2, ActorMoves DEF RolesInv
  <2>4. DoneMapped'
    <3>1. left = {} => DoneMapped'
      BY <1>2, <1>6 DEF DoneMapped
    <3> QED BY <1>14, <2>3, <3>1
  <2>5. EditsApart' /\ TeamRolesAreTheirs'
    BY <1>2, <1>3, <1>14, LeavesStep DEF LeavesTeams
  <2>6. OldKept'
    BY <1>1, <1>2, <1>12, <1>14, OldStays DEF RolesInv, AtRoles
  <2>7. MakersApart'
    <3>1. \A n \in SystemNames, q \in RoleRows : IsGlobal(q, n, role') <=> IsGlobal(q, n, role)
      BY <1>2
    <3> QED BY <1>2, <1>14, <3>1, MakersStay DEF RolesInv
  <2> QED BY <1>13, <2>3, <2>4, <2>5, <2>6, <2>7 DEF RolesInv
<1>15. CASE left # {} /\ UNCHANGED <<holder, done>> /\ actor' = [actor EXCEPT ![a].at = "roles", ![a].todo = left, ![a].list = {}]
  <2>1. actor' = [actor EXCEPT ![a] = x]
    BY <1>1, <1>15
  <2> HIDE DEF x, y, left
  <2>2. left \subseteq SystemNames
    BY <1>4 DEF left
  <2>3. EditGood(x, role) /\ ScriptGood(x, role, granted, catalogue)
    BY <1>3, <1>4, <1>6, <1>8, <2>2 DEF EditGood, ScriptGood, AtRoles
  <2> QED BY <1>3, <1>8, <1>14, <1>15, <2>1, <2>3
<1>16. CASE left = {} /\ Ends(a) /\ done' = done \cup {actor[a].kind}
  <2>1. actor' = [actor EXCEPT ![a] = y]
    BY <1>16 DEF Ends
  <2> HIDE DEF x, y, left
  <2>2. EditGood(y, role) /\ ScriptGood(y, role, granted, catalogue)
    BY ActorAtRest DEF y
  <2> QED BY <1>9, <1>14, <1>16, <2>1, <2>2
<1> QED BY <1>15, <1>16 DEF NextRole

\* The role made is the first of its name.
LEMMA CreateSystemStep ==
  ASSUME RolesInv, NEW a \in RoleActors, NEW r \in RoleRows, CreateSystemRole(a, r)
  PROVE  RolesInv'
<1>1. actor[a] \in ActorStates /\ actor \in [RoleActors -> ActorStates] /\ ScriptGood(actor[a], role, granted, catalogue)
  BY DEF RolesInv, RolesTyped, ActorsGood
<1>2. /\ granted' = granted /\ catalogue' = catalogue /\ holder' = holder /\ edited' = edited /\ torn' = torn
      /\ twins' = twins /\ roleFaults' = roleFaults /\ done' = done
  BY DEF CreateSystemRole
<1>3. actor[a].kind \in Scripts /\ actor[a].at = "make" /\ actor[a].kind \notin {"edit", "assign", "none", "done"}
  BY DEF CreateSystemRole, Scripting, Scripts
<1>4. /\ Codes \subseteq catalogue /\ actor[a].todo \subseteq SystemNames
      /\ \A n \in SystemNames \ actor[a].todo : Mapped(n, role, granted)
  BY <1>1, <1>3 DEF ScriptGood, AtRoles
<1>5. PICK name \in SystemNames \cap actor[a].list :
        /\ role' = [role EXCEPT ![r] = [name |-> name, own |-> FALSE, system |-> TRUE]]
        /\ actor' = [actor EXCEPT ![a].at = "held", ![a].list = {name, r}]
  BY DEF CreateSystemRole
<1>6. actor[a].list = {name} /\ name \in actor[a].todo
  BY <1>1, <1>3, <1>4 DEF ScriptGood
<1>7. role[r] = NoRole /\ role \in [RoleRows -> RoleStates]
  BY DEF CreateSystemRole, RolesInv, RolesTyped, RolesTypeOK, RoleStates
<1>8. /\ role' \in [RoleRows -> RoleStates]
      /\ \A q \in RoleRows : role'[q] = IF q = r THEN [name |-> name, own |-> FALSE, system |-> TRUE] ELSE role[q]
  BY <1>5, <1>7 DEF RoleStates
<1> DEFINE y == [kind |-> actor[a].kind, at |-> "held", todo |-> actor[a].todo, row |-> actor[a].row, list |-> {name, r}]
<1>9. y \in ActorStates /\ y.kind = actor[a].kind /\ y.at = "held" /\ y.todo = actor[a].todo /\ y.list = {name, r}
  BY <1>1 DEF ActorStates
<1>10. actor' = [actor EXCEPT ![a] = y]
  <2>1. TakesRole(a, "held", {name, r})
    BY <1>5 DEF TakesRole
  <2> QED BY <1>1, <2>1, ActorTakes
<1> HIDE DEF y
<1>11. RolesGrow
  BY <1>2, <1>7, <1>8 DEF RolesGrow
<1>12. IsGlobal(r, name, role') /\ ~role'[r].own
  BY <1>8 DEF IsGlobal
<1>13. EditGood(y, role')
  BY <1>3, <1>9 DEF EditGood
<1>14. ScriptGood(y, role', granted', catalogue')
  <2>1. \A n \in SystemNames \ y.todo : Mapped(n, role', granted')
    BY <1>4, <1>9, <1>11, MappedStays DEF RolesInv
  <2> QED BY <1>2, <1>3, <1>4, <1>6, <1>9, <1>12, <2>1 DEF ScriptGood, AtRoles
<1>15. RolesTypeOK'
  <2>1. \A b \in RoleActors : actor'[b].row \subseteq RoleRows
    BY <1>1, <1>9, <1>10 DEF ActorStates
  <2> QED BY <1>2, <1>8, <2>1 DEF RolesInv, RolesTyped, RolesTypeOK, RoleStates
<1>16. RolesTyped' /\ ActorsGood' /\ DoneMapped' /\ \A b \in RoleActors : actor'[b] = IF b = a THEN y ELSE actor[b]
  BY <1>2, <1>9, <1>10, <1>11, <1>13, <1>14, <1>15, ActorMoves DEF RolesInv
<1>17. EditsApart' /\ TeamRolesAreTheirs'
  <2>1. \A q \in RoleRows : role'[q].own => role[q].own
    BY <1>8
  <2> QED BY <1>2, <1>3, <1>9, <1>10, <2>1, LeavesStep DEF LeavesTeams
<1>18. OldKept'
  BY <1>1, <1>2, <1>9, <1>10, OldStays DEF RolesInv, AtRoles
<1>19. RoleRowsGood' /\ HolderIsAppointed'
  <2>1. /\ \A q \in RoleRows : role'[q] = NoRole => role[q] = NoRole
        /\ \A q \in RoleRows : role[q] # NoRole => role'[q] = role[q]
        /\ AgentRow \in RoleRows /\ role[AgentRow] # NoRole /\ holder \subseteq RoleRows
    BY <1>7, <1>8, RolesAssumption DEF NoRole, RolesInv, RoleRowsGood, RoleRowGood, RolesTyped,
       RolesTypeOK
  <2>2. \A q \in RoleRows : role'[q].name \in SystemNames => ~role'[q].own
    BY <1>8 DEF RolesInv, RoleRowsGood, RoleRowGood
  <2>3. \A q \in RoleRows : role'[q] = NoRole => \A c \in Codes : <<q, c>> \notin granted'
    BY <1>2, <2>1 DEF RolesInv, RoleRowsGood, RoleRowGood
  <2>4. \A q \in holder' : role'[q] # NoRole /\ role'[q] = role[q]
    BY <1>2, <2>1 DEF RolesInv, RoleRowsGood, RoleRowGood
  <2>5. role'[AgentRow] = [name |-> "AGENT", own |-> FALSE, system |-> TRUE]
    BY <2>1 DEF RolesInv, RoleRowsGood, RoleRowGood
  <2> QED BY <1>2, <2>2, <2>3, <2>4, <2>5 DEF RoleRowsGood, RoleRowGood, HolderIsAppointed, RolesInv
<1>20. MakersApart'
  <2> SUFFICES ASSUME ~twins' PROVE MakersApart'
    BY DEF MakersApart
  <2>1. ~twins
    BY <1>2
  <2>2. \A q \in RoleRows : ~IsGlobal(q, name, role)
    BY <1>3, <1>6, <2>1 DEF RolesInv, MakersApart
  <2>3. \A b \in RoleActors : actor'[b].at # "make"
    BY <1>3, <1>9, <1>16, <2>1 DEF RolesInv, MakersApart
  <2>4. \A n \in SystemNames, q \in RoleRows : IsGlobal(q, n, role') => (q = r /\ n = name) \/ (q # r /\ IsGlobal(q, n, role))
    BY <1>8 DEF IsGlobal
  <2>5. \A n \in SystemNames : \A p, q \in RoleRows : IsGlobal(p, n, role') /\ IsGlobal(q, n, role') => p = q
    BY <2>1, <2>2, <2>4 DEF RolesInv, MakersApart
  <2> QED BY <2>3, <2>5 DEF MakersApart
<1> QED BY <1>16, <1>17, <1>18, <1>19, <1>20 DEF RolesInv

-----------------------------------------------------------------------------
\* An actor that edits: what becomes of the edits of the other roles.
LEMMA OtherEdits ==
  ASSUME RolesInv, NEW a \in RoleActors, NEW r \in RoleRows, NEW x \in ActorStates, actor' = [actor EXCEPT ![a] = x],
         torn \subseteq torn',
         \A q \in RoleRows \ {r} : /\ ~EditsRole(actor[a], q) /\ ~EditsRole(x, q) /\ edited'[q] = edited[q]
                                  /\ role'[q] = role[q]
                                  /\ \A c \in Codes : <<q, c>> \in granted' <=> <<q, c>> \in granted,
         r \notin torn' =>
           /\ \A b \in RoleActors : EditsRole(actor[b], r) => b = a
           /\ EditsRole(x, r) /\ x.at = "grant" => \A c \in Codes : <<r, c>> \notin granted'
           /\ EditsRole(x, r) \/ GrantsOf(r)' = edited'[r]
  PROVE  EditsApart' /\ TeamRolesAreTheirs'
<1>1. \A b \in RoleActors : actor'[b] = IF b = a THEN x ELSE actor[b]
  BY DEF RolesInv, RolesTyped
<1>2. \A b \in RoleActors, q \in RoleRows \ {r} : EditsRole(actor'[b], q) => EditsRole(actor[b], q) /\ actor'[b] = actor[b]
  BY <1>1
<1>3. \A b \in RoleActors, q \in RoleRows \ {r} : EditsRole(actor[b], q) => EditsRole(actor'[b], q)
  BY <1>1
<1>4. EditsApart'
  <2> SUFFICES ASSUME NEW q \in RoleRows \ torn', NEW b \in RoleActors, EditsRole(actor'[b], q)
               PROVE  /\ \A d \in RoleActors : EditsRole(actor'[d], q) => b = d
                      /\ actor'[b].at = "grant" => \A c \in Codes : <<q, c>> \notin granted'
    BY DEF EditsApart
  <2>1. CASE q = r
    BY <1>1, <2>1
  <2>2. CASE q # r
    <3>1. EditsRole(actor[b], q) /\ actor'[b] = actor[b] /\ q \in RoleRows \ torn
      BY <1>2, <2>2
    <3>2. /\ \A d \in RoleActors : EditsRole(actor[d], q) => b = d
          /\ actor[b].at = "grant" => \A c \in Codes : <<q, c>> \notin granted
      BY <3>1 DEF RolesInv, EditsApart
    <3> QED BY <1>2, <2>2, <3>1, <3>2
  <2> QED BY <2>1, <2>2
<1>5. TeamRolesAreTheirs'
  <2> SUFFICES ASSUME NEW q \in RoleRows, role'[q].own, q \notin torn',
                      ~ \E b \in RoleActors : EditsRole(actor'[b], q)
               PROVE  GrantsOf(q)' = edited'[q]
    BY DEF TeamRolesAreTheirs, EditsRole
  <2>1. CASE q = r
    BY <1>1, <2>1
  <2>2. CASE q # r
    <3>1. GrantsOf(q) = edited[q]
      <4>1. role[q].own /\ q \notin torn
        BY <2>2
      <4>2. ~ \E b \in RoleActors : EditsRole(actor[b], q)
        BY <1>3, <2>2
      <4> QED BY <4>1, <4>2 DEF RolesInv, TeamRolesAreTheirs, EditsRole
    <3> QED BY <2>2, <3>1 DEF GrantsOf
  <2> QED BY <2>1, <2>2
<1> QED BY <1>4, <1>5

\* An edit that dies leaves its role torn.
LEMMA ActorDiesStep ==
  ASSUME RolesInv, NEW a \in RoleActors, ActorDies(a)
  PROVE  RolesInv'
<1> DEFINE y == [Resting EXCEPT !.kind = "done"]
<1>1. actor[a] \in ActorStates /\ actor \in [RoleActors -> ActorStates] /\ EditGood(actor[a], role)
  BY DEF RolesInv, RolesTyped, ActorsGood
<1>2. /\ role' = role /\ granted' = granted /\ catalogue' = catalogue /\ holder' = holder /\ edited' = edited
      /\ twins' = twins /\ done' = done
  BY DEF ActorDies
<1>3. roleFaults \in Nat /\ roleFaults' = roleFaults + 1 /\ roleFaults' \in 0 .. RoleFaults
  BY RolesAssumption DEF ActorDies, RolesInv, RolesTyped, RolesTypeOK
<1>4. y \in ActorStates /\ EditGood(y, role') /\ ScriptGood(y, role', granted', catalogue') /\ y.kind = "done" /\ y.at = "end"
      /\ actor' = [actor EXCEPT ![a] = y]
  BY <1>2, ActorAtRest DEF ActorDies, Ends
<1> HIDE DEF y
<1>5. RolesGrow
  BY <1>2 DEF RolesGrow
<1>6. RolesTypeOK'
  <2>1. \A b \in RoleActors : actor'[b].row \subseteq RoleRows
    BY <1>1, <1>4 DEF ActorStates
  <2>2. torn' \subseteq RoleRows
    BY <1>1 DEF ActorDies, RolesInv, RolesTyped, RolesTypeOK, ActorStates
  <2> QED BY <1>2, <1>3, <2>1, <2>2 DEF RolesInv, RolesTyped, RolesTypeOK
<1>7. RolesTyped' /\ ActorsGood' /\ DoneMapped'
  BY <1>2, <1>4, <1>5, <1>6, ActorMoves DEF RolesInv
<1>8. OldKept'
  <2>1. roleFaults' > 0
    BY <1>3
  <2> QED BY <2>1 DEF OldKept
<1>9. RoleRowsGood' /\ HolderIsAppointed'
  BY <1>2 DEF RolesInv, RoleRowsGood, RoleRowGood, HolderIsAppointed
<1>10. MakersApart'
  <2>1. \A n \in SystemNames, q \in RoleRows : IsGlobal(q, n, role') <=> IsGlobal(q, n, role)
    BY <1>2
  <2> QED BY <1>2, <1>4, <2>1, MakersStay DEF RolesInv
<1>11. EditsApart' /\ TeamRolesAreTheirs'
  <2>1. CASE actor[a].kind = "edit"
    <3>1. PICK r \in RoleRows : actor[a].row = {r} /\ role[r].own
      BY <1>1, <2>1 DEF EditGood
    <3>2. r \in torn' /\ torn \subseteq torn'
      BY <2>1, <3>1 DEF ActorDies
    <3>3. \A q \in RoleRows \ {r} : ~EditsRole(actor[a], q) /\ ~EditsRole(y, q)
      BY <1>4, <3>1 DEF EditsRole
    <3> QED BY <1>2, <1>4, <3>2, <3>3, OtherEdits
  <2>2. CASE actor[a].kind # "edit"
    <3>1. torn' = torn
      BY <2>2 DEF ActorDies
    <3> QED BY <1>2, <1>4, <2>2, <3>1, LeavesStep DEF LeavesTeams
  <2> QED BY <2>1, <2>2
<1> QED BY <1>7, <1>8, <1>9, <1>10, <1>11 DEF RolesInv

\* A new role has no grants yet.
LEMMA CreateRoleStep ==
  ASSUME RolesInv, NEW a \in RoleActors, NEW r \in RoleRows, NEW list \in SUBSET Codes, CreateRole(a, r, list)
  PROVE  RolesInv'
<1> DEFINE y == [Resting EXCEPT !.kind = "done"]
           x == [Resting EXCEPT !.kind = "edit", !.at = "grant", !.row = {r}, !.list = list]
           team == [name |-> "TEAM2", own |-> TRUE, system |-> FALSE]
<1>1. actor[a] = Resting /\ actor \in [RoleActors -> ActorStates] /\ role[r] = NoRole /\ role \in [RoleRows -> RoleStates]
  BY DEF CreateRole, RolesInv, RolesTyped, RolesTypeOK, RoleStates
<1>2. /\ granted' = granted /\ catalogue' = catalogue /\ holder' = holder /\ torn' = torn
      /\ twins' = twins /\ roleFaults' = roleFaults /\ done' = done
      /\ role' = [role EXCEPT ![r] = team] /\ edited' = [edited EXCEPT ![r] = list]
  BY DEF CreateRole
<1>3. /\ role' \in [RoleRows -> RoleStates] /\ edited' \in [RoleRows -> SUBSET Codes] /\ edited'[r] = list
      /\ \A q \in RoleRows : role'[q] = IF q = r THEN team ELSE role[q]
      /\ \A q \in RoleRows \ {r} : edited'[q] = edited[q]
  BY <1>1, <1>2 DEF RoleStates, RolesInv, RolesTyped, RolesTypeOK
<1>4. x \in ActorStates /\ x.kind = "edit" /\ x.at = "grant" /\ x.row = {r} /\ x.list = list
  BY DEF ActorStates, Resting
<1>5. y \in ActorStates /\ y.kind = "done" /\ y.at = "end" /\ EditGood(y, role) /\ ScriptGood(y, role, granted, catalogue)
  BY ActorAtRest
<1>6. team.own /\ team.name = "TEAM2" /\ team.name \notin SystemNames /\ team # NoRole
  BY DEF SystemNames, NoRole
<1>7. PICK z \in ActorStates : /\ actor' = [actor EXCEPT ![a] = z] /\ ((z = y /\ list = {}) \/ z = x)
  BY <1>4, <1>5 DEF CreateRole, Ends
<1>8. actor[a].kind = "none" /\ ~role[r].own /\ role[r].name \notin SystemNames
  BY <1>1 DEF Resting, NoRole, SystemNames
<1> HIDE DEF x, y, team
<1>9. RolesGrow
  BY <1>1, <1>2, <1>3 DEF RolesGrow
<1>10. EditGood(z, role') /\ ScriptGood(z, role', granted', catalogue')
  <2>1. CASE z = y
    BY <1>5, <1>9, <2>1, ActorsStay DEF RolesInv
  <2>2. CASE z = x
    <3>1. role'[r].own
      BY <1>3, <1>6
    <3> QED BY <1>4, <2>2, <3>1 DEF EditGood, ScriptGood, Scripts
  <2> QED BY <1>7, <2>1, <2>2
<1>11. RolesTypeOK'
  <2>1. \A b \in RoleActors : actor'[b].row \subseteq RoleRows
    BY <1>1, <1>7 DEF ActorStates
  <2> QED BY <1>2, <1>3, <2>1 DEF RolesInv, RolesTyped, RolesTypeOK, RoleStates
<1>12. RolesTyped' /\ ActorsGood' /\ DoneMapped'
  BY <1>2, <1>7, <1>9, <1>10, <1>11, ActorMoves DEF RolesInv
<1>13. OldKept'
  BY <1>2, <1>7, <1>8, OldStays DEF RolesInv
<1>14. MakersApart'
  <2>1. \A n \in SystemNames, q \in RoleRows : IsGlobal(q, n, role') <=> IsGlobal(q, n, role)
    BY <1>3, <1>6, <1>8 DEF IsGlobal
  <2>2. z.at # "make"
    BY <1>4, <1>5, <1>7
  <2> QED BY <1>2, <1>7, <2>1, <2>2, MakersStay DEF RolesInv
<1>15. RoleRowsGood' /\ HolderIsAppointed'
  <2>1. AgentRow \in RoleRows /\ r \notin holder /\ holder \subseteq RoleRows
    BY <1>1, RolesAssumption DEF RolesInv, RoleRowsGood, RoleRowGood, RolesTyped, RolesTypeOK
  <2>2. AgentRow # r
    <3>1. role[AgentRow].name = "AGENT"
      BY DEF RolesInv, RoleRowsGood, RoleRowGood
    <3> QED BY <1>8, <3>1 DEF SystemNames
  <2>3. \A q \in RoleRows : /\ role'[q].name \in SystemNames => ~role'[q].own
                            /\ role'[q] = NoRole => \A c \in Codes : <<q, c>> \notin granted'
    BY <1>2, <1>3, <1>6 DEF RolesInv, RoleRowsGood, RoleRowGood
  <2>4. \A q \in holder' : role'[q] = role[q]
    BY <1>2, <1>3, <2>1
  <2>5. role'[AgentRow] = [name |-> "AGENT", own |-> FALSE, system |-> TRUE]
    BY <1>3, <2>1, <2>2 DEF RolesInv, RoleRowsGood, RoleRowGood
  <2>6. RoleRowsGood'
    <3>1. \A q \in holder' : role'[q] # NoRole
      BY <1>2, <2>4 DEF RoleRowsGood, RoleRowGood, RolesInv
    <3>2. \A q \in RoleRows : RoleRowGood(q, role'[q], granted')
      BY <2>3 DEF RoleRowGood
    <3> QED BY <2>5, <3>1, <3>2 DEF RoleRowsGood
  <2>7. HolderIsAppointed'
    BY <1>2, <2>4 DEF HolderIsAppointed, RolesInv
  <2> QED BY <2>6, <2>7
<1>16. EditsApart' /\ TeamRolesAreTheirs'
  <2>1. \A c \in Codes : <<r, c>> \notin granted'
    BY <1>1, <1>2 DEF RolesInv, RoleRowsGood, RoleRowGood
  <2>2. \A b \in RoleActors : ~EditsRole(actor[b], r)
    <3>1. \A b \in RoleActors : EditGood(actor[b], role)
      BY DEF RolesInv, ActorsGood
    <3> QED BY <1>8, <3>1 DEF EditGood, EditsRole
  <2>3. \A q \in RoleRows \ {r} : ~EditsRole(actor[a], q) /\ ~EditsRole(z, q) /\ role'[q] = role[q]
    BY <1>3, <1>4, <1>5, <1>7, <1>8 DEF EditsRole
  <2>4. EditsRole(z, r) \/ GrantsOf(r)' = edited'[r]
    <3>1. CASE z = x
      BY <1>4, <3>1 DEF EditsRole
    <3>2. CASE list = {}
      BY <1>3, <2>1, <3>2 DEF GrantsOf
    <3> QED BY <1>7, <3>1, <3>2
  <2> QED BY <1>2, <1>3, <1>7, <2>1, <2>2, <2>3, <2>4, OtherEdits
<1> QED BY <1>12, <1>13, <1>14, <1>15, <1>16 DEF RolesInv

\* An edit begins; one beside it makes the role torn.
LEMMA UpdateRoleStep ==
  ASSUME RolesInv, NEW a \in RoleActors, NEW r \in RoleRows, NEW list \in SUBSET Codes, UpdateRole(a, r, list)
  PROVE  RolesInv'
<1> DEFINE x == [Resting EXCEPT !.kind = "edit", !.at = "clear", !.row = {r}, !.list = list]
<1>1. actor[a] = Resting /\ actor \in [RoleActors -> ActorStates] /\ role[r].own
  BY DEF UpdateRole, RolesInv, RolesTyped
<1>2. /\ granted' = granted /\ catalogue' = catalogue /\ holder' = holder /\ role' = role /\ edited' = edited
      /\ twins' = twins /\ roleFaults' = roleFaults /\ done' = done /\ actor' = [actor EXCEPT ![a] = x]
  BY DEF UpdateRole
<1>3. torn \subseteq torn' /\ torn' \subseteq torn \cup {r}
      /\ ((\E b \in RoleActors : EditsRole(actor[b], r)) => r \in torn')
  BY DEF UpdateRole, EditsRole
<1>4. x \in ActorStates /\ x.kind = "edit" /\ x.at = "clear" /\ x.row = {r} /\ x.list = list
  BY DEF ActorStates, Resting
<1>5. actor[a].kind = "none"
  BY <1>1 DEF Resting
<1> HIDE DEF x
<1>6. RolesGrow
  BY <1>2 DEF RolesGrow
<1>7. EditGood(x, role') /\ ScriptGood(x, role', granted', catalogue')
  BY <1>1, <1>2, <1>4 DEF EditGood, ScriptGood, Scripts
<1>8. RolesTypeOK'
  <2>1. \A b \in RoleActors : actor'[b].row \subseteq RoleRows
    BY <1>1, <1>2, <1>4 DEF ActorStates
  <2> QED BY <1>2, <1>3, <2>1 DEF RolesInv, RolesTyped, RolesTypeOK
<1>9. RolesTyped' /\ ActorsGood' /\ DoneMapped'
  BY <1>2, <1>4, <1>6, <1>7, <1>8, ActorMoves DEF RolesInv
<1>10. OldKept'
  BY <1>2, <1>4, <1>5, OldStays DEF RolesInv
<1>11. MakersApart'
  <2>1. \A n \in SystemNames, q \in RoleRows : IsGlobal(q, n, role') <=> IsGlobal(q, n, role)
    BY <1>2
  <2> QED BY <1>2, <1>4, <2>1, MakersStay DEF RolesInv
<1>12. RoleRowsGood' /\ HolderIsAppointed'
  BY <1>2 DEF RoleRowsGood, RoleRowGood, HolderIsAppointed, RolesInv
<1>13. EditsApart' /\ TeamRolesAreTheirs'
  <2>1. \A q \in RoleRows \ {r} : ~EditsRole(actor[a], q) /\ ~EditsRole(x, q)
    BY <1>4, <1>5 DEF EditsRole
  <2>2. EditsRole(x, r)
    BY <1>4 DEF EditsRole
  <2>3. r \notin torn' => \A b \in RoleActors : ~EditsRole(actor[b], r)
    BY <1>3
  <2> QED BY <1>2, <1>3, <1>4, <2>1, <2>2, <2>3, OtherEdits
<1> QED BY <1>9, <1>10, <1>11, <1>12, <1>13 DEF RolesInv

\* The grants go, and the edit is still to write the new ones.
LEMMA EditClearsStep ==
  ASSUME RolesInv, NEW a \in RoleActors, NEW r \in RoleRows, EditClears(a, r)
  PROVE  RolesInv'
<1> DEFINE x == [kind |-> actor[a].kind, at |-> "grant", todo |-> {}, row |-> {r}, list |-> actor[a].list]
<1>1. actor[a] \in ActorStates /\ actor \in [RoleActors -> ActorStates] /\ EditGood(actor[a], role)
      /\ actor[a].kind = "edit" /\ actor[a].row = {r} /\ actor[a].at = "clear"
  BY DEF EditClears, ClearGrants, ActorAt, RolesInv, RolesTyped, ActorsGood
<1>2. /\ catalogue' = catalogue /\ holder' = holder /\ role' = role /\ edited' = edited /\ torn' = torn
      /\ twins' = twins /\ roleFaults' = roleFaults /\ done' = done /\ granted' = granted \ ({r} \X Codes)
  BY DEF EditClears, ClearGrants
<1>3. actor' = [actor EXCEPT ![a] = x]
  BY <1>1, ActorGoesTo DEF EditClears
<1>4. x \in ActorStates /\ x.kind = "edit" /\ x.at = "grant" /\ x.row = {r} /\ x.list = actor[a].list
  BY <1>1 DEF ActorStates
<1>5. role[r].own /\ actor[a].list \subseteq Codes
  BY <1>1 DEF EditGood
<1> HIDE DEF x
<1>6. granted \subseteq RoleRows \X Codes /\ granted' \subseteq granted
      /\ (\A c \in Codes : <<r, c>> \notin granted')
      /\ \A q \in RoleRows \ {r} : \A c \in Codes : <<q, c>> \in granted' <=> <<q, c>> \in granted
  BY <1>2 DEF RolesInv, RolesTyped, RolesTypeOK
<1>7. role[r].name \notin SystemNames /\ r # AgentRow
  BY <1>5 DEF RolesInv, RoleRowsGood, RoleRowGood
<1>8. RolesGrow
  BY <1>2, <1>6, <1>7 DEF RolesGrow
<1>9. EditGood(x, role') /\ ScriptGood(x, role', granted', catalogue')
  BY <1>2, <1>4, <1>5 DEF EditGood, ScriptGood, Scripts
<1>10. RolesTypeOK'
  <2>1. \A b \in RoleActors : actor'[b].row \subseteq RoleRows
    BY <1>1, <1>3, <1>4 DEF ActorStates
  <2> QED BY <1>2, <1>6, <2>1 DEF RolesInv, RolesTyped, RolesTypeOK
<1>11. RolesTyped' /\ ActorsGood' /\ DoneMapped'
  BY <1>2, <1>3, <1>4, <1>8, <1>9, <1>10, ActorMoves DEF RolesInv
<1>12. OldKept'
  <2>1. \A c \in OldCodes : <<AgentRow, c>> \in granted => <<AgentRow, c>> \in granted'
    BY <1>6, <1>7, RolesAssumption
  <2> QED BY <1>1, <1>2, <1>3, <1>4, <2>1, OldStays DEF RolesInv
<1>13. MakersApart'
  <2>1. \A n \in SystemNames, q \in RoleRows : IsGlobal(q, n, role') <=> IsGlobal(q, n, role)
    BY <1>2
  <2> QED BY <1>2, <1>3, <1>4, <2>1, MakersStay DEF RolesInv
<1>14. RoleRowsGood' /\ HolderIsAppointed'
  BY <1>2, <1>6 DEF RoleRowsGood, RoleRowGood, HolderIsAppointed, RolesInv
<1>15. EditsApart' /\ TeamRolesAreTheirs'
  <2>1. \A q \in RoleRows \ {r} : ~EditsRole(actor[a], q) /\ ~EditsRole(x, q)
    BY <1>1, <1>4 DEF EditsRole
  <2>2. EditsRole(x, r) /\ EditsRole(actor[a], r)
    BY <1>1, <1>4 DEF EditsRole
  <2>3. r \notin torn' => \A b \in RoleActors : EditsRole(actor[b], r) => b = a
    BY <1>2, <2>2 DEF RolesInv, EditsApart
  <2> QED BY <1>2, <1>3, <1>4, <1>6, <2>1, <2>2, <2>3, OtherEdits
<1> QED BY <1>11, <1>12, <1>13, <1>14, <1>15 DEF RolesInv

\* The list is written whole, or the role is torn.
LEMMA GrantListStep ==
  ASSUME RolesInv, NEW a \in RoleActors, NEW r \in RoleRows, GrantList(a, r)
  PROVE  RolesInv'
<1> DEFINE y == [Resting EXCEPT !.kind = "done"]
           list == actor[a].list
           ok == list \subseteq catalogue /\ list \cap GrantsOf(r) = {}
<1>1. actor[a] \in ActorStates /\ actor \in [RoleActors -> ActorStates] /\ EditGood(actor[a], role)
      /\ actor[a].kind = "edit" /\ actor[a].row = {r} /\ actor[a].at = "grant"
  BY DEF GrantList, ActorAt, RolesInv, RolesTyped, ActorsGood
<1>2. /\ catalogue' = catalogue /\ holder' = holder /\ role' = role /\ edited' = [edited EXCEPT ![r] = list]
      /\ twins' = twins /\ roleFaults' = roleFaults /\ done' = done
      /\ granted' = (IF ok THEN granted \cup ({r} \X list) ELSE granted)
      /\ torn' = (IF ok THEN torn ELSE torn \cup {r})
  BY DEF GrantList
<1>3. y \in ActorStates /\ y.kind = "done" /\ y.at = "end" /\ EditGood(y, role) /\ ScriptGood(y, role, granted, catalogue)
      /\ actor' = [actor EXCEPT ![a] = y]
  BY ActorAtRest DEF GrantList, Ends
<1>4. role[r].own /\ list \subseteq Codes
  BY <1>1 DEF EditGood
<1>5. role[r] # NoRole
  BY <1>4 DEF NoRole
<1> HIDE DEF y, ok
<1>6. /\ granted' \subseteq RoleRows \X Codes /\ granted \subseteq granted'
      /\ torn \subseteq torn' /\ torn' \subseteq RoleRows
      /\ \A q \in RoleRows \ {r} : \A c \in Codes : <<q, c>> \in granted' <=> <<q, c>> \in granted
  <2>1. granted \subseteq RoleRows \X Codes /\ torn \subseteq RoleRows
    BY DEF RolesInv, RolesTyped, RolesTypeOK
  <2>2. CASE ok
    BY <1>2, <1>4, <2>1, <2>2
  <2>3. CASE ~ok
    BY <1>2, <2>1, <2>3
  <2> QED BY <2>2, <2>3
<1>7. edited' \in [RoleRows -> SUBSET Codes] /\ edited'[r] = list /\ \A q \in RoleRows \ {r} : edited'[q] = edited[q]
  BY <1>2, <1>4 DEF RolesInv, RolesTyped, RolesTypeOK
<1>8. RolesGrow
  BY <1>2, <1>6 DEF RolesGrow
<1>9. EditGood(y, role') /\ ScriptGood(y, role', granted', catalogue')
  BY <1>3, <1>8, ActorsStay DEF RolesInv
<1>10. RolesTypeOK'
  <2>1. \A b \in RoleActors : actor'[b].row \subseteq RoleRows
    BY <1>1, <1>3 DEF ActorStates
  <2> QED BY <1>2, <1>6, <1>7, <2>1 DEF RolesInv, RolesTyped, RolesTypeOK
<1>11. RolesTyped' /\ ActorsGood' /\ DoneMapped'
  BY <1>2, <1>3, <1>8, <1>9, <1>10, ActorMoves DEF RolesInv
<1>12. OldKept'
  BY <1>1, <1>2, <1>3, <1>6, OldStays DEF RolesInv
<1>13. MakersApart'
  <2>1. \A n \in SystemNames, q \in RoleRows : IsGlobal(q, n, role') <=> IsGlobal(q, n, role)
    BY <1>2
  <2> QED BY <1>2, <1>3, <2>1, MakersStay DEF RolesInv
<1>14. RoleRowsGood' /\ HolderIsAppointed'
  <2>1. \A q \in RoleRows : role[q] = NoRole => \A c \in Codes : <<q, c>> \notin granted'
    BY <1>5, <1>6 DEF RolesInv, RoleRowsGood, RoleRowGood
  <2> QED BY <1>2, <2>1 DEF RoleRowsGood, RoleRowGood, HolderIsAppointed, RolesInv
<1>15. EditsApart' /\ TeamRolesAreTheirs'
  <2>1. \A q \in RoleRows \ {r} : ~EditsRole(actor[a], q) /\ ~EditsRole(y, q)
    BY <1>1, <1>3 DEF EditsRole
  <2>2. EditsRole(actor[a], r) /\ ~EditsRole(y, r)
    BY <1>1, <1>3 DEF EditsRole
  <2>3. ASSUME r \notin torn'
        PROVE  (\A b \in RoleActors : EditsRole(actor[b], r) => b = a) /\ GrantsOf(r)' = edited'[r]
    <3>1. ok /\ r \notin torn /\ granted' = granted \cup ({r} \X list)
      BY <1>2, <2>3
    <3>2. /\ \A b \in RoleActors : EditsRole(actor[b], r) => b = a
          /\ \A c \in Codes : <<r, c>> \notin granted
      BY <1>1, <2>2, <3>1 DEF RolesInv, EditsApart
    <3>3. \A c \in Codes : <<r, c>> \in granted' <=> c \in list
      BY <3>1, <3>2
    <3>4. GrantsOf(r)' = list
      BY <1>4, <3>3 DEF GrantsOf
    <3> QED BY <1>7, <3>2, <3>4
  <2> QED BY <1>2, <1>3, <1>6, <1>7, <2>1, <2>2, <2>3, OtherEdits
<1> QED BY <1>11, <1>12, <1>13, <1>14, <1>15 DEF RolesInv

-----------------------------------------------------------------------------
\* The earlier version's role and the team's have what it granted.
LEMMA RolesStart ==
  ASSUME RolesInit
  PROVE  RolesInv
<1>1. /\ OldCodes \subseteq Codes /\ AgentRow \in RoleRows /\ TeamRow \in RoleRows /\ AgentRow # TeamRow /\ RoleFaults \in Nat
  BY RolesAssumption
<1>2. /\ role \in [RoleRows -> RoleStates]
      /\ \A r \in RoleRows : role[r] = CASE r = AgentRow -> [name |-> "AGENT", own |-> FALSE, system |-> TRUE]
                                         [] r = TeamRow -> [name |-> "TEAM", own |-> TRUE, system |-> FALSE]
                                         [] OTHER -> NoRole
  <2> DEFINE f(r) == CASE r = AgentRow -> [name |-> "AGENT", own |-> FALSE, system |-> TRUE]
                       [] r = TeamRow -> [name |-> "TEAM", own |-> TRUE, system |-> FALSE]
                       [] OTHER -> NoRole
  <2>1. \A r \in RoleRows : f(r) \in RoleStates
    BY <1>1 DEF RoleStates, NoRole, SystemNames
  <2>2. role = [r \in RoleRows |-> f(r)]
    BY DEF RolesInit
  <2> HIDE DEF f
  <2>3. role \in [RoleRows -> RoleStates] /\ \A r \in RoleRows : role[r] = f(r)
    BY <2>1, <2>2
  <2> QED BY <2>3 DEF f
<1>3. /\ role[AgentRow] = [name |-> "AGENT", own |-> FALSE, system |-> TRUE]
      /\ role[TeamRow] = [name |-> "TEAM", own |-> TRUE, system |-> FALSE]
      /\ \A r \in RoleRows \ {AgentRow, TeamRow} : role[r] = NoRole
  BY <1>1, <1>2
<1>4. /\ catalogue = OldCodes /\ granted = {AgentRow, TeamRow} \X OldCodes /\ holder = {TeamRow}
      /\ torn = {} /\ twins = FALSE /\ done = {} /\ roleFaults = 0
  BY DEF RolesInit
<1>5. actor = [a \in RoleActors |-> Resting] /\ edited = [r \in RoleRows |-> IF r = TeamRow THEN OldCodes ELSE {}]
  BY DEF RolesInit
<1>6. Resting \in ActorStates /\ Resting.kind = "none" /\ Resting.at = "end" /\ Resting.row = {}
  BY DEF Resting, ActorStates
<1>7. actor \in [RoleActors -> ActorStates] /\ \A a \in RoleActors : actor[a] = Resting
  BY <1>5, <1>6
<1>8. edited \in [RoleRows -> SUBSET Codes]
  BY <1>1, <1>5
<1>9. RolesTyped
  <2>1. \A a \in RoleActors : actor[a].row \subseteq RoleRows
    BY <1>6, <1>7
  <2>2. catalogue \subseteq Codes /\ granted \subseteq RoleRows \X Codes /\ holder \subseteq RoleRows
    BY <1>1, <1>4
  <2>3. role \in [RoleRows -> [name : SystemNames \cup {"none", "TEAM", "TEAM2"}, own : BOOLEAN, system : BOOLEAN]]
    BY <1>2 DEF RoleStates
  <2>4. torn \subseteq RoleRows /\ twins \in BOOLEAN /\ done \subseteq Scripts /\ roleFaults \in 0 .. RoleFaults
    <3>1. roleFaults \in 0 .. RoleFaults
      BY <1>1, <1>4
    <3> QED BY <1>4, <3>1
  <2> QED BY <1>7, <1>8, <2>1, <2>2, <2>3, <2>4 DEF RolesTyped, RolesTypeOK
<1>10. RoleRowsGood
  <2>1. \A r \in RoleRows : role[r].name \in SystemNames => ~role[r].own
    BY <1>3 DEF NoRole, SystemNames
  <2>2. \A r \in RoleRows : role[r] = NoRole => \A c \in Codes : <<r, c>> \notin granted
    BY <1>3, <1>4 DEF NoRole
  <2>3. \A r \in holder : role[r] # NoRole
    BY <1>3, <1>4 DEF NoRole
  <2> QED BY <1>3, <2>1, <2>2, <2>3 DEF RoleRowsGood, RoleRowGood
<1>11. ActorsGood
  BY <1>6, <1>7 DEF ActorsGood, EditGood, ScriptGood, Scripts
<1>12. EditsApart
  BY <1>6, <1>7 DEF EditsApart, EditsRole
<1>13. MakersApart
  <2>1. \A n \in SystemNames, r \in RoleRows : IsGlobal(r, n, role) => r = AgentRow
    BY <1>3 DEF IsGlobal, NoRole, SystemNames
  <2> QED BY <1>6, <1>7, <2>1 DEF MakersApart
<1>14. OldKept
  BY <1>4 DEF OldKept
<1>15. TeamRolesAreTheirs
  <2>1. \A r \in RoleRows : role[r].own => r = TeamRow
    BY <1>3 DEF NoRole
  <2>2. GrantsOf(TeamRow) = edited[TeamRow]
    BY <1>1, <1>4, <1>5 DEF GrantsOf
  <2> QED BY <2>1, <2>2 DEF TeamRolesAreTheirs
<1>16. DoneMapped /\ HolderIsAppointed
  BY <1>3, <1>4 DEF DoneMapped, HolderIsAppointed
<1> QED BY <1>9, <1>10, <1>11, <1>12, <1>13, <1>14, <1>15, <1>16 DEF RolesInv

\* Every step keeps the roles and the map.
LEMMA RolesStep ==
  ASSUME RolesInv, [RolesNext]_roleVars
  PROVE  RolesInv'
<1>1. CASE UNCHANGED roleVars
  BY <1>1 DEF roleVars, RolesInv, RolesTyped, RolesTypeOK, RoleRowsGood, RoleRowGood, ActorsGood,
     EditsApart, MakersApart, OldKept,
     TeamRolesAreTheirs, GrantsOf, DoneMapped, HolderIsAppointed
<1>2. ASSUME NEW a \in RoleActors, NEW r \in RoleRows, NEW list \in SUBSET Codes, CreateRole(a, r, list) \/ UpdateRole(a, r, list)
      PROVE  RolesInv'
  BY <1>2, CreateRoleStep, UpdateRoleStep
<1>3. ASSUME NEW a \in RoleActors, NEW r \in RoleRows,
             EditClears(a, r) \/ GrantList(a, r) \/ UpdateMemberRole(a, r) \/ CreateSystemRole(a, r)
      PROVE  RolesInv'
  BY <1>3, EditClearsStep, GrantListStep, AssignStep, CreateSystemStep
<1>4. ASSUME NEW a \in RoleActors,
             EndMembership(a) \/ LookForCode(a) \/ CreateCode(a) \/ Reconcile(a) \/ NextRole(a) \/ ActorDies(a)
      PROVE  RolesInv'
  BY <1>4, MembershipEnds, LookForCodeStep, CreateCodeStep, ReconcileStep, NextRoleStep,
     ActorDiesStep
<1>5. ASSUME NEW a \in RoleActors, NEW kind \in Scripts, StartScript(a, kind) PROVE RolesInv'
  BY <1>5, ScriptStarts
<1>6. ASSUME NEW a \in RoleActors, NEW name \in SystemNames, LookForRole(a, name) PROVE RolesInv'
  BY <1>6, LookForRoleStep
<1> QED BY <1>1, <1>2, <1>3, <1>4, <1>5, <1>6 DEF RolesNext

\* Mapped roles, one of a name, and what was granted kept.
LEMMA RolesMeans ==
  ASSUME RolesInv
  PROVE  RolesTypeOK /\ RolesHold
<1>1. ASSUME done \cap {"sync", "revoke", "seed"} # {}, NEW name \in SystemNames
      PROVE  \E r \in Global(name) : MapGrants(name) \subseteq GrantsOf(r)
  <2>1. PICK r \in RoleRows : IsGlobal(r, name, role) /\ MayDoAll(r, name, granted)
    BY <1>1 DEF RolesInv, DoneMapped, Mapped
  <2>2. r \in Global(name)
    BY <2>1 DEF IsGlobal, Global
  <2>3. MapGrants(name) \subseteq GrantsOf(r)
    BY <2>1 DEF MapGrants, MayDoAll, GrantsOf
  <2> QED BY <2>2, <2>3
<1>2. ASSUME ~twins, NEW name \in SystemNames PROVE Cardinality(Global(name)) <= 1
  <2>1. \A r, q \in Global(name) : r = q
    BY <1>2 DEF RolesInv, MakersApart, Global, IsGlobal
  <2>2. CASE Global(name) = {}
    BY <2>2, FS_EmptySet
  <2>3. CASE Global(name) # {}
    <3>1. PICK r \in Global(name) : TRUE
      BY <2>3
    <3>2. Global(name) = {r}
      BY <2>1, <3>1
    <3> HIDE DEF Global
    <3> QED BY <3>2, FS_Singleton
  <2> QED BY <2>2, <2>3
<1>3. ASSUME \A a \in RoleActors : actor[a].kind # "revoke", "revoke" \notin done, roleFaults = 0
      PROVE  {AgentRow} \X OldCodes \subseteq granted
  BY <1>3 DEF RolesInv, OldKept
<1>4. SystemRolesAreMapped
  BY <1>1, <1>2, <1>3 DEF SystemRolesAreMapped
<1> QED BY <1>4 DEF RolesInv, RolesTyped, RolesHold, HolderIsAppointed

\* Roles, grants, actors and histories keep their types (organizations.service.ts, sync-permissions.ts).
THEOREM RolesTypeCorrect == RolesSpec => []RolesTypeOK
<1>1. RolesInv => RolesTypeOK
  BY RolesMeans
<1> QED BY <1>1, RolesStart, RolesStep, PTL DEF RolesSpec

\* A team's role holds its last edit, and a system role at least what the map grants, one row of a name; only bootstrap appoints the owner (OrganizationsService.updateRole, sync-permissions.ts, bootstrap-marketing.ts).
THEOREM RolesCorrect == RolesSpec => []RolesHold
<1>1. RolesInv => RolesHold
  BY RolesMeans
<1> QED BY <1>1, RolesStart, RolesStep, PTL DEF RolesSpec
=============================================================================
