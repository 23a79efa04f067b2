---------------------------- MODULE LoginThrottle ----------------------------
(***************************************************************************)
(* The limit on requests to one of the routes that take credentials        *)
(* (auth-throttle.guard.ts): a counter for each host and for each          *)
(* account, over a window of time, and a lock once it is passed.  The      *)
(* counters are in the memory of the API.                                  *)
(***************************************************************************)
EXTENDS Naturals, FiniteSets

CONSTANTS
  Hosts, Logins, \* requests come from a host, for an account or for none
  MaxPerHost, MaxPerLogin,
  Window, Lockout,
  Horizon,           \* bound: the time looked at
  Restarts           \* bound: restarts of the API

ASSUME ThrottleAssumption ==
  /\ IsFiniteSet(Hosts) /\ IsFiniteSet(Logins) /\ Hosts \cap Logins = {}
  /\ {MaxPerHost, MaxPerLogin, Window, Lockout} \subseteq Nat \ {0}
  /\ Lockout = Window /\ {Horizon, Restarts} \subseteq Nat

VARIABLES
  instant,
  bucket,   \* buckets: of each host and account, [count, resetAt, lockedUntil]; count 0: none
  admitted, \* history: requests let through for each account before each time, since the last start
  restarts

throttleVars == <<instant, bucket, admitted, restarts>>

BucketKeys == Hosts \cup Logins
NoBucket == [count |-> 0, resetAt |-> 0, lockedUntil |-> 0]
Times == 0..Horizon + 1
Nobody == [l \in Logins |-> [time \in Times |-> 0]]

ThrottleInit ==
  /\ instant = 0 /\ bucket = [k \in BucketKeys |-> NoBucket] /\ admitted = Nobody /\ restarts = 0

MaxOf(k) == IF k \in Hosts THEN MaxPerHost ELSE MaxPerLogin

Locked(b) == b.lockedUntil > instant
WindowOver(b) == b.count = 0 \/ b.resetAt <= instant

\* sweep: in a crowded memory, what is left of windows and locks of the past goes first.
Past(k) == bucket[k].resetAt <= instant /\ ~Locked(bucket[k])
Swept(k, crowded) == IF crowded /\ Past(k) THEN NoBucket ELSE bucket[k]

\* hit: a bucket of key k after a request.
Hit(k, b) ==
  LET over == b.count + 1 - MaxOf(k) IN
  IF Locked(b) THEN b
  ELSE IF WindowOver(b) THEN [count |-> 1, resetAt |-> instant + Window, lockedUntil |-> 0]
  ELSE [b EXCEPT !.count = @ + 1,
                 !.lockedUntil = IF over > 0 THEN instant + Lockout * (IF over > 4 THEN 4 ELSE over) ELSE @]

\* canActivate: the host and the account are both counted, and either may be locked.
Attempt(host, for, crowded) ==
  LET hits == {host} \cup for
      After(k) == IF k \in hits THEN Hit(k, Swept(k, crowded)) ELSE Swept(k, crowded)
      Through(l) == l \in for /\ \A k \in hits : ~Locked(After(k)) IN
  /\ bucket' = [k \in BucketKeys |-> After(k)]
  /\ admitted' = [l \in Logins |->
       [time \in Times |-> IF Through(l) /\ time > instant THEN admitted[l][time] + 1 ELSE admitted[l][time]]]
  /\ UNCHANGED <<instant, restarts>>

Tick ==
  /\ instant < Horizon /\ instant' = instant + 1
  /\ UNCHANGED <<bucket, admitted, restarts>>

Restart ==
  /\ restarts < Restarts /\ restarts' = restarts + 1
  /\ bucket' = [k \in BucketKeys |-> NoBucket] /\ admitted' = Nobody
  /\ UNCHANGED instant

ThrottleNext ==
  \/ \E host \in Hosts : \E for \in {{}} \cup {{l} : l \in Logins} :
     \E crowded \in {FALSE, \E k \in BucketKeys : Past(k) /\ bucket[k] # NoBucket} :
       Attempt(host, for, crowded)
  \/ Tick \/ Restart

ThrottleSpec == ThrottleInit /\ [][ThrottleNext]_throttleVars

-----------------------------------------------------------------------------
(* Properties *)

BucketStates ==
  [count : 0..MaxPerHost + MaxPerLogin + 1, resetAt : 0..Horizon + Window, lockedUntil : 0..Horizon + Lockout]

ThrottleTypeOK ==
  /\ instant \in 0..Horizon /\ restarts \in 0..Restarts
  /\ bucket \in [BucketKeys -> BucketStates]
  /\ \A k \in BucketKeys : bucket[k].count <= MaxOf(k) + 1
  /\ admitted \in [Logins -> [Times -> Nat]]

\* Wherever a stretch of one window begins, fewer than twice the limit are let through for an
\* account in it, from all addresses together (MAX_PER_ACCOUNT).
FewPerAccount ==
  \A l \in Logins : \A start, end \in Times :
    end <= start + Window => admitted[l][end] < admitted[l][start] + 2 * MaxPerLogin

\* Who waits as long as the refusal said starts afresh: the window has ended by then, and a
\* lock is never longer than one lockout (retryAfter).
WaitingIsEnough ==
  \A k \in BucketKeys : bucket[k].lockedUntil # 0 =>
    bucket[k].resetAt <= bucket[k].lockedUntil /\ bucket[k].lockedUntil <= instant + Lockout

ThrottleHolds == FewPerAccount /\ WaitingIsEnough
=============================================================================
