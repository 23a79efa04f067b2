------------------------- MODULE CallerVerification -------------------------
(***************************************************************************)
(* One-time codes within one call (verification.service.ts).  Codes and    *)
(* answers to them may be handled side by side, and each handler goes by   *)
(* the row it has read.  The service is there for tools that need a        *)
(* verified scope; no route and no event starts a verification yet.        *)
(***************************************************************************)
EXTENDS Naturals, Sequences, FiniteSets

CONSTANTS
  Scopes,             \* what a code may give access to
  CodeRequests,       \* calls of startOtp
  Verifies,            \* calls of verify
  CodeLimit,          \* MAX_REQUESTS_PER_CALL: 3 in the code
  AttemptLimit,       \* MAX_ATTEMPTS: 3 in the code
  VerificationFaults  \* bound: statements that fail

ASSUME VerificationAssumption ==
  IsFiniteSet(CodeRequests) /\ {CodeLimit, AttemptLimit, VerificationFaults} \subseteq Nat

VARIABLES
  codes,       \* verification_sessions in the order of creation: [scope, attempts, verified, expired]
  requesting,  \* each startOtp: "idle", "create", "refused" or "sent"
  answer,      \* each verify: [at, code, right], the row it has read and whether it is given its code
  compared,    \* history: the answers each code was compared with
  opened,    \* history: for each code, the answers that were told ok
  crowdedCall, \* history: a code was requested while another request was between count and create
  crowded,     \* history: codes that two answers were dealing with at once
  verificationFaults

verificationVars == <<codes, requesting, answer, compared, opened, crowdedCall, crowded, verificationFaults>>

CodeNumbers == 1..Cardinality(CodeRequests)
NotAsked == [at |-> "idle", code |-> 0, right |-> FALSE]
CodeRows == [scope : Scopes, attempts : Nat, verified : BOOLEAN, expired : BOOLEAN]

VerificationTypeOK ==
  /\ codes \in Seq(CodeRows) /\ Len(codes) <= Cardinality(CodeRequests)
  /\ requesting \in [CodeRequests -> {"idle", "create", "refused", "sent"}]
  /\ answer \in [Verifies -> [at : {"idle", "attempt", "stamp", "done"}, code : {0} \cup CodeNumbers,
                             right : BOOLEAN]]
  /\ compared \in [CodeNumbers -> SUBSET Verifies] /\ opened \in [CodeNumbers -> SUBSET Verifies]
  /\ crowdedCall \in BOOLEAN /\ crowded \subseteq CodeNumbers /\ verificationFaults \in 0..VerificationFaults

VerificationInit ==
  /\ codes = <<>> /\ requesting = [q \in CodeRequests |-> "idle"] /\ answer = [v \in Verifies |-> NotAsked]
  /\ compared = [k \in CodeNumbers |-> {}] /\ opened = [k \in CodeNumbers |-> {}]
  /\ crowdedCall = FALSE /\ crowded = {} /\ verificationFaults = 0

-----------------------------------------------------------------------------
(* startOtp *)

\* The codes of the call are counted, whatever their scope and state ...
CountCodes(q) ==
  /\ requesting[q] = "idle"
  /\ requesting' = [requesting EXCEPT ![q] = IF Len(codes) < CodeLimit THEN "create" ELSE "refused"]
  /\ crowdedCall' = (crowdedCall \/ \E o \in CodeRequests \ {q} : requesting[o] = "create")
  /\ UNCHANGED <<codes, answer, compared, opened, crowded, verificationFaults>>

\* ... and one is added, for somebody else to send.
CreateOtp(q, s) ==
  /\ requesting[q] = "create" /\ requesting' = [requesting EXCEPT ![q] = "sent"]
  /\ codes' = Append(codes, [scope |-> s, attempts |-> 0, verified |-> FALSE, expired |-> FALSE])
  /\ UNCHANGED <<answer, compared, opened, crowdedCall, crowded, verificationFaults>>

\* Five minutes pass: the older codes expire first.
ExpireCode(k) ==
  /\ k \in DOMAIN codes /\ ~codes[k].expired /\ \A j \in 1..(k - 1) : codes[j].expired
  /\ codes' = [codes EXCEPT ![k].expired = TRUE]
  /\ UNCHANGED <<requesting, answer, compared, opened, crowdedCall, crowded, verificationFaults>>

-----------------------------------------------------------------------------
(* verify *)

Unverified(s) == {k \in DOMAIN codes : codes[k].scope = s /\ ~codes[k].verified}
Answering(k) == {v \in Verifies : answer[v].at \in {"attempt", "stamp"} /\ answer[v].code = k}

\* One attempt too many (a slip CallsHold must notice).
MayAttemptInclusive(k) == ~codes[k].expired /\ codes[k].attempts <= AttemptLimit

\* A verified row is not found, so that the check of consumedAt never refuses.
MayAttempt(k) == ~codes[k].expired /\ codes[k].attempts < AttemptLimit

\* The newest code of the scope that is not verified: an older one once the newer is.
FindCode(v, s, given) ==
  /\ answer[v].at = "idle"
  /\ IF Unverified(s) = {}
     THEN answer' = [answer EXCEPT ![v].at = "done"] /\ UNCHANGED crowded
     ELSE \E k \in Unverified(s) :
          /\ \A j \in Unverified(s) : j <= k
          /\ IF MayAttempt(k)
             THEN /\ answer' = [answer EXCEPT ![v] = [at |-> "attempt", code |-> k, right |-> given = k]]
                  /\ crowded' = IF Answering(k) = {} THEN crowded ELSE crowded \cup {k}
             ELSE answer' = [answer EXCEPT ![v].at = "done"] /\ UNCHANGED crowded
  /\ UNCHANGED <<codes, requesting, compared, opened, crowdedCall, verificationFaults>>

\* The attempt is counted before the code is compared.
CountAttempt(v) ==
  LET k == answer[v].code IN
  /\ answer[v].at = "attempt"
  /\ codes' = [codes EXCEPT ![k].attempts = @ + 1]
  /\ compared' = [compared EXCEPT ![k] = @ \cup {v}]
  /\ answer' = [answer EXCEPT ![v].at = IF answer[v].right THEN "stamp" ELSE "done"]
  /\ UNCHANGED <<requesting, opened, crowdedCall, crowded, verificationFaults>>

StampVerified(v) ==
  LET k == answer[v].code IN
  /\ answer[v].at = "stamp" /\ answer' = [answer EXCEPT ![v].at = "done"]
  /\ codes' = [codes EXCEPT ![k].verified = TRUE]
  /\ opened' = [opened EXCEPT ![k] = @ \cup {v}]
  /\ UNCHANGED <<requesting, compared, crowdedCall, crowded, verificationFaults>>

VerifyFails(v) ==
  /\ answer[v].at \in {"attempt", "stamp"} /\ verificationFaults < VerificationFaults
  /\ answer' = [answer EXCEPT ![v].at = "done"] /\ verificationFaults' = verificationFaults + 1
  /\ UNCHANGED <<codes, requesting, compared, opened, crowdedCall, crowded>>

\* What a tool call of this moment may do.
VerifiedScopes == {codes[k].scope : k \in {j \in DOMAIN codes : codes[j].verified /\ ~codes[j].expired}}

VerificationNext ==
  \/ \E q \in CodeRequests : CountCodes(q) \/ \E s \in Scopes : CreateOtp(q, s)
  \/ \E k \in CodeNumbers : ExpireCode(k)
  \/ \E v \in Verifies :
       \/ \E s \in Scopes, given \in {0} \cup DOMAIN codes : FindCode(v, s, given)
       \/ CountAttempt(v) \/ StampVerified(v) \/ VerifyFails(v)

VerificationSpec == VerificationInit /\ [][VerificationNext]_verificationVars

-----------------------------------------------------------------------------
\* A call has no more codes than it may request, unless two requests overlapped.
CodesAreLimited == ~crowdedCall => Len(codes) <= CodeLimit

\* A code is compared with no more answers than it has attempts, and opens its scope to one
\* answer only, unless answers to it overlapped.
AttemptsAreLimited ==
  \A k \in CodeNumbers \ crowded :
    Cardinality(compared[k]) <= AttemptLimit /\ Cardinality(opened[k]) <= 1

\* A scope is open only to a call in which its own code, and not one of another scope, was
\* given while it could be.
OpenedByItsCode ==
  \A s \in VerifiedScopes : \E k \in DOMAIN codes :
    codes[k].scope = s /\ \E v \in opened[k] : answer[v].right /\ answer[v].code = k

VerificationHolds == CodesAreLimited /\ AttemptsAreLimited /\ OpenedByItsCode
=============================================================================
