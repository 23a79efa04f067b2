---------------------------- MODULE AuthSession ----------------------------
(***************************************************************************)
(* Sessions, passwords and the second factor of one account                *)
(* (auth.service.ts, auth.guard.ts).  Requests of the account run at the   *)
(* same time; each is let in once, by a password, a session row or a reset *)
(* token, and goes on with what it has seen there.                         *)
(***************************************************************************)
EXTENDS Naturals, FiniteSets

CONSTANTS
  Requests,
  FirstSession,  \* the session open at the start
  Passwords,     \* bound: changes of the password
  AuthCrashes    \* bound: crashes of the API

ASSUME AuthAssumption ==
  /\ IsFiniteSet(Requests) /\ FirstSession \notin Requests
  /\ Passwords \in Nat /\ AuthCrashes \in Nat

VARIABLES
  password,    \* number of changes: which password users.passwordHash is of
  twoFactor,   \* users.twoFactorEnabled
  credentials, \* two_factor_credentials: [by, after: those it is newer than, confirmed]
  sessions,    \* rows of sessions: [id, proof, late]
  resetTokens, \* verifications of type PASSWORD_RESET, named by the request that made them
  request,     \* each request: [at, of, proof, late]
  cut,         \* history: a request died after the new password and before the sessions ended
  tangled,     \* history: a confirmation overlapped a removal, or a removal died half way
  authCrashes

accountVars == <<password, twoFactor, credentials, sessions, resetTokens>>
authVars == <<accountVars, request, cut, tangled, authCrashes>>

Ids == Requests \cup {FirstSession}

\* A request: its next step, the row it is about, the password it was let in by, directly or
\* through its session, and whether the sessions of that password have been ended since.
Unsent == [at |-> "idle", of |-> FirstSession, proof |-> 0, late |-> FALSE]

AuthInit ==
  /\ password = 0 /\ twoFactor = FALSE /\ credentials = {} /\ resetTokens = {}
  /\ sessions = {[id |-> FirstSession, proof |-> 0, late |-> FALSE]}
  /\ request = [r \in Requests |-> Unsent]
  /\ cut = FALSE /\ tangled = FALSE
  /\ authCrashes = 0

AtStep(r, step) == request[r].at = step
Go(r, step) == request' = [request EXCEPT ![r].at = step]

\* The steps of verify2Fa and of disable2Fa.
Confirming == {"find", "confirm", "enable"}
Removing == {"forget", "disable"}
Busy(steps) == \E r \in Requests : request[r].at \in steps

HasConfirmed == \E c \in credentials : c.confirmed

-----------------------------------------------------------------------------
(* Being let in *)

\* login with the right password: a session, or the token that asks for a code.
Login(r) ==
  /\ AtStep(r, "idle")
  /\ request' = [request EXCEPT ![r] =
       [Unsent EXCEPT !.at = IF twoFactor THEN "mfa" ELSE "issue", !.proof = password]]
  /\ UNCHANGED <<accountVars, cut, tangled, authCrashes>>

\* loginMfa with the right code; the password is not looked at again.
LoginMfa(r) ==
  /\ AtStep(r, "mfa") /\ Go(r, "issue")
  /\ HasConfirmed
  /\ UNCHANGED <<accountVars, cut, tangled, authCrashes>>

\* issueSession.
IssueSession(r) ==
  /\ AtStep(r, "issue") /\ Go(r, "done")
  /\ sessions' = sessions \cup {[id |-> r, proof |-> request[r].proof, late |-> request[r].late]}
  /\ UNCHANGED <<password, twoFactor, credentials, resetTokens, cut, tangled, authCrashes>>

\* AuthGuard: the token's row is there.
Enter(r, s, step) ==
  /\ AtStep(r, "idle")
  /\ request' = [request EXCEPT ![r] = [at |-> step, of |-> s.id, proof |-> s.proof, late |-> s.late]]
  /\ tangled' = (tangled \/ (step \in Confirming /\ Busy(Removing))
                       \/ (step \in Removing /\ Busy(Confirming)))
  /\ UNCHANGED <<accountVars, cut, authCrashes>>

-----------------------------------------------------------------------------
(* Sessions and passwords *)

\* refreshToken, logout: the row the request came with, there or not; logoutAll: every row.
RefreshToken(r) ==
  /\ AtStep(r, "refresh") /\ Go(r, "issue")
  /\ sessions' = {s \in sessions : s.id # request[r].of}
  /\ UNCHANGED <<password, twoFactor, credentials, resetTokens, cut, tangled, authCrashes>>

Logout(r) ==
  /\ AtStep(r, "logout") /\ Go(r, "done")
  /\ \/ sessions' = {s \in sessions : s.id # request[r].of}
     \/ sessions' = {}
  /\ UNCHANGED <<password, twoFactor, credentials, resetTokens, cut, tangled, authCrashes>>

\* forgotPassword: one outstanding token, in two statements.
DropTokens(r) ==
  /\ AtStep(r, "idle") /\ Go(r, "token")
  /\ resetTokens' = {}
  /\ UNCHANGED <<password, twoFactor, credentials, sessions, cut, tangled, authCrashes>>

CreateToken(r) ==
  /\ AtStep(r, "token") /\ Go(r, "done")
  /\ resetTokens' = resetTokens \cup {r}
  /\ UNCHANGED <<password, twoFactor, credentials, sessions, cut, tangled, authCrashes>>

\* The sessions ended first (a slip SessionsAreExplained must notice).
RevokeFirst == <<"revoke", "update">>

\* What changePassword and resetPassword do, in this order, once the password is hashed.
PasswordSteps == <<"update", "revoke">>

\* resetPassword reads its token; two requests may have read the same one.
ReadToken(r, t) ==
  /\ AtStep(r, "idle") /\ t \in resetTokens
  /\ request' = [request EXCEPT ![r] = [Unsent EXCEPT !.at = PasswordSteps[1], !.of = t]]
  /\ UNCHANGED <<accountVars, cut, tangled, authCrashes>>

After(step) == IF PasswordSteps[1] = step THEN PasswordSteps[2] ELSE "spend"

UpdatePassword(r) ==
  /\ AtStep(r, "update") /\ password < Passwords
  /\ password' = password + 1
  /\ Go(r, After("update"))
  /\ UNCHANGED <<twoFactor, credentials, sessions, resetTokens, cut, tangled, authCrashes>>

\* Every session row; whoever is on the way to one is late.
RevokeSessions(r) ==
  /\ AtStep(r, "revoke")
  /\ sessions' = {}
  /\ request' = [q \in Requests |->
       IF q = r THEN [request[q] EXCEPT !.at = After("revoke")]
       ELSE [request[q] EXCEPT !.late = (@ \/ (request[q].at # "idle" /\ request[q].proof < password))]]
  /\ UNCHANGED <<password, twoFactor, credentials, resetTokens, cut, tangled, authCrashes>>

\* The token of a reset is deleted, if it is still there.
SpendToken(r) ==
  /\ AtStep(r, "spend") /\ Go(r, "done")
  /\ resetTokens' = resetTokens \ {request[r].of}
  /\ UNCHANGED <<password, twoFactor, credentials, sessions, cut, tangled, authCrashes>>

-----------------------------------------------------------------------------
(* The second factor *)

Factor(r, from, to) ==
  /\ AtStep(r, from) /\ Go(r, to)
  /\ UNCHANGED <<password, sessions, resetTokens, cut, tangled, authCrashes>>

\* Every credential is dropped (a slip SecondFactorUsable must notice).
DropAll(r) == Factor(r, "dropPending", "create") /\ credentials' = {} /\ UNCHANGED twoFactor

\* setup2Fa drops the pending credentials and creates one.
DropPending(r) ==
  /\ Factor(r, "dropPending", "create")
  /\ credentials' = {c \in credentials : c.confirmed}
  /\ UNCHANGED twoFactor

CreateCredential(r) ==
  /\ Factor(r, "create", "done")
  /\ credentials' = credentials \cup {[by |-> r, after |-> {c.by : c \in credentials}, confirmed |-> FALSE]}
  /\ UNCHANGED twoFactor

\* verify2Fa reads the newest credential, confirmed or not; the code is right ...
FindCredential(r) ==
  /\ AtStep(r, "find")
  /\ \/ credentials = {} /\ Go(r, "done")
     \/ \E c \in credentials :
          /\ \A d \in credentials \ {c} : d.by \in c.after
          /\ request' = [request EXCEPT ![r] = [@ EXCEPT !.at = "confirm", !.of = c.by]]
  /\ UNCHANGED <<accountVars, cut, tangled, authCrashes>>

\* ... confirms it, unless it is gone, and turns the second factor on.
ConfirmCredential(r) ==
  /\ LET here == {c \in credentials : c.by = request[r].of}
     IN /\ Factor(r, "confirm", IF here = {} THEN "done" ELSE "enable")
        /\ credentials' = (credentials \ here) \cup {[c EXCEPT !.confirmed = TRUE] : c \in here}
  /\ UNCHANGED twoFactor

EnableFactor(r) == Factor(r, "enable", "done") /\ twoFactor' = TRUE /\ UNCHANGED credentials

\* disable2Fa, once proven: every credential, then the flag.
ForgetCredentials(r) == Factor(r, "forget", "disable") /\ credentials' = {} /\ UNCHANGED twoFactor
DisableFactor(r) == Factor(r, "disable", "done") /\ twoFactor' = FALSE /\ UNCHANGED credentials

-----------------------------------------------------------------------------

AuthCrash ==
  /\ authCrashes < AuthCrashes /\ authCrashes' = authCrashes + 1
  /\ request' = [r \in Requests |->
       IF request[r].at \in {"idle", "mfa"} THEN request[r] ELSE [request[r] EXCEPT !.at = "done"]]
  /\ cut' = (cut \/ \E r \in Requests : AtStep(r, "revoke"))
  /\ tangled' = (tangled \/ Busy({"disable"}))
  /\ UNCHANGED accountVars

AuthNext ==
  \/ \E r \in Requests :
       \/ Login(r) \/ LoginMfa(r) \/ IssueSession(r)
       \/ \E s \in sessions, step \in {"refresh", "logout", "update", "dropPending", "find", "forget"} :
            Enter(r, s, IF step = "update" THEN PasswordSteps[1] ELSE step)
       \/ RefreshToken(r) \/ Logout(r) \/ DropTokens(r) \/ CreateToken(r)
       \/ \E t \in Requests : ReadToken(r, t)
       \/ UpdatePassword(r) \/ RevokeSessions(r) \/ SpendToken(r)
       \/ DropPending(r) \/ CreateCredential(r) \/ FindCredential(r) \/ ConfirmCredential(r)
       \/ EnableFactor(r) \/ ForgetCredentials(r) \/ DisableFactor(r)
  \/ AuthCrash

AuthSpec == AuthInit /\ [][AuthNext]_authVars

-----------------------------------------------------------------------------
(* Properties *)

AuthSteps ==
  {"idle", "mfa", "issue", "refresh", "logout", "token", "update", "revoke", "spend", "dropPending",
   "create", "done"} \cup Confirming \cup Removing

RequestStates == [at : AuthSteps, of : Ids, proof : 0 .. Passwords, late : BOOLEAN]

AuthTypeOK ==
  /\ password \in 0 .. Passwords /\ twoFactor \in BOOLEAN
  /\ credentials \subseteq [by : Requests, after : SUBSET Requests, confirmed : BOOLEAN]
  /\ sessions \subseteq [id : Ids, proof : 0 .. Passwords, late : BOOLEAN]
  /\ resetTokens \subseteq Requests
  /\ request \in [Requests -> RequestStates]
  /\ cut \in BOOLEAN /\ tangled \in BOOLEAN
  /\ authCrashes \in 0 .. AuthCrashes

\* A change of the password ends every session opened with the one before, by whatever chain of
\* refreshes it has come down: such a session is left only while the change is between its two
\* statements, after it died there, or when whoever opened it had been let in before the
\* sessions were ended (changePassword, resetPassword, issueSession).
SessionsAreExplained ==
  \A s \in sessions : s.proof = password \/ s.late \/ cut \/ \E r \in Requests : AtStep(r, "revoke")

\* An account that asks for a code has a credential to check it with: setting up a second
\* factor again, confirming it late or twice, or giving up half way never locks its owner out;
\* only a confirmation and a removal at the same time do, or a removal that dies half way.
SecondFactorUsable == twoFactor => HasConfirmed \/ tangled \/ Busy({"disable"})

\* Whoever is in has proved it with today's password, and whoever should get in still can.
AccountHolds == SessionsAreExplained /\ SecondFactorUsable
=============================================================================
