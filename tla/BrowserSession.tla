--------------------------- MODULE BrowserSession ---------------------------
(***************************************************************************)
(* Who a browser is signed in as, and the organization its requests act on *)
(* (hooks/useAuth.ts, lib/api.ts, middleware.ts of apps/web, the guards of *)
(* the API).  Its tabs share what is stored: the token, the organization   *)
(* requests name, and the cookie that lets middleware render the           *)
(* application.  A request carries what was stored when it was sent; its   *)
(* answer changes what is stored when it arrives.                          *)
(***************************************************************************)
EXTENDS Integers, Sequences, FiniteSets

CONSTANTS
  Tabs,
  Users,
  OrgsOf,   \* of each user, the organizations of its active memberships
  OwnOrg,   \* the first of them
  NoOrg,
  SignIns   \* bound: sessions issued to this browser

ASSUME BrowserAssumption ==
  /\ IsFiniteSet(Tabs) /\ IsFiniteSet(Users) /\ SignIns \in Nat
  /\ \A u \in Users : NoOrg \notin OrgsOf[u] /\ OwnOrg[u] \in OrgsOf[u]

VARIABLES
  token,    \* localStorage.token: the session it names, 0 for none
  storedOrg,\* localStorage["qano-org"]
  cookie,   \* the cookie qano-signed-in
  issuedTo, \* the user of each session that was issued
  live,     \* the sessions the server still accepts
  tab,      \* each tab: see Blank
  putOut,   \* history: live sessions the browser forgot on an answer to a request of theirs
  misplaced,\* history: a request acted on another organization than its page named
  blurred   \* history: the stored organization, or cookie, is of an answer to an older token

stored == <<token, storedOrg, cookie>>
browserVars == <<stored, issuedTo, live, tab, putOut, misplaced, blurred>>

Sessions == 1..SignIns
Pages == {"login", "app"}
NoRequest == -1  \* no request under way

\* page: the forms (/login, /register) or the application; mounting: the page is rendered
\* and the effect of useAuth has not run.
\* check: the token GET /auth/me was sent with; own: the organization it answered, which the
\* page shows.  ask: the other request under way, the token it was sent with, the organization
\* its page named, if it did, and those the request names.
Blank(p) == [page |-> p, mounting |-> TRUE, check |-> NoRequest, own |-> NoOrg,
             ask |-> "none", sent |-> NoRequest, says |-> NoOrg, named |-> {}]
NoAsk(t) == [tab[t] EXCEPT !.ask = "none", !.sent = NoRequest, !.says = NoOrg, !.named = {}]

BrowserInit ==
  /\ token = 0 /\ storedOrg = NoOrg /\ cookie = FALSE
  /\ issuedTo = <<>> /\ live = {}
  /\ tab = [t \in Tabs |-> Blank("login")]
  /\ putOut = {} /\ misplaced = FALSE /\ blurred = FALSE

-----------------------------------------------------------------------------
(* Pages *)

\* middleware: where a visit of page p ends up.
Middleware(p, signedIn) ==
  IF p = "app" /\ ~signedIn THEN "login"
  ELSE IF signedIn THEN "app" ELSE p

\* A page is opened, or opened again; what the tab was waiting for is forgotten.
Visit(t) ==
  /\ \E p \in {Middleware(q, cookie) : q \in Pages} : tab' = [tab EXCEPT ![t] = Blank(p)]
  /\ UNCHANGED <<stored, issuedTo, live, putOut, misplaced, blurred>>

\* The effect of useAuth: ask who the token belongs to, or take the cookie back.
Mount(t) ==
  /\ tab[t].mounting
  /\ tab' = [tab EXCEPT ![t] = [@ EXCEPT !.mounting = FALSE, !.check = IF token = 0 THEN NoRequest ELSE token]]
  /\ cookie' = (cookie /\ token # 0)
  /\ blurred' = (blurred /\ token # 0)
  /\ UNCHANGED <<token, storedOrg, issuedTo, live, putOut, misplaced>>

\* The forms send credentials.
Submit(t) ==
  /\ ~tab[t].mounting /\ tab[t].ask = "none" /\ tab[t].page = "login"
  /\ tab' = [tab EXCEPT ![t] = [@ EXCEPT !.ask = "credentials"]]
  /\ UNCHANGED <<stored, issuedTo, live, putOut, misplaced, blurred>>

\* The header is left out where the address of the request names the organization.
Headers(inAddress) == IF inAddress THEN {} ELSE {storedOrg} \ {NoOrg}

\* A page of the application sends a request.  It names its organization in the address, in
\* the body, or not at all.
Call(t) ==
  /\ ~tab[t].mounting /\ tab[t].ask = "none" /\ tab[t].page = "app"
  /\ \E says \in {NoOrg, tab[t].own} : \E inAddress \in {FALSE, says # NoOrg} :
       tab' = [tab EXCEPT ![t] = [@ EXCEPT !.ask = "call", !.sent = token, !.says = says,
                                             !.named = ({says} \ {NoOrg}) \cup Headers(inAddress)]]
  /\ UNCHANGED <<stored, issuedTo, live, putOut, misplaced, blurred>>

\* The button of the layout.
SignOut(t) ==
  /\ ~tab[t].mounting /\ tab[t].ask = "none" /\ tab[t].page = "app"
  /\ tab' = [tab EXCEPT ![t] = [@ EXCEPT !.ask = "logout", !.sent = token]]
  /\ UNCHANGED <<stored, issuedTo, live, putOut, misplaced, blurred>>

-----------------------------------------------------------------------------
(* Answers *)

\* What is stored is cleared, on an answer to the stored token or (late) for another reason:
\* a failure, or an answer to an older one.
Forget(late) ==
  /\ token' = 0 /\ cookie' = FALSE
  /\ putOut' = IF late THEN putOut ELSE putOut \cup ({token} \cap live)

\* AuthGuard accepts the token a request was sent with.
Accepted(s) == s \in live

\* GET /auth/me answers; memberships decide the organization.
KnownUser(t) ==
  LET s == tab[t].check IN
  /\ s # NoRequest /\ Accepted(s)
  /\ storedOrg' = OwnOrg[issuedTo[s]] /\ cookie' = TRUE
  /\ blurred' = (token # s)
  /\ tab' = [tab EXCEPT ![t] = [@ EXCEPT !.check = NoRequest, !.own = OwnOrg[issuedTo[s]]]]
  /\ UNCHANGED <<token, issuedTo, live, putOut, misplaced>>

\* It is refused, or fails.  A refusal also goes through the interceptor, to the login page.
UnknownUser(t) ==
  LET s == tab[t].check IN
  /\ s # NoRequest
  /\ \/ ~Accepted(s) /\ Forget(token # s) /\ tab' = [tab EXCEPT ![t] = Blank("login")]
     \/ Forget(TRUE) /\ tab' = [tab EXCEPT ![t] = [@ EXCEPT !.check = NoRequest]]
  /\ storedOrg' = NoOrg /\ blurred' = FALSE
  /\ UNCHANGED <<issuedTo, live, misplaced>>

\* login, completeMfa or register of user u is answered with a new session; the form goes
\* on to the application.
SignedIn(t, u) ==
  LET s == Len(issuedTo) + 1 IN
  /\ tab[t].ask = "credentials" /\ s \in Sessions
  /\ issuedTo' = Append(issuedTo, u)
  /\ live' = live \cup {s}
  /\ token' = s /\ cookie' = TRUE /\ storedOrg' = OwnOrg[u] /\ blurred' = FALSE
  /\ tab' = [tab EXCEPT ![t] = Blank("app")]
  /\ UNCHANGED <<putOut, misplaced>>

\* The credentials are wrong, or a code is asked for: the form shows it, nothing is stored.
NotSignedIn(t) ==
  /\ tab[t].ask = "credentials"
  /\ tab' = [tab EXCEPT ![t] = NoAsk(t)]
  /\ UNCHANGED <<stored, issuedTo, live, putOut, misplaced, blurred>>

\* resolveMembership: the organization a request of user u acts on; none where it names
\* two, or one of others, or none and the user has several.
Resolved(u, named) ==
  {o \in OrgsOf[u] : IF named = {} THEN OrgsOf[u] = {o} ELSE named = {o}}

\* Any other request acts.
Acted(t) ==
  /\ tab[t].ask = "call" /\ Accepted(tab[t].sent)
  /\ \E o \in Resolved(issuedTo[tab[t].sent], tab[t].named) :
       misplaced' = (misplaced \/ tab[t].says \notin {o, NoOrg})
  /\ tab' = [tab EXCEPT ![t] = NoAsk(t)]
  /\ UNCHANGED <<stored, issuedTo, live, putOut, blurred>>

\* The guards refuse it, or it fails.
NotDone(t) ==
  /\ tab[t].ask = "call"
  /\ tab' = [tab EXCEPT ![t] = NoAsk(t)]
  /\ UNCHANGED <<stored, issuedTo, live, putOut, misplaced, blurred>>

Unauthorized(t) ==
  /\ tab[t].ask = "call" /\ ~Accepted(tab[t].sent)
  /\ Forget(token # tab[t].sent)
  /\ tab' = [tab EXCEPT ![t] = Blank("login")]
  /\ blurred' = FALSE
  /\ UNCHANGED <<storedOrg, issuedTo, live, misplaced>>

\* logout: the session ends at the server unless the request fails; here it ends in any case.
SignedOut(t) ==
  /\ tab[t].ask = "logout"
  /\ \/ live' = live \ {tab[t].sent}
     \/ live' = live
  /\ token' = 0 /\ cookie' = FALSE /\ storedOrg' = NoOrg /\ blurred' = FALSE
  /\ tab' = [tab EXCEPT ![t] = Blank("login")]
  /\ UNCHANGED <<issuedTo, putOut, misplaced>>

\* A session ends elsewhere: expiry, a new password, another device.
SessionEnds(s) ==
  /\ live' = live \ {s}
  /\ UNCHANGED <<stored, issuedTo, tab, putOut, misplaced, blurred>>

\* The cookie expires, seven days after it was set; the session did before.
CookieExpires ==
  /\ cookie /\ ~Accepted(token) /\ cookie' = FALSE
  /\ UNCHANGED <<token, storedOrg, issuedTo, live, tab, putOut, misplaced, blurred>>

BrowserNext ==
  \/ \E t \in Tabs :
       \/ Visit(t) \/ Mount(t)
       \/ Submit(t) \/ Call(t) \/ SignOut(t)
       \/ KnownUser(t) \/ UnknownUser(t) \/ NotSignedIn(t) \/ Acted(t) \/ NotDone(t) \/ Unauthorized(t)
       \/ \E u \in Users : SignedIn(t, u)
       \/ SignedOut(t)
  \/ \E s \in live : SessionEnds(s)
  \/ CookieExpires

BrowserSpec == BrowserInit /\ [][BrowserNext]_browserVars

-----------------------------------------------------------------------------
(* Properties *)

OwnOrgs == {OwnOrg[u] : u \in Users}

Issued == 1..Len(issuedTo)

TabStates ==
  [page : Pages, mounting : BOOLEAN, check : Issued \cup {NoRequest}, own : OwnOrgs \cup {NoOrg},
   ask : {"none", "credentials", "call", "logout"}, sent : Issued \cup {0, NoRequest},
   says : OwnOrgs \cup {NoOrg}, named : SUBSET OwnOrgs]

BrowserTypeOK ==
  /\ issuedTo \in Seq(Users) /\ Len(issuedTo) \in 0..SignIns
  /\ token \in Issued \cup {0} /\ live \subseteq Issued /\ putOut \subseteq Issued
  /\ storedOrg \in OwnOrgs \cup {NoOrg}
  /\ cookie \in BOOLEAN /\ misplaced \in BOOLEAN /\ blurred \in BOOLEAN
  /\ tab \in [Tabs -> TabStates]

\* What the browser stores belongs together: the cookie is there while the session lives, it
\* is there without a token, and the organization is of another user than the token, only
\* where an answer came for a token that was replaced or removed since (useAuth, api.ts).
StoredTogether ==
  /\ Accepted(token) => cookie
  /\ ~blurred => /\ cookie => token # 0
                 /\ token # 0 => storedOrg = OwnOrg[issuedTo[token]]

\* Nobody is signed out of a live session but by signing out, by a failed request, or by
\* the answer to a request that was sent with another token (interceptors.response).
NobodyPutOut == putOut = {}

\* A request whose page names an organization acts on that one, whoever has signed in in
\* another tab since, or on none (resolve-membership.ts, api.interceptors.request).
ActsWhereNamed == ~misplaced

BrowserHolds == StoredTogether /\ NobodyPutOut /\ ActsWhereNamed
=============================================================================
