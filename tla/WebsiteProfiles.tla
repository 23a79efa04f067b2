-------------------------- MODULE WebsiteProfiles --------------------------
(***************************************************************************)
(* The profile of a lead's website (marketing/website), made while a       *)
(* campaign is prepared: look for a recent one of the same host, or fetch  *)
(* the site's pages and summarize them.  Two leads may have one site.      *)
(* A host's name is resolved anew by each validation, and may resolve to   *)
(* something else each time.                                               *)
(***************************************************************************)
EXTENDS Naturals, FiniteSets

CONSTANTS
  SiteLeads,     \* leads with a website, all of one host
  Analyses,      \* calls of analyzeForLead; each names the profile it may create
  MaxRedirects,  \* MAX_REDIRECTS: 3 in the code
  Subpages,      \* MAX_PAGES - 1: 2 in the code
  NoProfile,
  SiteFaults     \* bound: refusals, failures of statements, pages and summaries, expiries, deaths

ASSUME SitesAssumption ==
  SiteLeads # {} /\ NoProfile \notin Analyses /\ MaxRedirects \in Nat /\ Subpages \in Nat /\ SiteFaults \in Nat

VARIABLES
  profile,     \* website_profiles: each [status, pages, fresh]; pages have gone into the summary
  siteOf,      \* leads.websiteProfileId
  analysis,    \* each: [at, lead, left, hop, pinned, pages]; left are the subpages to fetch
  resolves,    \* what the host's name resolves to now, "public" or "private"
  requested,   \* history: of each analysis, how many requests it has sent
  reached,     \* history: the kinds of address that requests went to
  sideBySide,  \* history: analyses that ran while another did
  lostWrite,   \* history: analyses that died, or could not record their failure
  siteFaults

siteVars == <<profile, siteOf, analysis, resolves, requested, reached, sideBySide, lostWrite, siteFaults>>

ProfileStatus == {"NONE", "PENDING", "OK", "FAILED", "BLOCKED"}
AnalysisSteps == {"idle", "create", "link", "validate", "request", "summarize", "write", "fail", "block", "done"}
Addresses == {"public", "private"}
Unstarted(l) == [at |-> "idle", lead |-> l, left |-> 0, hop |-> 0, pinned |-> "public", pages |-> 0]

SitesTypeOK ==
  /\ profile \in [Analyses -> [status : ProfileStatus, pages : 0..(Subpages + 1), fresh : BOOLEAN]]
  /\ siteOf \in [SiteLeads -> Analyses \cup {NoProfile}]
  /\ analysis \in [Analyses -> [at : AnalysisSteps, lead : SiteLeads, left : 0..Subpages, hop : 0..MaxRedirects,
                                pinned : Addresses, pages : 0..(Subpages + 1)]]
  /\ resolves \in Addresses /\ reached \subseteq Addresses /\ requested \in [Analyses -> Nat]
  /\ sideBySide \subseteq Analyses /\ lostWrite \subseteq Analyses /\ siteFaults \in 0..SiteFaults

SitesInit ==
  /\ profile = [r \in Analyses |-> [status |-> "NONE", pages |-> 0, fresh |-> FALSE]]
  /\ siteOf = [l \in SiteLeads |-> NoProfile]
  /\ analysis = [r \in Analyses |-> Unstarted(CHOOSE l \in SiteLeads : TRUE)]
  /\ resolves = "public" /\ requested = [r \in Analyses |-> 0] /\ reached = {}
  /\ sideBySide = {} /\ lostWrite = {} /\ siteFaults = 0

traffic == <<resolves, requested, reached>>
SiteFault == siteFaults < SiteFaults /\ siteFaults' = siteFaults + 1
Finish(r) == analysis' = [analysis EXCEPT ![r] = [Unstarted(@.lead) EXCEPT !.at = "done"]]
Goto(r, at) == analysis' = [analysis EXCEPT ![r].at = at]

-----------------------------------------------------------------------------
(* analyzeForLead *)

Usable == {r \in Analyses : profile[r].status = "OK" /\ profile[r].fresh}
Analysing == {r \in Analyses : analysis[r].at \notin {"idle", "done"}}

\* The newest usable profile is as good as any.
FindRecent(r, l) ==
  /\ analysis[r].at = "idle"
  /\ \/ /\ Usable = {} /\ UNCHANGED siteOf
        /\ analysis' = [analysis EXCEPT ![r].at = "create", ![r].lead = l]
     \/ \E found \in Usable :
          /\ siteOf' = [siteOf EXCEPT ![l] = found]
          /\ analysis' = [analysis EXCEPT ![r].at = "done", ![r].lead = l]
  /\ sideBySide' = IF Analysing = {} THEN sideBySide ELSE sideBySide \cup Analysing \cup {r}
  /\ UNCHANGED <<profile, traffic, lostWrite, siteFaults>>

CreateProfile(r) ==
  /\ analysis[r].at = "create" /\ Goto(r, "link")
  /\ profile' = [profile EXCEPT ![r].status = "PENDING"]
  /\ UNCHANGED <<siteOf, traffic, sideBySide, lostWrite, siteFaults>>

LinkProfile(r) ==
  /\ analysis[r].at = "link" /\ Goto(r, "validate")
  /\ siteOf' = [siteOf EXCEPT ![analysis[r].lead] = r]
  /\ UNCHANGED <<profile, traffic, sideBySide, lostWrite, siteFaults>>

-----------------------------------------------------------------------------
(* fetchPage, of the first page and then of each subpage *)

NextPage(r, left, pages) ==
  analysis' = [analysis EXCEPT ![r].at = IF left > 0 THEN "validate" ELSE "summarize", ![r].left = left,
                               ![r].hop = 0, ![r].pages = pages]

\* A page that cannot be had fails the analysis if it is the first one, and is passed over
\* if not; what is refused as unsafe, a timeout too, makes the profile BLOCKED.
GiveUpPage(r, at) ==
  IF analysis[r].pages = 0 THEN Goto(r, at) ELSE NextPage(r, analysis[r].left - 1, analysis[r].pages)

\* The address that is looked up and approved is kept for the request.
ValidateUrl(r) ==
  /\ analysis[r].at = "validate"
  /\ IF resolves = "public"
     THEN analysis' = [analysis EXCEPT ![r].at = "request", ![r].pinned = resolves]
     ELSE GiveUpPage(r, "block")
  /\ UNCHANGED <<profile, siteOf, traffic, sideBySide, lostWrite, siteFaults>>

SendRequest(r, address) ==
  /\ requested' = [requested EXCEPT ![r] = @ + 1]
  /\ reached' = reached \cup {address}
  /\ UNCHANGED <<profile, siteOf, resolves, sideBySide, lostWrite>>

\* The name resolved again by the request (a slip OutreachHolds must notice).
RequestAgain(r) == SendRequest(r, resolves)

RequestPinned(r) == SendRequest(r, analysis[r].pinned)

\* An answer with a page: the status is not looked at, and what exceeds the limit is cut off.
GetPage(r, links) ==
  /\ analysis[r].at = "request" /\ RequestPinned(r)
  /\ NextPage(r, IF analysis[r].pages = 0 THEN links ELSE analysis[r].left - 1, analysis[r].pages + 1)
  /\ UNCHANGED siteFaults

\* Each hop of a redirection is validated like the first address.
FollowRedirect(r) ==
  /\ analysis[r].at = "request" /\ RequestPinned(r)
  /\ IF analysis[r].hop < MaxRedirects
     THEN analysis' = [analysis EXCEPT ![r].at = "validate", ![r].hop = @ + 1]
     ELSE GiveUpPage(r, "block")
  /\ UNCHANGED siteFaults

\* A timeout, an unwanted type, a refused connection.
PageFails(r, at) ==
  /\ analysis[r].at = "request" /\ RequestPinned(r) /\ SiteFault
  /\ GiveUpPage(r, at)

-----------------------------------------------------------------------------
(* The summary, and what is written *)

SummarizeSite(r) ==
  /\ analysis[r].at = "summarize" /\ Goto(r, "write")
  /\ UNCHANGED <<profile, siteOf, traffic, sideBySide, lostWrite, siteFaults>>

SummaryFails(r) ==
  /\ analysis[r].at \in {"summarize", "write"} /\ SiteFault /\ Goto(r, "fail")
  /\ UNCHANGED <<profile, siteOf, traffic, sideBySide, lostWrite>>

WriteSummary(r) ==
  /\ analysis[r].at = "write" /\ Finish(r)
  /\ profile' = [profile EXCEPT ![r] = [status |-> "OK", pages |-> analysis[r].pages, fresh |-> TRUE]]
  /\ UNCHANGED <<siteOf, traffic, sideBySide, lostWrite, siteFaults>>

WriteFailure(r) ==
  /\ analysis[r].at \in {"fail", "block"} /\ Finish(r)
  /\ profile' = [profile EXCEPT ![r].status = IF analysis[r].at = "fail" THEN "FAILED" ELSE "BLOCKED"]
  /\ UNCHANGED <<siteOf, traffic, sideBySide, lostWrite, siteFaults>>

\* The process dies, or a statement outside the try block fails.
AnalysisDies(r) ==
  /\ r \in Analysing /\ SiteFault /\ Finish(r)
  /\ lostWrite' = lostWrite \cup {r}
  /\ UNCHANGED <<profile, siteOf, traffic, sideBySide>>

\* Thirty days pass.
Expire(r) ==
  /\ r \in Usable /\ SiteFault /\ profile' = [profile EXCEPT ![r].fresh = FALSE]
  /\ UNCHANGED <<siteOf, analysis, traffic, sideBySide, lostWrite>>

NameMoves ==
  /\ Analysing # {} /\ SiteFault
  /\ resolves' = IF resolves = "public" THEN "private" ELSE "public"
  /\ UNCHANGED <<profile, siteOf, analysis, requested, reached, sideBySide, lostWrite>>

SitesNext ==
  \/ NameMoves
  \/ \E r \in Analyses :
       \/ (\E l \in SiteLeads : FindRecent(r, l)) \/ CreateProfile(r) \/ LinkProfile(r)
       \/ ValidateUrl(r) \/ FollowRedirect(r)
       \/ \E links \in 0..Subpages : GetPage(r, links)
       \/ \E at \in {"fail", "block"} : PageFails(r, at)
       \/ SummarizeSite(r) \/ SummaryFails(r) \/ WriteSummary(r) \/ WriteFailure(r)
       \/ AnalysisDies(r) \/ Expire(r)

SitesSpec == SitesInit /\ [][SitesNext]_siteVars

-----------------------------------------------------------------------------
(* Requests go only to addresses that were approved for that very request,   *)
(* and an analysis ends after a bounded number of them.                      *)
RequestsAreApproved ==
  /\ reached \subseteq {"public"}
  /\ \A r \in Analyses : requested[r] <= (Subpages + 1) * (MaxRedirects + 1)

(* A profile that is not decided is being made, or its analysis was lost; a  *)
(* usable one rests on at least the first page.                              *)
ProfilesAreDecided ==
  \A r \in Analyses :
    /\ profile[r].status = "PENDING" => r \in Analysing \cup lostWrite
    /\ profile[r].status = "OK" => profile[r].pages > 0

(* The site is not analysed again while there is a usable profile, and the   *)
(* leads share it, unless two analyses ran side by side.                     *)
OneProfile ==
  \A r, s \in Usable : r # s => r \in sideBySide /\ s \in sideBySide

(* A lead's profile is one that was made.                                     *)
LeadsAreLinked == \A l \in SiteLeads : siteOf[l] # NoProfile => profile[siteOf[l]].status # "NONE"

ProfilesHold == RequestsAreApproved /\ ProfilesAreDecided /\ OneProfile /\ LeadsAreLinked
=============================================================================
