---------------------------- MODULE VoiceNumbers ----------------------------
(***************************************************************************)
(* The telephone number of an organization: bought at the carrier or       *)
(* registered, answered, removed (voice-numbers.service.ts), under the     *)
(* organization's settings and the provider it uses.  The carrier knows    *)
(* nothing of the rows: a purchase and its row, a release and its row are  *)
(* separate steps, and what was bought costs money until it is released.   *)
(***************************************************************************)
EXTENDS Naturals

CONSTANTS
  VoiceOrgs,       \* organizations, all after one and the same telephone number
  NumberRequests,  \* requests; one that buys names what it bought at the carrier
  Nothing,         \* no number at the carrier
  NumberFaults     \* bound: failures of the carrier and the database, deaths of the process

ASSUME NumbersAssumption == VoiceOrgs # {} /\ Nothing \notin NumberRequests /\ NumberFaults \in Nat

VARIABLES
  held,         \* numbers held at the carrier, by the request that bought them
  numberRow,    \* voice_numbers: [state, sid, status] of each organization, one a number
  numberReq,    \* each request: [at, org, sid]
  voiceSwitch,  \* voice_settings: [provisioning, kill]
  carrier,      \* provider of the organization: voice_provider_configs, else the default
  voiceActive,  \* organizations whose voice agent is ACTIVE
  numberFaults,
  astray        \* history: purchases whose row, and releases whose answer, were lost

numberVars == <<held, numberRow, numberReq, voiceSwitch, carrier, voiceActive, numberFaults, astray>>

Steps == {"idle", "buy", "create", "release", "remove", "ready", "activate", "done"}

NumbersTypeOK ==
  /\ held \subseteq NumberRequests /\ astray \subseteq NumberRequests \cup {Nothing}
  /\ numberRow \in [VoiceOrgs -> [state : {"none", "live", "removed"}, sid : NumberRequests \cup {Nothing},
                                  status : {"NOT_CONFIGURED", "PENDING_SETUP", "READY"}]]
  /\ numberReq \in [NumberRequests -> [at : Steps, org : VoiceOrgs, sid : NumberRequests \cup {Nothing}]]
  /\ voiceSwitch \in [VoiceOrgs -> [provisioning : BOOLEAN, kill : BOOLEAN]]
  /\ carrier \in [VoiceOrgs -> {"TWILIO", "SIMULATION"}]
  /\ voiceActive \subseteq VoiceOrgs /\ numberFaults \in 0..NumberFaults

NumbersInit ==
  /\ held = {} /\ astray = {} /\ voiceActive = {} /\ numberFaults = 0
  /\ numberRow = [o \in VoiceOrgs |-> [state |-> "none", sid |-> Nothing, status |-> "NOT_CONFIGURED"]]
  /\ numberReq = [r \in NumberRequests |-> [at |-> "idle", org |-> CHOOSE o \in VoiceOrgs : TRUE, sid |-> Nothing]]
  /\ voiceSwitch = [o \in VoiceOrgs |-> [provisioning |-> TRUE, kill |-> FALSE]]
  /\ carrier = [o \in VoiceOrgs |-> "TWILIO"]

settingVars == <<voiceSwitch, carrier>>

NumberFault == numberFaults < NumberFaults /\ numberFaults' = numberFaults + 1

Begin(r, o, step, sid) ==
  /\ numberReq[r].at = "idle"
  /\ numberReq' = [numberReq EXCEPT ![r] = [at |-> step, org |-> o, sid |-> sid]]
  /\ UNCHANGED <<held, numberRow, settingVars, voiceActive, numberFaults, astray>>

Continue(r, from, to) == numberReq[r].at = from /\ numberReq' = [numberReq EXCEPT ![r].at = to]

Live(o) == numberRow[o].state = "live"

-----------------------------------------------------------------------------
(* Buying and registering *)

\* registerExisting, up to the row: only the real carrier takes numbers one has.
Register(r, o) == carrier[o] = "TWILIO" /\ ~Live(o) /\ Begin(r, o, "create", Nothing)

\* provision, up to the purchase.
Provision(r, o) == voiceSwitch[o].provisioning /\ carrier[o] = "TWILIO" /\ Begin(r, o, "buy", r)

\* provisionNumber: the carrier sells what nobody holds; its answer may be lost.
Buy(r) ==
  /\ IF held = {}
     THEN /\ held' = {r}
          /\ \/ Continue(r, "buy", "create") /\ UNCHANGED <<numberFaults, astray>>
             \/ NumberFault /\ Continue(r, "buy", "done") /\ astray' = astray \cup {r}
     ELSE Continue(r, "buy", "done") /\ UNCHANGED <<held, numberFaults, astray>>
  /\ UNCHANGED <<numberRow, settingVars, voiceActive>>

\* The row.  There is one an organization and number, and a removed one remains: with it, or
\* if the database fails, the request fails, whatever was bought.
CreateRow(r) ==
  /\ Continue(r, "create", "done")
  /\ LET q == numberReq[r]
     IN \/ /\ numberRow[q.org].state = "none"
           /\ numberRow' = [numberRow EXCEPT ![q.org] =
                [state |-> "live", sid |-> q.sid, status |-> "PENDING_SETUP"]]
           /\ UNCHANGED <<numberFaults, astray>>
        \/ /\ \/ numberRow[q.org].state # "none" /\ UNCHANGED numberFaults
              \/ numberRow[q.org].state = "none" /\ NumberFault
           /\ astray' = astray \cup {q.sid} /\ UNCHANGED numberRow
  /\ UNCHANGED <<held, settingVars, voiceActive>>

-----------------------------------------------------------------------------
(* Removal *)

\* remove, up to the carrier.
RemoveNumber(r, o) == Live(o) /\ Begin(r, o, "release", numberRow[o].sid)

\* Only numbers that have been called are released (a slip CallsHold must notice).
ReleaseReady(r) ==
  /\ Continue(r, "release", "remove")
  /\ held' = IF numberRow[numberReq[r].org].status = "READY" THEN held \ {numberReq[r].sid} ELSE held
  /\ UNCHANGED <<numberRow, settingVars, voiceActive, numberFaults, astray>>

\* releaseNumber, whose failure is swallowed; the carrier may have released it all the same.
Release(r) ==
  /\ Continue(r, "release", "remove")
  /\ \/ held' = held \ {numberReq[r].sid} /\ UNCHANGED <<numberFaults, astray>>
     \/ /\ NumberFault /\ astray' = astray \cup {numberReq[r].sid}
        /\ held' \in {held, held \ {numberReq[r].sid}}
  /\ UNCHANGED <<numberRow, settingVars, voiceActive>>

MarkRemoved(r) ==
  /\ Continue(r, "remove", "done")
  /\ numberRow' = [numberRow EXCEPT ![numberReq[r].org] =
       [@ EXCEPT !.state = "removed", !.status = "NOT_CONFIGURED"]]
  /\ UNCHANGED <<held, settingVars, voiceActive, numberFaults, astray>>

-----------------------------------------------------------------------------
(* Calls, the agent and the settings *)

\* twilioIncoming: the call goes to an organization with the number.
Incoming(r, o) == Live(o) /\ ~voiceSwitch[o].kill /\ Begin(r, o, "ready", Nothing)

\* The first call proves the number; the row is written by its id, removed or not.
MarkReady(r) ==
  /\ Continue(r, "ready", "done")
  /\ numberRow' = [numberRow EXCEPT ![numberReq[r].org].status = "READY"]
  /\ UNCHANGED <<held, settingVars, voiceActive, numberFaults, astray>>

\* setStatus: an agent is activated only with a number.
ActivateAgent(r, o) ==
  /\ Live(o) /\ numberRow[o].status \in {"READY", "PENDING_SETUP"} /\ Begin(r, o, "activate", Nothing)

Activated(r) ==
  /\ Continue(r, "activate", "done") /\ voiceActive' = voiceActive \cup {numberReq[r].org}
  /\ UNCHANGED <<held, numberRow, settingVars, numberFaults, astray>>

DeactivateAgent(o) ==
  /\ o \in voiceActive /\ voiceActive' = voiceActive \ {o}
  /\ UNCHANGED <<held, numberRow, numberReq, settingVars, numberFaults, astray>>

\* VoiceSettingsService.update, the switches that matter here.
UpdateSettings(o, switches) ==
  /\ switches # voiceSwitch[o] /\ voiceSwitch' = [voiceSwitch EXCEPT ![o] = switches]
  /\ UNCHANGED <<held, numberRow, numberReq, carrier, voiceActive, numberFaults, astray>>

\* checkProvider: one that answers is the organization's; without, the default.
CheckProvider(o) ==
  /\ carrier' = [carrier EXCEPT ![o] = IF @ = "TWILIO" THEN "SIMULATION" ELSE "TWILIO"]
  /\ UNCHANGED <<held, numberRow, numberReq, voiceSwitch, voiceActive, numberFaults, astray>>

-----------------------------------------------------------------------------

\* A request ends by an exception or with the process.
NumberRequestDies(r) ==
  /\ NumberFault /\ numberReq[r].at \notin {"idle", "done"}
  /\ numberReq' = [numberReq EXCEPT ![r].at = "done"]
  /\ astray' = IF numberReq[r].at \in {"create", "release", "remove"} THEN astray \cup {numberReq[r].sid} ELSE astray
  /\ UNCHANGED <<held, numberRow, settingVars, voiceActive>>

NumbersNext ==
  \/ \E r \in NumberRequests :
       \/ \E o \in VoiceOrgs :
            Register(r, o) \/ Provision(r, o) \/ RemoveNumber(r, o) \/ Incoming(r, o) \/ ActivateAgent(r, o)
       \/ Buy(r) \/ CreateRow(r) \/ Release(r) \/ MarkRemoved(r) \/ MarkReady(r) \/ Activated(r)
       \/ NumberRequestDies(r)
  \/ \E o \in VoiceOrgs :
       \/ DeactivateAgent(o) \/ CheckProvider(o)
       \/ \E switches \in [provisioning : BOOLEAN, kill : BOOLEAN] : UpdateSettings(o, switches)

NumbersSpec == NumbersInit /\ [][NumbersNext]_numberVars

-----------------------------------------------------------------------------

Underway(sid, step) == \E r \in NumberRequests : numberReq[r].at = step /\ numberReq[r].sid = sid

\* What the owner pays for is what the platform shows: a number held at the carrier has a live
\* row, and a live row of a bought number is held, but for the moments in between and for the
\* purchases and releases that failed halfway, whose failure nobody keeps
\* (voice-numbers.service.ts:114-125, 143-150).
NumbersAreHeld ==
  /\ \A sid \in held \ astray :
       (\E o \in VoiceOrgs : Live(o) /\ numberRow[o].sid = sid) \/ Underway(sid, "create")
  /\ \A o \in VoiceOrgs :
       Live(o) /\ numberRow[o].sid \notin astray \cup {Nothing} =>
         numberRow[o].sid \in held \/ Underway(numberRow[o].sid, "remove")
=============================================================================
