--------------------------- MODULE AgentVersions ---------------------------
(***************************************************************************)
(* Versions of an agent's configuration.  A WhatsApp agent is edited as a  *)
(* draft, published and rolled back (ai-agents.service.ts); a voice agent  *)
(* takes every change as a new version (voice-agents.service.ts).  Both    *)
(* read a version number, add one and write in several statements; a       *)
(* unique index on (agent, version) is all that keeps requests apart.      *)
(***************************************************************************)
EXTENDS Naturals, FiniteSets

CONSTANTS
  Configs,       \* configurations
  Changes,       \* requests
  VersionFaults  \* bound: requests that die

ASSUME VersionsAssumption ==
  /\ IsFiniteSet(Configs) /\ Configs # {} /\ IsFiniteSet(Changes) /\ VersionFaults \in Nat

VARIABLES
  draft,      \* ai_agents: [config, active], the version number its activeVersionId is of, 0 for none
  published,  \* ai_agent_versions: [number, config]
  voice,      \* voice_agents: [config, version, status]
  snapshots,  \* voice_agent_versions: [number, config]
  copies,     \* clones of the agent: [config, status]
  evaluated,  \* evaluation_runs: [of, config], the version it is filed under, what was evaluated
  change,     \* each request: [kind, at, config, number]
  rolledBack, \* history: the WhatsApp agent has been rolled back since it was last published
  crossed,    \* history: requests about this agent overlapped
  cutShort,   \* history: a request died half way
  versionFaults

agentVars == <<draft, published, voice, snapshots, copies, evaluated>>
versionVars == <<agentVars, change, rolledBack, crossed, cutShort, versionFaults>>

Original == CHOOSE config \in Configs : TRUE
Waiting == [kind |-> "none", at |-> "idle", config |-> Original, number |-> 0]
Answered == [Waiting EXCEPT !.at = "done"]
Numbers == 0 .. Cardinality(Changes) + 1

VersionsInit ==
  /\ draft = [config |-> Original, active |-> 0] /\ published = {}
  /\ voice = [config |-> Original, version |-> 1, status |-> "DRAFT"]
  /\ snapshots = {[number |-> 1, config |-> Original]}
  /\ copies = {} /\ evaluated = {}
  /\ change = [r \in Changes |-> Waiting]
  /\ rolledBack = FALSE /\ crossed = [ai |-> FALSE, voice |-> FALSE] /\ cutShort = FALSE
  /\ versionFaults = 0

ChangeKinds == {"none", "publish", "rollback", "clone", "evaluate", "change", "restore"}
ChangeSteps == {"idle", "latest", "createVersion", "activate", "copyBack", "copy", "try", "write",
                "snapshot", "done"}
OnVoice == {"change", "restore"}
OnAi == {"publish", "rollback"}
UnderWay(kinds) == {r \in Changes : change[r].at \notin {"idle", "done"} /\ change[r].kind \in kinds}

\* A request comes in and, with its first statement, reads what it needs.
Read(r, kind, at, config, number) ==
  /\ change[r].at = "idle"
  /\ change' = [change EXCEPT ![r] = [kind |-> kind, at |-> at, config |-> config, number |-> number]]
  /\ crossed' = [ai |-> crossed.ai \/ (kind \in OnAi /\ UnderWay(OnAi) # {}),
                 voice |-> crossed.voice \/ (kind \in OnVoice /\ UnderWay(OnVoice) # {})]
  /\ UNCHANGED <<agentVars, rolledBack, cutShort, versionFaults>>

Then(r, from, to) ==
  /\ change[r].at = from
  /\ change' = [change EXCEPT ![r] = IF to = "done" THEN Answered ELSE [change[r] EXCEPT !.at = to]]
  /\ UNCHANGED <<crossed, cutShort, versionFaults>>

Newest(versions) == IF versions = {} THEN 0
                    ELSE CHOOSE n \in Numbers : /\ \E v \in versions : v.number = n
                                                /\ \A v \in versions : v.number <= n
Taken(versions, n) == \E v \in versions : v.number = n

-----------------------------------------------------------------------------
(* The WhatsApp agent *)

\* create has made it; update changes the draft, and nothing else.
EditDraft(r, config) ==
  /\ change[r].at = "idle" /\ change' = [change EXCEPT ![r] = Answered]
  /\ draft' = [draft EXCEPT !.config = config]
  /\ UNCHANGED <<published, voice, snapshots, copies, evaluated, rolledBack, crossed, cutShort, versionFaults>>

\* publish: the draft, the latest number, the new version, and the agent pointed at it.
ReadDraft(r) == Read(r, "publish", "latest", draft.config, 0)

ReadLatest(r) ==
  /\ change[r].at = "latest"
  /\ change' = [change EXCEPT ![r].at = "createVersion", ![r].number = Newest(published) + 1]
  /\ UNCHANGED <<agentVars, rolledBack, crossed, cutShort, versionFaults>>

CreateVersion(r) ==
  /\ Then(r, "createVersion", IF Taken(published, change[r].number) THEN "done" ELSE "activate")
  /\ published' = IF Taken(published, change[r].number) THEN published
                  ELSE published \cup {[number |-> change[r].number, config |-> change[r].config]}
  /\ UNCHANGED <<draft, voice, snapshots, copies, evaluated, rolledBack>>

ActivateVersion(r) ==
  /\ Then(r, "activate", "done")
  /\ draft' = [draft EXCEPT !.active = change[r].number]
  /\ rolledBack' = FALSE
  /\ UNCHANGED <<published, voice, snapshots, copies, evaluated>>

\* rollback: the version copied back to the draft and made the active one in one statement.
ReadPublished(r) == \E v \in published : Read(r, "rollback", "copyBack", v.config, v.number)

CopyBack(r) ==
  /\ Then(r, "copyBack", "done")
  /\ draft' = [config |-> change[r].config, active |-> change[r].number]
  /\ rolledBack' = TRUE
  /\ UNCHANGED <<published, voice, snapshots, copies, evaluated>>

\* cloneAgent: the copy starts as a draft of its own.
ReadOriginal(r) == Read(r, "clone", "copy", draft.config, 0)

CreateCopy(r) ==
  /\ Then(r, "copy", "done")
  /\ copies' = copies \cup {[config |-> change[r].config, status |-> "DRAFT"]}
  /\ UNCHANGED <<draft, published, voice, snapshots, evaluated, rolledBack>>

\* runEvaluation: the active version is read first; the turns it runs read the draft afresh.
ReadActive(r) == draft.active > 0 /\ Read(r, "evaluate", "try", draft.config, draft.active)

RunEvaluation(r) ==
  /\ Then(r, "try", "done")
  /\ evaluated' = evaluated \cup {[of |-> change[r].number, config |-> draft.config]}
  /\ UNCHANGED <<draft, published, voice, snapshots, copies, rolledBack>>

-----------------------------------------------------------------------------
(* The voice agent *)

\* A rollback that keeps the number (a slip ActiveIsSnapshot must notice).
SameVersion(kind) == IF kind = "restore" THEN voice.version ELSE voice.version + 1

\* The number a change of the voice agent takes.
NextVersion(kind) == voice.version + 1

\* update: sanitized values over the row as it was read.
ReadForUpdate(r, config) == Read(r, "change", "write", config, NextVersion("change"))

\* rollback: "restores a previous configuration as a NEW version".
ReadForRollback(r) == \E v \in snapshots : Read(r, "restore", "write", v.config, NextVersion("restore"))

\* The row first, by id alone: whatever has happened to it since it was read.
WriteVoice(r) ==
  /\ Then(r, "write", "snapshot")
  /\ voice' = [voice EXCEPT !.config = change[r].config, !.version = change[r].number]
  /\ UNCHANGED <<draft, published, snapshots, copies, evaluated, rolledBack>>

\* snapshotVersion; the number may be taken by now, and the request fails.
SnapshotVersion(r) ==
  /\ Then(r, "snapshot", "done")
  /\ snapshots' = IF Taken(snapshots, change[r].number) THEN snapshots
                  ELSE snapshots \cup {[number |-> change[r].number, config |-> change[r].config]}
  /\ UNCHANGED <<draft, published, voice, copies, evaluated, rolledBack>>

\* setStatus: no new version.
SetStatus(r, status) ==
  /\ change[r].at = "idle" /\ change' = [change EXCEPT ![r] = Answered]
  /\ voice' = [voice EXCEPT !.status = status]
  /\ UNCHANGED <<draft, published, snapshots, copies, evaluated, rolledBack, crossed, cutShort, versionFaults>>

-----------------------------------------------------------------------------

ChangeDies(r) ==
  /\ change[r].at \notin {"idle", "done"} /\ versionFaults < VersionFaults
  /\ versionFaults' = versionFaults + 1
  /\ change' = [change EXCEPT ![r] = Answered]
  /\ cutShort' = (cutShort \/ change[r].at \in {"snapshot", "activate"})
  /\ UNCHANGED <<agentVars, rolledBack, crossed>>

VersionsNext ==
  \E r \in Changes :
    \/ \E config \in Configs : EditDraft(r, config) \/ ReadForUpdate(r, config)
    \/ ReadDraft(r) \/ ReadLatest(r) \/ CreateVersion(r) \/ ActivateVersion(r)
    \/ ReadPublished(r) \/ CopyBack(r) \/ ReadOriginal(r) \/ CreateCopy(r)
    \/ ReadActive(r) \/ RunEvaluation(r)
    \/ ReadForRollback(r) \/ WriteVoice(r) \/ SnapshotVersion(r)
    \/ \E status \in {"ACTIVE", "PAUSED"} : SetStatus(r, status)
    \/ ChangeDies(r)

VersionsSpec == VersionsInit /\ [][VersionsNext]_versionVars

-----------------------------------------------------------------------------
(* Properties *)

VersionsTypeOK ==
  /\ draft \in [config : Configs, active : Numbers]
  /\ published \subseteq [number : Numbers, config : Configs]
  /\ voice \in [config : Configs, version : Numbers, status : {"DRAFT", "ACTIVE", "PAUSED"}]
  /\ snapshots \subseteq [number : Numbers, config : Configs]
  /\ copies \subseteq [config : Configs, status : {"DRAFT"}]
  /\ evaluated \subseteq [of : Numbers, config : Configs]
  /\ change \in [Changes -> [kind : ChangeKinds, at : ChangeSteps, config : Configs, number : Numbers]]
  /\ rolledBack \in BOOLEAN /\ crossed \in [ai : BOOLEAN, voice : BOOLEAN] /\ cutShort \in BOOLEAN
  /\ versionFaults \in 0 .. VersionFaults

\* A call "always knows which version and prompt produced it": the configuration of the voice
\* agent is the one kept under its version number, after any updates and rollbacks, unless two
\* of them overlapped, one died half way, or one is about to keep its snapshot; and the active
\* version of a WhatsApp agent is the newest, unless it was rolled back to another since, or
\* requests overlapped or died (snapshotVersion, publish, rollback).
ActiveIsSnapshot ==
  /\ \/ [number |-> voice.version, config |-> voice.config] \in snapshots
     \/ crossed.voice \/ cutShort \/ \E r \in Changes : change[r].at = "snapshot"
  /\ \/ draft.active = Newest(published) \/ rolledBack
     \/ crossed.ai \/ cutShort \/ \E r \in Changes : change[r].at = "activate"
=============================================================================
