----------------------------- MODULE CallProofs -----------------------------
(***************************************************************************)
(* Proofs about calls: the numbers of an organization, the codes a caller is*)
(* asked for, the budgets, the versions of the agents, what is said in a   *)
(* call and the tools that are called in it.  Each invariant joins to the  *)
(* properties what they rest on.                                           *)
(***************************************************************************)
EXTENDS VoiceNumbers, CallerVerification, SpendingLimits, AgentVersions, CallDialogue, CallConversation,
        Integers, FiniteSetTheorems, SequenceTheorems, WellFoundedInduction, TLAPS

-----------------------------------------------------------------------------
(* The numbers of an organization *)

\* Who holds what: a purchase is named by its request, which alone writes its row, and once;
\* what is being released is what the row said, and is not held once it was released.
NumbersTraced ==
  /\ \A r \in NumberRequests :
       LET q == numberReq[r] IN
       /\ q.at = "buy" => q.sid = r
       /\ q.at = "create" => q.sid \in {r, Nothing} /\ (q.sid = r => r \in held \cup astray)
       /\ q.at \in {"release", "remove"} => numberRow[q.org].state # "none" /\ numberRow[q.org].sid = q.sid
       /\ q.at = "remove" => q.sid \notin held \/ q.sid \in astray
  /\ \A o \in VoiceOrgs :
       LET row == numberRow[o] IN
       /\ row.state = "none" => row.sid = Nothing
       /\ row.sid # Nothing => numberReq[row.sid].at = "done" /\ numberReq[row.sid].org = o

RowStates == [state : {"none", "live", "removed"}, sid : NumberRequests \cup {Nothing},
              status : {"NOT_CONFIGURED", "PENDING_SETUP", "READY"}]

NumberRequestStates == [at : Steps, org : VoiceOrgs, sid : NumberRequests \cup {Nothing}]

NumbersInv == NumbersTypeOK /\ NumbersTraced /\ NumbersAreHeld

\* Nothing is bought, and no request has begun.
LEMMA NumbersStart == NumbersInit => NumbersInv
<1> SUFFICES ASSUME NumbersInit PROVE NumbersInv
  OBVIOUS
<1>1. (CHOOSE o \in VoiceOrgs : TRUE) \in VoiceOrgs
  BY NumbersAssumption
<1>2. NumbersTypeOK
  <2> DEFINE first == CHOOSE o \in VoiceOrgs : TRUE
  <2>1. first \in VoiceOrgs /\ 0 \in 0..NumberFaults
    BY <1>1, NumbersAssumption
  <2> HIDE DEF first
  <2>2. numberReq = [r \in NumberRequests |-> [at |-> "idle", org |-> first, sid |-> Nothing]]
    BY DEF NumbersInit, first
  <2>3. numberRow \in [VoiceOrgs -> RowStates] /\ numberReq \in [NumberRequests -> NumberRequestStates]
    <3>1. [at |-> "idle", org |-> first, sid |-> Nothing] \in NumberRequestStates
      BY <2>1 DEF NumberRequestStates, Steps
    <3>2. [state |-> "none", sid |-> Nothing, status |-> "NOT_CONFIGURED"] \in RowStates
      BY DEF RowStates
    <3> QED BY <2>2, <3>1, <3>2 DEF NumbersInit
  <2>4. voiceSwitch \in [VoiceOrgs -> [provisioning : BOOLEAN, kill : BOOLEAN]]
    BY DEF NumbersInit
  <2> QED BY <2>1, <2>3, <2>4 DEF NumbersInit, NumbersTypeOK, RowStates, NumberRequestStates
<1> QED BY <1>2, NumbersAssumption DEF NumbersInit, NumbersInv, NumbersTraced, NumbersAreHeld, Live

\* The steps that leave the carrier and the rows alone.
LEMMA NumberAsked ==
  ASSUME NumbersInv, NEW r \in NumberRequests, NEW o \in VoiceOrgs,
         Register(r, o) \/ Provision(r, o) \/ RemoveNumber(r, o) \/ Incoming(r, o) \/ ActivateAgent(r, o)
  PROVE  NumbersInv'
<1>1. PICK step \in {"create", "buy", "release", "ready", "activate"}, sid \in NumberRequests \cup {Nothing} :
        /\ Begin(r, o, step, sid)
        /\ step = "buy" => sid = r
        /\ step = "create" => sid = Nothing
        /\ step = "release" => Live(o) /\ sid = numberRow[o].sid
  BY DEF Register, Provision, RemoveNumber, Incoming, ActivateAgent, NumbersInv, NumbersTypeOK
<1>2. numberReq' = [numberReq EXCEPT ![r] = [at |-> step, org |-> o, sid |-> sid]] /\ numberReq[r].at = "idle"
      /\ UNCHANGED <<held, numberRow, settingVars, voiceActive, numberFaults, astray>>
  BY <1>1 DEF Begin
<1>3. NumbersTypeOK'
  BY <1>1, <1>2 DEF NumbersInv, NumbersTypeOK, Steps, settingVars
<1>4. NumbersTraced'
  BY <1>1, <1>2, NumbersAssumption DEF NumbersInv, NumbersTypeOK, NumbersTraced, Live
<1>5. \A sid2, at : at # "idle" /\ Underway(sid2, at) => Underway(sid2, at)'
  BY <1>2 DEF NumbersInv, NumbersTypeOK, Underway
<1>6. NumbersAreHeld'
  BY <1>2, <1>5 DEF NumbersInv, NumbersTypeOK, NumbersAreHeld, Live
<1> QED BY <1>3, <1>4, <1>6 DEF NumbersInv

\* The carrier sells.
LEMMA BuyStep == ASSUME NumbersInv, NEW r \in NumberRequests, Buy(r) PROVE NumbersInv'
<1>1. PICK to \in {"create", "done"} :
        /\ numberReq' = [numberReq EXCEPT ![r].at = to] /\ numberReq[r].at = "buy"
        /\ held' \in {held, {r}} /\ astray' \in {astray, astray \cup {r}}
        /\ to = "create" => held' = {r}
        /\ held' # held => held' = {r} /\ held = {} /\ (to = "create" \/ r \in astray')
        /\ numberFaults' \in 0..NumberFaults
        /\ UNCHANGED <<numberRow, settingVars, voiceActive>>
  <2>0. numberFaults \in 0..NumberFaults /\ NumberFaults \in Nat
    BY NumbersAssumption DEF NumbersInv, NumbersTypeOK
  <2>1. CASE held = {} /\ Continue(r, "buy", "create") /\ UNCHANGED <<numberFaults, astray>>
    BY <2>0, <2>1 DEF Buy, Continue
  <2>2. CASE held = {} /\ NumberFault /\ Continue(r, "buy", "done") /\ astray' = astray \cup {r}
    BY <2>0, <2>2 DEF Buy, Continue, NumberFault
  <2>3. CASE held # {}
    BY <2>0, <2>3 DEF Buy, Continue
  <2> QED BY <2>1, <2>2, <2>3 DEF Buy
<1>2. NumbersTypeOK'
  BY <1>1 DEF NumbersInv, NumbersTypeOK, Steps, settingVars
<1>3. NumbersTraced'
  BY <1>1, NumbersAssumption DEF NumbersInv, NumbersTypeOK, NumbersTraced
<1>4. \A sid, at : at # "buy" /\ Underway(sid, at) => Underway(sid, at)'
  BY <1>1 DEF NumbersInv, NumbersTypeOK, Underway
<1>5. held' # held /\ r \notin astray' => Underway(r, "create")'
  BY <1>1 DEF NumbersInv, NumbersTypeOK, NumbersTraced, Underway
<1>6. \A o \in VoiceOrgs : numberRow[o].sid # r
  BY <1>1, NumbersAssumption DEF NumbersInv, NumbersTraced
<1>7. NumbersAreHeld'
  BY <1>1, <1>4, <1>5, <1>6 DEF NumbersInv, NumbersTypeOK, NumbersAreHeld, Live
<1> QED BY <1>2, <1>3, <1>7 DEF NumbersInv

\* The row is written for the number that was bought, or given back if one is there.
LEMMA CreateRowStep == ASSUME NumbersInv, NEW r \in NumberRequests, CreateRow(r) PROVE NumbersInv'
<1> DEFINE q == numberReq[r]
           row == [state |-> "live", sid |-> q.sid, status |-> "PENDING_SETUP"]
<1>1. /\ numberReq' = [numberReq EXCEPT ![r].at = "done"] /\ q.at = "create" /\ numberFaults' \in 0..NumberFaults
      /\ UNCHANGED <<held, settingVars, voiceActive>> /\ q.sid \in {r, Nothing} /\ q.org \in VoiceOrgs
  BY NumbersAssumption DEF CreateRow, Continue, NumberFault, NumbersInv, NumbersTypeOK,
     NumbersTraced
<1>2. \A sid, at : (at = "remove" \/ sid # q.sid) /\ Underway(sid, at) => Underway(sid, at)'
  BY <1>1 DEF NumbersInv, NumbersTypeOK, Underway
<1>3. numberReq' \in [NumberRequests -> NumberRequestStates]
  BY <1>1 DEF NumbersInv, NumbersTypeOK, NumberRequestStates, Steps
<1>4. CASE astray' = astray \cup {q.sid} /\ UNCHANGED numberRow
  <2>1. NumbersTypeOK'
    BY <1>1, <1>3, <1>4 DEF NumbersInv, NumbersTypeOK, settingVars, NumberRequestStates
  <2>2. NumbersTraced'
    BY <1>1, <1>4, NumbersAssumption DEF NumbersInv, NumbersTypeOK, NumbersTraced
  <2>3. NumbersAreHeld'
    BY <1>1, <1>2, <1>4, NumbersAssumption DEF NumbersInv, NumbersTypeOK, NumbersAreHeld, Live
  <2> QED BY <2>1, <2>2, <2>3 DEF NumbersInv
<1>5. CASE numberRow[q.org].state = "none" /\ numberRow' = [numberRow EXCEPT ![q.org] = row] /\ UNCHANGED astray
  <2>1. row \in RowStates
    BY <1>1 DEF RowStates
  <2>2. NumbersTypeOK'
    BY <1>1, <1>3, <1>5, <2>1 DEF NumbersInv, NumbersTypeOK, settingVars, NumberRequestStates,
       RowStates
  <2>3. numberRow'[q.org] = row /\ \A o \in VoiceOrgs : o # q.org => numberRow'[o] = numberRow[o]
    BY <1>1, <1>5 DEF NumbersInv, NumbersTypeOK
  <2>4. numberReq'[r] = [q EXCEPT !.at = "done"] /\ \A n \in NumberRequests : n # r => numberReq'[n] = numberReq[n]
    BY <1>1 DEF NumbersInv, NumbersTypeOK
  <2>5. \A n \in NumberRequests : numberReq[n].at \in {"release", "remove"} => numberReq[n].org # q.org
    BY <1>5 DEF NumbersInv, NumbersTraced
  <2>6. NumbersTraced'
    <3>1. \A n \in NumberRequests :
            LET p == numberReq'[n] IN
            /\ p.at = "buy" => p.sid = n
            /\ p.at = "create" => p.sid \in {n, Nothing} /\ (p.sid = n => n \in held' \cup astray')
            /\ p.at \in {"release", "remove"} => numberRow'[p.org].state # "none" /\ numberRow'[p.org].sid = p.sid
            /\ p.at = "remove" => p.sid \notin held' \/ p.sid \in astray'
      BY <1>1, <1>5, <2>3, <2>4, <2>5 DEF NumbersInv, NumbersTypeOK, NumbersTraced
    <3>2. \A o \in VoiceOrgs :
            LET w == numberRow'[o] IN
            /\ w.state = "none" => w.sid = Nothing
            /\ w.sid # Nothing => numberReq'[w.sid].at = "done" /\ numberReq'[w.sid].org = o
      BY <1>1, <2>3, <2>4 DEF NumbersInv, NumbersTypeOK, NumbersTraced
    <3> QED BY <3>1, <3>2 DEF NumbersTraced
  <2>7. \A sid \in held \ astray : (\E o \in VoiceOrgs : Live(o) /\ numberRow[o].sid = sid)'
                                 \/ Underway(sid, "create")'
    <3> SUFFICES ASSUME NEW sid \in held \ astray, ~Underway(sid, "create")'
                 PROVE  (\E o \in VoiceOrgs : Live(o) /\ numberRow[o].sid = sid)'
      OBVIOUS
    <3>1. CASE sid = q.sid
      BY <1>1, <2>3, <3>1 DEF Live
    <3>2. CASE sid # q.sid
      <4>1. ~Underway(sid, "create")
        BY <1>1, <2>4, <3>2 DEF Underway
      <4>2. PICK o \in VoiceOrgs : Live(o) /\ numberRow[o].sid = sid
        BY <4>1 DEF NumbersInv, NumbersAreHeld
      <4> QED BY <1>5, <2>3, <4>2 DEF Live
    <3> QED BY <3>1, <3>2
  <2>8. q.sid \in held \cup astray \cup {Nothing}
    BY <1>1 DEF NumbersInv, NumbersTraced
  <2>9. \A o \in VoiceOrgs, sid \in held \cup NumberRequests :
          Live(o)' /\ numberRow'[o].sid = sid /\ sid \notin astray \cup {Nothing} =>
            sid \in held \/ Underway(sid, "remove")'
    BY <1>2, <2>3, <2>8 DEF NumbersInv, NumbersAreHeld, Live
  <2>10. NumbersAreHeld'
    BY <1>1, <1>5, <2>2, <2>7, <2>9 DEF NumbersTypeOK, NumbersAreHeld, Underway
  <2> QED BY <2>2, <2>6, <2>10 DEF NumbersInv
<1> QED BY <1>4, <1>5 DEF CreateRow

\* The number goes back to the carrier before the row says so.
LEMMA ReleaseStep == ASSUME NumbersInv, NEW r \in NumberRequests, Release(r) PROVE NumbersInv'
<1> DEFINE q == numberReq[r]
<1>1. /\ numberReq' = [numberReq EXCEPT ![r].at = "remove"] /\ q.at = "release" /\ numberFaults' \in 0..NumberFaults
      /\ UNCHANGED <<numberRow, settingVars, voiceActive>> /\ q.sid \in NumberRequests \cup {Nothing}
      /\ \/ held' = held \ {q.sid} /\ UNCHANGED astray
         \/ held' \in {held, held \ {q.sid}} /\ astray' = astray \cup {q.sid}
  BY NumbersAssumption DEF Release, Continue, NumberFault, NumbersInv, NumbersTypeOK
<1>2. NumbersTypeOK'
  BY <1>1 DEF NumbersInv, NumbersTypeOK, Steps, settingVars
<1>3. NumbersTraced'
  BY <1>1, NumbersAssumption DEF NumbersInv, NumbersTypeOK, NumbersTraced
<1>4. \A sid, at : at # "release" /\ Underway(sid, at) => Underway(sid, at)'
  BY <1>1 DEF NumbersInv, NumbersTypeOK, Underway
<1>5. Underway(q.sid, "remove")'
  BY <1>1 DEF NumbersInv, NumbersTypeOK, Underway
<1>6. NumbersAreHeld'
  BY <1>1, <1>4, <1>5 DEF NumbersInv, NumbersTypeOK, NumbersAreHeld, Live
<1> QED BY <1>2, <1>3, <1>6 DEF NumbersInv

\* The row is removed after the number.
LEMMA MarkRemovedStep == ASSUME NumbersInv, NEW r \in NumberRequests, MarkRemoved(r) PROVE NumbersInv'
<1> DEFINE q == numberReq[r]
<1>1. /\ numberReq' = [numberReq EXCEPT ![r].at = "done"] /\ q.at = "remove" /\ q.org \in VoiceOrgs
      /\ UNCHANGED <<held, settingVars, voiceActive, numberFaults, astray>>
      /\ numberRow' = [numberRow EXCEPT ![q.org] = [@ EXCEPT !.state = "removed", !.status = "NOT_CONFIGURED"]]
  BY DEF MarkRemoved, Continue, NumbersInv, NumbersTypeOK
<1>2. NumbersTypeOK'
  <2>1. numberRow[q.org] \in RowStates /\ numberRow \in [VoiceOrgs -> RowStates]
    BY <1>1 DEF NumbersInv, NumbersTypeOK, RowStates
  <2>2. [numberRow[q.org] EXCEPT !.state = "removed", !.status = "NOT_CONFIGURED"] \in RowStates
    BY <2>1 DEF RowStates
  <2>3. numberRow' \in [VoiceOrgs -> RowStates]
    BY <1>1, <2>1, <2>2
  <2> QED BY <1>1, <2>3 DEF NumbersInv, NumbersTypeOK, Steps, settingVars, RowStates
<1>3. NumbersTraced'
  BY <1>1, NumbersAssumption DEF NumbersInv, NumbersTypeOK, NumbersTraced
<1>4. \A sid, at : (at # "remove" \/ sid # q.sid) /\ Underway(sid, at) => Underway(sid, at)'
  BY <1>1 DEF NumbersInv, NumbersTypeOK, Underway
<1>5. \A o \in VoiceOrgs : /\ numberRow'[o].sid = numberRow[o].sid
                           /\ Live(o)' <=> Live(o) /\ o # q.org
  BY <1>1 DEF NumbersInv, NumbersTypeOK, Live
<1>6. \A o \in VoiceOrgs : o # q.org /\ numberRow[o].sid # Nothing => numberRow[o].sid # q.sid
  BY <1>1 DEF NumbersInv, NumbersTraced
<1>7. numberRow[q.org].sid = q.sid /\ q.sid \notin held \ astray
  BY <1>1 DEF NumbersInv, NumbersTraced
<1>8. NumbersAreHeld'
  <2>1. \A sid \in held \ astray : (\E o \in VoiceOrgs : Live(o) /\ numberRow[o].sid = sid)'
                                 \/ Underway(sid, "create")'
    BY <1>4, <1>5, <1>7 DEF NumbersInv, NumbersAreHeld
  <2>2. \A o \in VoiceOrgs, sid \in held \cup NumberRequests :
          Live(o)' /\ numberRow'[o].sid = sid /\ sid \notin astray \cup {Nothing} =>
            sid \in held \/ Underway(sid, "remove")'
    BY <1>4, <1>5, <1>6 DEF NumbersInv, NumbersAreHeld
  <2>3. \A o \in VoiceOrgs : numberRow'[o].sid \in NumberRequests \cup {Nothing}
    BY <1>2 DEF NumbersTypeOK
  <2> QED BY <1>1, <2>1, <2>2, <2>3 DEF NumbersAreHeld, Underway
<1> QED BY <1>2, <1>3, <1>8 DEF NumbersInv

\* The first call, and the activation of the agent.
LEMMA ReadyStep ==
  ASSUME NumbersInv, NEW r \in NumberRequests, MarkReady(r) \/ Activated(r)
  PROVE  NumbersInv'
<1> DEFINE q == numberReq[r]
<1>1. /\ numberReq' = [numberReq EXCEPT ![r].at = "done"] /\ q.at \in {"ready", "activate"} /\ q.org \in VoiceOrgs
      /\ UNCHANGED <<held, settingVars, numberFaults, astray>>
      /\ voiceActive' \subseteq VoiceOrgs
      /\ numberRow' \in {numberRow, [numberRow EXCEPT ![q.org].status = "READY"]}
  BY DEF MarkReady, Activated, Continue, NumbersInv, NumbersTypeOK
<1>2. NumbersTypeOK'
  <2>1. numberRow[q.org] \in RowStates /\ numberRow \in [VoiceOrgs -> RowStates]
    BY <1>1 DEF NumbersInv, NumbersTypeOK, RowStates
  <2>2. [numberRow[q.org] EXCEPT !.status = "READY"] \in RowStates
    BY <2>1 DEF RowStates
  <2>3. numberRow' \in [VoiceOrgs -> RowStates]
    BY <1>1, <2>1, <2>2
  <2>4. numberReq' \in [NumberRequests -> NumberRequestStates]
    BY <1>1 DEF NumbersInv, NumbersTypeOK, NumberRequestStates, Steps
  <2> QED BY <1>1, <2>3, <2>4 DEF NumbersInv, NumbersTypeOK, settingVars, RowStates,
      NumberRequestStates
<1>3. \A o \in VoiceOrgs : numberRow'[o].sid = numberRow[o].sid /\ numberRow'[o].state = numberRow[o].state
  BY <1>1 DEF NumbersInv, NumbersTypeOK
<1>4. NumbersTraced'
  BY <1>1, <1>3, NumbersAssumption DEF NumbersInv, NumbersTypeOK, NumbersTraced
<1>5. \A sid, at : at \in {"create", "remove"} /\ Underway(sid, at) => Underway(sid, at)'
  BY <1>1 DEF NumbersInv, NumbersTypeOK, Underway
<1>6. NumbersAreHeld'
  BY <1>1, <1>3, <1>5 DEF NumbersInv, NumbersTypeOK, NumbersAreHeld, Live
<1> QED BY <1>2, <1>4, <1>6 DEF NumbersInv

\* A request that dies leaves what it had bought astray.
LEMMA NumberRequestDiesStep ==
  ASSUME NumbersInv, NEW r \in NumberRequests, NumberRequestDies(r) PROVE NumbersInv'
<1> DEFINE q == numberReq[r]
<1>1. /\ numberReq' = [numberReq EXCEPT ![r].at = "done"] /\ q.at \notin {"idle", "done"}
      /\ numberFaults' \in 0..NumberFaults
      /\ UNCHANGED <<held, numberRow, settingVars, voiceActive>> /\ q.sid \in NumberRequests \cup {Nothing}
      /\ astray' = IF q.at \in {"create", "release", "remove"} THEN astray \cup {q.sid} ELSE astray
  BY NumbersAssumption DEF NumberRequestDies, NumberFault, NumbersInv, NumbersTypeOK
<1>2. NumbersTypeOK'
  BY <1>1 DEF NumbersInv, NumbersTypeOK, Steps, settingVars
<1>3. NumbersTraced'
  BY <1>1, NumbersAssumption DEF NumbersInv, NumbersTypeOK, NumbersTraced
<1>4. \A sid, at : at \in {"create", "remove"} /\ Underway(sid, at) => Underway(sid, at)' \/ sid \in astray'
  BY <1>1 DEF NumbersInv, NumbersTypeOK, Underway
<1>5. astray \subseteq astray'
  BY <1>1
<1>6. NumbersAreHeld'
  BY <1>1, <1>4, <1>5 DEF NumbersInv, NumbersTypeOK, NumbersAreHeld, Live
<1> QED BY <1>2, <1>3, <1>6 DEF NumbersInv

\* The settings are read once, at the beginning of a request.
LEMMA SettingsStep ==
  ASSUME NumbersInv, NEW o \in VoiceOrgs,
         \/ DeactivateAgent(o) \/ CheckProvider(o)
         \/ \E switches \in [provisioning : BOOLEAN, kill : BOOLEAN] : UpdateSettings(o, switches)
  PROVE  NumbersInv'
<1>1. UNCHANGED <<held, numberRow, numberReq, numberFaults, astray>>
  BY DEF DeactivateAgent, CheckProvider, UpdateSettings
<1>2. voiceActive' \subseteq VoiceOrgs /\ carrier' \in [VoiceOrgs -> {"TWILIO", "SIMULATION"}]
  <2>1. PICK to \in {"TWILIO", "SIMULATION"} : carrier' \in {carrier, [carrier EXCEPT ![o] = to]}
    <3>1. CASE CheckProvider(o)
      <4> DEFINE to == IF carrier[o] = "TWILIO" THEN "SIMULATION" ELSE "TWILIO"
      <4>1. to \in {"TWILIO", "SIMULATION"} /\ carrier' = [carrier EXCEPT ![o] = to]
        BY <3>1 DEF CheckProvider
      <4> QED BY <4>1
    <3> QED BY <3>1 DEF DeactivateAgent, UpdateSettings, settingVars
  <2>2. voiceActive' \subseteq voiceActive
    BY DEF DeactivateAgent, CheckProvider, UpdateSettings
  <2> QED BY <2>1, <2>2 DEF NumbersInv, NumbersTypeOK
<1>3. voiceSwitch' \in [VoiceOrgs -> [provisioning : BOOLEAN, kill : BOOLEAN]]
  <2>1. UNCHANGED voiceSwitch \/ \E switches \in [provisioning : BOOLEAN, kill : BOOLEAN] :
                                  voiceSwitch' = [voiceSwitch EXCEPT ![o] = switches]
    <3>1. CASE DeactivateAgent(o)
      BY <3>1 DEF DeactivateAgent, settingVars
    <3>2. CASE CheckProvider(o)
      BY <3>2 DEF CheckProvider
    <3>3. ASSUME NEW switches \in [provisioning : BOOLEAN, kill : BOOLEAN], UpdateSettings(o, switches)
          PROVE  voiceSwitch' = [voiceSwitch EXCEPT ![o] = switches]
      BY <3>3 DEF UpdateSettings
    <3> QED BY <3>1, <3>2, <3>3
  <2> QED BY <2>1 DEF NumbersInv, NumbersTypeOK
<1>4. NumbersTypeOK'
  BY <1>1, <1>2, <1>3 DEF NumbersInv, NumbersTypeOK
<1>5. NumbersTraced' /\ NumbersAreHeld'
  BY <1>1 DEF NumbersInv, NumbersTraced, NumbersAreHeld, Live, Underway
<1> QED BY <1>4, <1>5 DEF NumbersInv

\* Every step keeps who holds what.
LEMMA NumbersStep == ASSUME NumbersInv, [NumbersNext]_numberVars PROVE NumbersInv'
<1>1. CASE UNCHANGED numberVars
  BY <1>1 DEF numberVars, NumbersInv, NumbersTypeOK, NumbersTraced, NumbersAreHeld, Live, Underway
<1> QED BY <1>1, NumberAsked, BuyStep, CreateRowStep, ReleaseStep, MarkRemovedStep, ReadyStep,
    NumberRequestDiesStep,
           SettingsStep DEF NumbersNext

\* The rows, the requests and the numbers held are what the code can store (phone-number.service.ts).
THEOREM NumbersTypeCorrect == NumbersSpec => []NumbersTypeOK
<1>1. NumbersInv => NumbersTypeOK
  BY DEF NumbersInv
<1> QED BY <1>1, NumbersStart, NumbersStep, PTL DEF NumbersSpec

\* A number at the carrier is in a row or known to be astray, and no row names a number given back (phone-number.service.ts).
THEOREM NumbersCorrect == NumbersSpec => []NumbersAreHeld
<1>1. NumbersInv => NumbersAreHeld
  BY DEF NumbersInv
<1> QED BY <1>1, NumbersStart, NumbersStep, PTL DEF NumbersSpec

-----------------------------------------------------------------------------
(* Codes for a caller *)

Sent == {q \in CodeRequests : requesting[q] = "sent"}

\* The codes of the call are those of the requests that were served; without overlap, there
\* is one request between its count and its code.
CodesCounted ==
  /\ Len(codes) = Cardinality(Sent)
  /\ ~crowdedCall => /\ Len(codes) <= CodeLimit
                     /\ \A q, o \in CodeRequests : requesting[q] = "create" /\ requesting[o] = "create" => q = o
                     /\ \A q \in CodeRequests : requesting[q] = "create" => Len(codes) < CodeLimit

\* An answer deals with one code, is compared with it once, and opens it if it is right.
AnswersTold ==
  /\ \A v \in Verifies : answer[v].at \in {"attempt", "stamp"} => answer[v].code \in DOMAIN codes
  /\ \A v \in Verifies : answer[v].at = "stamp" => answer[v].right
  /\ \A k \in CodeNumbers : \A v \in compared[k] : answer[v].at \in {"stamp", "done"} /\ answer[v].code = k
  /\ \A k \in CodeNumbers : \A v \in opened[k] :
       answer[v].at = "done" /\ answer[v].code = k /\ answer[v].right /\ k \in DOMAIN codes

CodesTold ==
  /\ \A k \in CodeNumbers : IsFiniteSet(compared[k])
  /\ \A k \in CodeNumbers : k \notin DOMAIN codes => compared[k] = {} /\ opened[k] = {}
  /\ \A k \in DOMAIN codes : /\ Cardinality(compared[k]) = codes[k].attempts
                             /\ codes[k].verified => opened[k] # {}
                             /\ opened[k] # {} => codes[k].verified

\* Without overlap, a code has one answer at a time, which finds an attempt left, and none
\* once it is verified.
OneAnswers ==
  \A k \in DOMAIN codes : k \notin crowded =>
    /\ codes[k].attempts <= AttemptLimit
    /\ \A u, v \in Answering(k) : u = v
    /\ \A v \in Answering(k) : ~codes[k].verified /\ (answer[v].at = "attempt" => codes[k].attempts < AttemptLimit)
    /\ \A u, v \in opened[k] : u = v

AnswerStates == [at : {"idle", "attempt", "stamp", "done"}, code : {0} \cup CodeNumbers, right : BOOLEAN]

VerificationInv == VerificationTypeOK /\ CodesCounted /\ AnswersTold /\ CodesTold /\ OneAnswers

\* The limits are numbers, and the requests for codes are finitely many.
LEMMA VerificationConstants ==
  /\ IsFiniteSet(CodeRequests) /\ CodeLimit \in Nat /\ AttemptLimit \in Nat /\ VerificationFaults \in Nat
  /\ Cardinality(CodeRequests) \in Nat
BY VerificationAssumption, FS_CardinalityType

\* The requests that were served can be counted.
LEMMA SentIsFinite == Sent \subseteq CodeRequests /\ IsFiniteSet(Sent) /\ Cardinality(Sent) \in Nat
                      /\ Cardinality(Sent) <= Cardinality(CodeRequests)
BY VerificationConstants, FS_Subset, FS_CardinalityType DEF Sent

\* No code is sent and no answer given.
LEMMA VerificationStart == VerificationInit => VerificationInv
<1> SUFFICES ASSUME VerificationInit PROVE VerificationInv
  OBVIOUS
<1> USE VerificationConstants
<1>1. codes = <<>> /\ Len(codes) = 0 /\ DOMAIN codes = {} /\ codes \in Seq(CodeRows)
  BY DEF VerificationInit
<1>2. Sent = {} /\ Cardinality(Sent) = 0
  BY FS_EmptySet DEF VerificationInit, Sent
<1>3. VerificationTypeOK
  <2>1. answer \in [Verifies -> AnswerStates] /\ 0 \in 0..VerificationFaults
    BY DEF VerificationInit, NotAsked, AnswerStates
  <2>2. compared \in [CodeNumbers -> SUBSET Verifies] /\ opened \in [CodeNumbers -> SUBSET Verifies]
    BY DEF VerificationInit
  <2>3. requesting \in [CodeRequests -> {"idle", "create", "refused", "sent"}]
    BY DEF VerificationInit
  <2>4. crowdedCall \in BOOLEAN /\ crowded \subseteq CodeNumbers
    BY DEF VerificationInit
  <2>5. verificationFaults \in 0..VerificationFaults /\ Len(codes) <= Cardinality(CodeRequests)
    BY <1>1 DEF VerificationInit
  <2> QED BY <1>1, <2>1, <2>2, <2>3, <2>4, <2>5 DEF VerificationTypeOK, AnswerStates
<1>4. CodesCounted
  BY <1>1, <1>2 DEF VerificationInit, CodesCounted
<1>5. AnswersTold /\ CodesTold /\ OneAnswers
  BY <1>1, FS_EmptySet DEF VerificationInit, AnswersTold, CodesTold, OneAnswers, NotAsked
<1> QED BY <1>3, <1>4, <1>5 DEF VerificationInv

\* What the invariant says suffices for what is promised.
LEMMA VerificationSuffices == VerificationInv => VerificationHolds
<1> SUFFICES ASSUME VerificationInv PROVE VerificationHolds
  OBVIOUS
<1>1. CodesAreLimited
  BY DEF VerificationInv, CodesCounted, CodesAreLimited
<1>2. AttemptsAreLimited
  <2> SUFFICES ASSUME NEW k \in CodeNumbers, k \notin crowded
               PROVE  Cardinality(compared[k]) <= AttemptLimit /\ Cardinality(opened[k]) <= 1
    BY DEF AttemptsAreLimited
  <2>1. CASE k \in DOMAIN codes
    <3>1. Cardinality(compared[k]) <= AttemptLimit
      BY <2>1 DEF VerificationInv, OneAnswers, CodesTold
    <3>2. opened[k] = {} \/ \E v : opened[k] = {v}
      <4>1. \A u, v \in opened[k] : u = v
        BY <2>1 DEF VerificationInv, OneAnswers
      <4>2. CASE opened[k] # {}
        <5>1. PICK v : v \in opened[k]
          BY <4>2
        <5> QED BY <4>1, <5>1
      <4> QED BY <4>2
    <3>3. Cardinality(opened[k]) \in {0, 1}
      BY <3>2, FS_EmptySet, FS_Singleton
    <3> QED BY <3>1, <3>3
  <2>2. CASE k \notin DOMAIN codes
    <3>1. Cardinality(compared[k]) = 0 /\ Cardinality(opened[k]) = 0
      BY <2>2, FS_EmptySet DEF VerificationInv, CodesTold
    <3> QED BY <3>1, VerificationConstants
  <2> QED BY <2>1, <2>2
<1>3. OpenedByItsCode
  <2>1. DOMAIN codes \subseteq CodeNumbers
    BY VerificationConstants, LenProperties DEF VerificationInv, VerificationTypeOK, CodeNumbers
  <2>2. \A k \in DOMAIN codes : codes[k].verified => \E v \in opened[k] : answer[v].right /\ answer[v].code = k
    BY <2>1 DEF VerificationInv, CodesTold, AnswersTold
  <2> QED BY <2>2 DEF OpenedByItsCode, VerifiedScopes
<1> QED BY <1>1, <1>2, <1>3 DEF VerificationHolds

\* The codes are numbered.
LEMMA CodesNumbered ==
  ASSUME VerificationInv
  PROVE  /\ codes \in Seq(CodeRows) /\ Len(codes) \in Nat /\ DOMAIN codes = 1..Len(codes) /\ DOMAIN codes \subseteq CodeNumbers
         /\ \A k \in DOMAIN codes : codes[k] \in CodeRows
<1> USE VerificationConstants
<1>1. codes \in Seq(CodeRows) /\ Len(codes) <= Cardinality(CodeRequests)
  BY DEF VerificationInv, VerificationTypeOK
<1> QED BY <1>1, LenProperties, ElementOfSeq DEF CodeNumbers

-----------------------------------------------------------------------------
(* A request for a code *)

\* A request that finds fewer codes than the limit may create one.
LEMMA CountCodesStep ==
  ASSUME VerificationInv, NEW q \in CodeRequests, CountCodes(q)
  PROVE  VerificationInv'
<1> USE VerificationConstants, CodesNumbered
<1>1. PICK to \in {"create", "refused"} :
        /\ requesting' = [requesting EXCEPT ![q] = to] /\ requesting[q] = "idle"
        /\ to = "create" => Len(codes) < CodeLimit
        /\ ~crowdedCall' => ~crowdedCall /\ \A o \in CodeRequests \ {q} : requesting[o] # "create"
        /\ crowdedCall' \in BOOLEAN
        /\ UNCHANGED <<codes, answer, compared, opened, crowded, verificationFaults>>
  BY DEF CountCodes, VerificationInv, VerificationTypeOK
<1>2. VerificationTypeOK'
  BY <1>1 DEF VerificationInv, VerificationTypeOK
<1>3. Sent' = Sent
  BY <1>1 DEF VerificationInv, VerificationTypeOK, Sent
<1>4. CodesCounted'
  BY <1>1, <1>3 DEF VerificationInv, VerificationTypeOK, CodesCounted
<1>5. AnswersTold' /\ CodesTold' /\ OneAnswers'
  BY <1>1 DEF VerificationInv, AnswersTold, CodesTold, OneAnswers, Answering
<1> QED BY <1>2, <1>4, <1>5 DEF VerificationInv

\* A code more, and a request more that was served.
LEMMA CreateOtpStep ==
  ASSUME VerificationInv, NEW q \in CodeRequests, NEW s \in Scopes, CreateOtp(q, s)
  PROVE  VerificationInv'
<1> USE VerificationConstants, CodesNumbered
<1> DEFINE row == [scope |-> s, attempts |-> 0, verified |-> FALSE, expired |-> FALSE]
           n == Len(codes) + 1
<1>1. /\ requesting[q] = "create" /\ requesting' = [requesting EXCEPT ![q] = "sent"] /\ codes' = Append(codes, row)
      /\ UNCHANGED <<answer, compared, opened, crowdedCall, crowded, verificationFaults>>
  BY DEF CreateOtp
<1>2. row \in CodeRows
  BY DEF CodeRows
<1>3. /\ codes' \in Seq(CodeRows) /\ Len(codes') = n /\ DOMAIN codes' = 1..n
      /\ codes'[n] = row /\ \A k \in DOMAIN codes : codes'[k] = codes[k]
  BY <1>1, <1>2, AppendProperties
<1>4. Sent' = Sent \cup {q} /\ q \notin Sent
  BY <1>1 DEF VerificationInv, VerificationTypeOK, Sent
<1>5. Cardinality(Sent') = Cardinality(Sent) + 1 /\ Sent' \subseteq CodeRequests
  BY <1>4, SentIsFinite, FS_AddElement
<1>6. Len(codes') = Cardinality(Sent') /\ Cardinality(Sent') <= Cardinality(CodeRequests)
  BY <1>3, <1>5, FS_Subset DEF VerificationInv, CodesCounted
<1>7. n \in CodeNumbers /\ n \notin DOMAIN codes
  BY <1>3, <1>6 DEF CodeNumbers
<1>8. VerificationTypeOK'
  BY <1>1, <1>3, <1>6 DEF VerificationInv, VerificationTypeOK
<1>9. CodesCounted'
  BY <1>1, <1>3, <1>6 DEF VerificationInv, VerificationTypeOK, CodesCounted
<1>10. AnswersTold'
  BY <1>1, <1>3 DEF VerificationInv, AnswersTold
<1>11. compared[n] = {} /\ opened[n] = {} /\ Cardinality(compared[n]) = 0
  BY <1>7, FS_EmptySet DEF VerificationInv, CodesTold
<1>12. CodesTold'
  <2>1. \A k \in DOMAIN codes' : k = n \/ k \in DOMAIN codes
    BY <1>3
  <2>2. row.attempts = 0 /\ ~row.verified
    OBVIOUS
  <2> HIDE DEF row, n
  <2>3. \A k \in DOMAIN codes' : Cardinality(compared[k]) = codes'[k].attempts
    BY <1>1, <1>3, <1>11, <2>1, <2>2 DEF VerificationInv, CodesTold
  <2>4. \A k \in DOMAIN codes' : codes'[k].verified => opened[k] # {}
    BY <1>1, <1>3, <1>11, <2>1, <2>2 DEF VerificationInv, CodesTold
  <2>5. \A k \in DOMAIN codes' : opened[k] # {} => codes'[k].verified
    BY <1>1, <1>3, <1>11, <2>1, <2>2 DEF VerificationInv, CodesTold
  <2>6. DOMAIN codes \subseteq DOMAIN codes'
    BY <1>3 DEF n
  <2> QED BY <1>1, <2>3, <2>4, <2>5, <2>6 DEF VerificationInv, CodesTold
<1>13. OneAnswers'
  <2>1. \A k \in DOMAIN codes' : k = n \/ k \in DOMAIN codes
    BY <1>3
  <2>2. \A k \in CodeNumbers : Answering(k)' = Answering(k)
    BY <1>1 DEF Answering
  <2>3. Answering(n) = {}
    BY <1>7 DEF Answering, VerificationInv, AnswersTold
  <2> QED BY <1>1, <1>3, <1>7, <1>11, <2>1, <2>2, <2>3 DEF VerificationInv, OneAnswers
<1> QED BY <1>8, <1>9, <1>10, <1>12, <1>13 DEF VerificationInv

\* A code that expires is not answered any more.
LEMMA ExpireCodeStep ==
  ASSUME VerificationInv, NEW k \in CodeNumbers, ExpireCode(k)
  PROVE  VerificationInv'
<1> USE VerificationConstants, CodesNumbered
<1>1. /\ k \in DOMAIN codes /\ codes' = [codes EXCEPT ![k].expired = TRUE]
      /\ UNCHANGED <<requesting, answer, compared, opened, crowdedCall, crowded, verificationFaults>>
  BY DEF ExpireCode
<1>2. /\ codes' \in Seq(CodeRows) /\ Len(codes') = Len(codes) /\ DOMAIN codes' = DOMAIN codes
      /\ \A j \in DOMAIN codes : codes'[j].attempts = codes[j].attempts /\ codes'[j].verified = codes[j].verified
  <2>1. [codes[k] EXCEPT !.expired = TRUE] \in CodeRows
    BY <1>1 DEF CodeRows
  <2> QED BY <1>1, <2>1, ExceptSeq DEF CodeRows
<1>3. VerificationTypeOK'
  BY <1>1, <1>2 DEF VerificationInv, VerificationTypeOK
<1>4. Sent' = Sent /\ \A j \in DOMAIN codes : Answering(j)' = Answering(j)
  BY <1>1 DEF Sent, Answering
<1> QED BY <1>1, <1>2, <1>3, <1>4 DEF VerificationInv, CodesCounted, AnswersTold, CodesTold,
    OneAnswers

-----------------------------------------------------------------------------
(* An answer *)

\* An answer finds a code that has attempts left.
LEMMA FindCodeStep ==
  ASSUME VerificationInv, NEW v \in Verifies, NEW s \in Scopes, NEW given \in {0} \cup DOMAIN codes,
         FindCode(v, s, given)
  PROVE  VerificationInv'
<1> USE VerificationConstants, CodesNumbered
<1>0. answer[v].at = "idle" /\ UNCHANGED <<codes, requesting, compared, opened, crowdedCall, verificationFaults>>
      /\ answer \in [Verifies -> [at : {"idle", "attempt", "stamp", "done"}, code : {0} \cup CodeNumbers,
                                  right : BOOLEAN]]
      /\ \A k \in CodeNumbers : v \notin compared[k] /\ v \notin opened[k]
  BY DEF FindCode, VerificationInv, VerificationTypeOK, AnswersTold
<1>1. CASE answer' = [answer EXCEPT ![v].at = "done"] /\ UNCHANGED crowded
  <2>1. VerificationTypeOK'
    BY <1>0, <1>1 DEF VerificationInv, VerificationTypeOK
  <2>2. Sent' = Sent /\ \A j \in DOMAIN codes : Answering(j)' = Answering(j)
    BY <1>0, <1>1 DEF Sent, Answering
  <2>3. AnswersTold'
    BY <1>0, <1>1 DEF VerificationInv, VerificationTypeOK, AnswersTold
  <2>4. OneAnswers'
    BY <1>0, <1>1, <2>2 DEF VerificationInv, OneAnswers, Answering
  <2> QED BY <1>0, <1>1, <2>1, <2>2, <2>3, <2>4 DEF VerificationInv, CodesCounted, CodesTold
<1>2. ASSUME NEW k \in Unverified(s), MayAttempt(k),
             answer' = [answer EXCEPT ![v] = [at |-> "attempt", code |-> k, right |-> given = k]],
             crowded' = IF Answering(k) = {} THEN crowded ELSE crowded \cup {k}
      PROVE  VerificationInv'
  <2>1. k \in DOMAIN codes /\ k \in CodeNumbers /\ ~codes[k].verified /\ codes[k].attempts < AttemptLimit
    BY <1>2 DEF Unverified, MayAttempt
  <2>2. PICK right \in BOOLEAN : answer' = [answer EXCEPT ![v] = [at |-> "attempt", code |-> k, right |-> right]]
    BY <1>2
  <2>3. VerificationTypeOK'
    <3>1. [at |-> "attempt", code |-> k, right |-> right] \in
            [at : {"idle", "attempt", "stamp", "done"}, code : {0} \cup CodeNumbers, right : BOOLEAN]
      BY <2>1
    <3>2. crowded' \subseteq CodeNumbers
      BY <1>2, <2>1 DEF VerificationInv, VerificationTypeOK
    <3> QED BY <1>0, <2>2, <3>1, <3>2 DEF VerificationInv, VerificationTypeOK
  <2>4. \A j \in DOMAIN codes : Answering(j)' = IF j = k THEN Answering(j) \cup {v} ELSE Answering(j)
    BY <1>0, <2>2 DEF Answering
  <2>5. AnswersTold'
    BY <1>0, <2>1, <2>2 DEF VerificationInv, AnswersTold
  <2>6. OneAnswers'
    <3> SUFFICES ASSUME NEW j \in DOMAIN codes, j \notin crowded'
                 PROVE  /\ codes[j].attempts <= AttemptLimit
                        /\ \A u, w \in Answering(j)' : u = w
                        /\ \A w \in Answering(j)' : ~codes[j].verified /\ (answer'[w].at = "attempt" => codes[j].attempts < AttemptLimit)
                        /\ \A u, w \in opened[j] : u = w
      BY <1>0 DEF OneAnswers
    <3>1. j \notin crowded /\ (j = k => Answering(k) = {})
      BY <1>2
    <3>2. \A w \in Verifies : w # v => answer'[w] = answer[w]
      BY <1>0, <2>2
    <3> QED BY <2>1, <2>4, <3>1, <3>2 DEF VerificationInv, OneAnswers, Answering
  <2>7. Sent' = Sent
    BY <1>0 DEF Sent
  <2> QED BY <1>0, <2>3, <2>5, <2>6, <2>7 DEF VerificationInv, CodesCounted, CodesTold
<1> QED BY <1>0, <1>1, <1>2 DEF FindCode

\* An attempt is counted before the digits are compared.
LEMMA CountAttemptStep ==
  ASSUME VerificationInv, NEW v \in Verifies, CountAttempt(v)
  PROVE  VerificationInv'
<1> USE VerificationConstants, CodesNumbered
<1> DEFINE k == answer[v].code
<1>1. /\ answer[v].at = "attempt" /\ codes' = [codes EXCEPT ![k].attempts = @ + 1]
      /\ compared' = [compared EXCEPT ![k] = @ \cup {v}]
      /\ UNCHANGED <<requesting, opened, crowdedCall, crowded, verificationFaults>>
      /\ k \in DOMAIN codes /\ k \in CodeNumbers
      /\ \A j \in CodeNumbers : v \notin compared[j] /\ v \notin opened[j]
  BY DEF CountAttempt, VerificationInv, AnswersTold
<1>2. PICK to \in {"stamp", "done"} :
        answer' = [answer EXCEPT ![v].at = to] /\ (to = "stamp" => answer[v].right)
  BY DEF CountAttempt
<1>3. /\ codes' \in Seq(CodeRows) /\ Len(codes') = Len(codes) /\ DOMAIN codes' = DOMAIN codes
      /\ codes'[k].attempts = codes[k].attempts + 1
      /\ \A j \in DOMAIN codes : codes'[j].verified = codes[j].verified /\ (j # k => codes'[j] = codes[j])
  <2>0. codes[k] \in CodeRows
    BY <1>1
  <2>1. [codes[k] EXCEPT !.attempts = @ + 1] \in CodeRows
    BY <2>0 DEF CodeRows
  <2> QED BY <1>1, <2>0, <2>1, ExceptSeq DEF CodeRows
<1> HIDE DEF k
<1>4. VerificationTypeOK'
  <2>1. answer' \in [Verifies -> AnswerStates]
    BY <1>2 DEF VerificationInv, VerificationTypeOK, AnswerStates
  <2>2. compared' \in [CodeNumbers -> SUBSET Verifies]
    BY <1>1 DEF VerificationInv, VerificationTypeOK
  <2> QED BY <1>1, <1>3, <2>1, <2>2 DEF VerificationInv, VerificationTypeOK, AnswerStates
<1>5. compared'[k] = compared[k] \cup {v} /\ \A j \in CodeNumbers : j # k => compared'[j] = compared[j]
  BY <1>1 DEF VerificationInv, VerificationTypeOK
<1>6. IsFiniteSet(compared'[k]) /\ Cardinality(compared'[k]) = Cardinality(compared[k]) + 1
  <2>1. IsFiniteSet(compared[k]) /\ v \notin compared[k]
    BY <1>1 DEF VerificationInv, CodesTold
  <2> QED BY <1>5, <2>1, FS_AddElement
<1>7. \A w \in Verifies : w # v => answer'[w] = answer[w]
  BY <1>2 DEF VerificationInv, VerificationTypeOK
<1>8. answer'[v].at = to /\ answer'[v].code = k /\ answer'[v].right = answer[v].right
  BY <1>2 DEF VerificationInv, VerificationTypeOK, k
<1>9. AnswersTold'
  <2>1. \A w \in Verifies : answer'[w].at \in {"attempt", "stamp"} => answer'[w].code \in DOMAIN codes'
    BY <1>1, <1>3, <1>7, <1>8 DEF VerificationInv, AnswersTold
  <2>2. \A w \in Verifies : answer'[w].at = "stamp" => answer'[w].right
    BY <1>2, <1>7, <1>8 DEF VerificationInv, AnswersTold
  <2>3. \A j \in CodeNumbers : \A w \in compared'[j] : answer'[w].at \in {"stamp", "done"} /\ answer'[w].code = j
    BY <1>1, <1>5, <1>7, <1>8 DEF VerificationInv, VerificationTypeOK, AnswersTold
  <2>4. \A j \in CodeNumbers : \A w \in opened[j] :
          answer'[w].at = "done" /\ answer'[w].code = j /\ answer'[w].right /\ j \in DOMAIN codes
    BY <1>1, <1>7 DEF VerificationInv, VerificationTypeOK, AnswersTold
  <2> QED BY <1>1, <1>3, <2>1, <2>2, <2>3, <2>4 DEF AnswersTold
<1>10. CodesTold'
  <2>1. \A j \in CodeNumbers : IsFiniteSet(compared'[j])
    BY <1>5, <1>6 DEF VerificationInv, CodesTold
  <2>2. \A j \in CodeNumbers : j \notin DOMAIN codes => compared'[j] = {} /\ opened'[j] = {}
    BY <1>1, <1>5 DEF VerificationInv, CodesTold
  <2>3. \A j \in DOMAIN codes : Cardinality(compared'[j]) = codes'[j].attempts
    BY <1>1, <1>3, <1>5, <1>6 DEF VerificationInv, CodesTold
  <2>4. \A j \in DOMAIN codes : (codes'[j].verified => opened'[j] # {}) /\ (opened'[j] # {} => codes'[j].verified)
    BY <1>1, <1>3 DEF VerificationInv, CodesTold
  <2> QED BY <1>1, <1>3, <2>1, <2>2, <2>3, <2>4 DEF CodesTold
<1>11. OneAnswers'
  <2>1. \A j \in DOMAIN codes : Answering(j)' \subseteq Answering(j)
    BY <1>1, <1>2, <1>7, <1>8 DEF Answering, k
  <2>2. v \in Answering(k)
    BY <1>1 DEF Answering, k
  <2> QED BY <1>1, <1>2, <1>3, <1>7, <1>8, <2>1, <2>2 DEF VerificationInv, OneAnswers, Answering,
      CodeRows
<1>12. CodesCounted'
  BY <1>1, <1>3 DEF VerificationInv, CodesCounted, Sent
<1> QED BY <1>4, <1>9, <1>10, <1>11, <1>12 DEF VerificationInv

\* A right answer verifies its code.
LEMMA StampVerifiedStep ==
  ASSUME VerificationInv, NEW v \in Verifies, StampVerified(v)
  PROVE  VerificationInv'
<1> USE VerificationConstants, CodesNumbered
<1> DEFINE k == answer[v].code
<1>1. /\ answer[v].at = "stamp" /\ answer' = [answer EXCEPT ![v].at = "done"]
      /\ codes' = [codes EXCEPT ![k].verified = TRUE]
      /\ opened' = [opened EXCEPT ![k] = @ \cup {v}]
      /\ UNCHANGED <<requesting, compared, crowdedCall, crowded, verificationFaults>>
      /\ k \in DOMAIN codes /\ k \in CodeNumbers /\ answer[v].right
      /\ \A j \in CodeNumbers : v \notin opened[j]
  BY DEF StampVerified, VerificationInv, AnswersTold
<1>2. /\ codes' \in Seq(CodeRows) /\ Len(codes') = Len(codes) /\ DOMAIN codes' = DOMAIN codes
      /\ codes'[k].verified /\ \A j \in DOMAIN codes : codes'[j].attempts = codes[j].attempts
      /\ \A j \in DOMAIN codes : j # k => codes'[j] = codes[j]
  <2>1. [codes[k] EXCEPT !.verified = TRUE] \in CodeRows
    BY <1>1 DEF CodeRows
  <2> QED BY <1>1, <2>1, ExceptSeq DEF CodeRows
<1> HIDE DEF k
<1>3. VerificationTypeOK'
  <2>1. answer' \in [Verifies -> AnswerStates]
    BY <1>1 DEF VerificationInv, VerificationTypeOK, AnswerStates
  <2>2. opened' \in [CodeNumbers -> SUBSET Verifies]
    BY <1>1 DEF VerificationInv, VerificationTypeOK
  <2> QED BY <1>1, <1>2, <2>1, <2>2 DEF VerificationInv, VerificationTypeOK, AnswerStates
<1>4. opened'[k] = opened[k] \cup {v} /\ \A j \in CodeNumbers : j # k => opened'[j] = opened[j]
  BY <1>1 DEF VerificationInv, VerificationTypeOK
<1>5. \A w \in Verifies : w # v => answer'[w] = answer[w]
  BY <1>1 DEF VerificationInv, VerificationTypeOK
<1>6. answer'[v].at = "done" /\ answer'[v].code = k /\ answer'[v].right
  BY <1>1 DEF VerificationInv, VerificationTypeOK, k
<1>7. AnswersTold'
  BY <1>1, <1>2, <1>4, <1>5, <1>6 DEF VerificationInv, VerificationTypeOK, AnswersTold
<1>8. CodesTold'
  BY <1>1, <1>2, <1>4 DEF VerificationInv, CodesTold
<1>9. OneAnswers'
  <2>1. \A j \in DOMAIN codes : Answering(j)' = Answering(j) \ {v}
    BY <1>5, <1>6 DEF Answering
  <2>2. v \in Answering(k)
    BY <1>1 DEF Answering, k
  <2>0. k' = k
    BY <1>6 DEF k
  <2>3. ASSUME k \notin crowded PROVE opened[k] = {} /\ Answering(k)' = {}
    <3>1. ~codes[k].verified /\ \A u, w \in Answering(k) : u = w
      BY <1>1, <2>2, <2>3 DEF VerificationInv, OneAnswers
    <3>2. opened[k] = {}
      BY <1>1, <3>1 DEF VerificationInv, CodesTold
    <3>3. Answering(k) \ {v} = {}
      BY <2>2, <3>1
    <3> QED BY <1>1, <2>0, <2>1, <3>2, <3>3
  <2>4. \A j \in DOMAIN codes : j \notin crowded => codes'[j].attempts <= AttemptLimit
    BY <1>2 DEF VerificationInv, OneAnswers
  <2>5. \A j \in DOMAIN codes : j \notin crowded => \A u, w \in Answering(j)' : u = w
    BY <2>1 DEF VerificationInv, OneAnswers
  <2>6. \A j \in DOMAIN codes : j \notin crowded =>
          \A w \in Answering(j)' : ~codes'[j].verified /\ (answer'[w].at = "attempt" => codes'[j].attempts < AttemptLimit)
    <3> SUFFICES ASSUME NEW j \in DOMAIN codes, j \notin crowded, NEW w \in Answering(j)'
                 PROVE  ~codes'[j].verified /\ (answer'[w].at = "attempt" => codes'[j].attempts < AttemptLimit)
      OBVIOUS
    <3>0. w \in Answering(j) \ {v} /\ (k \notin crowded => w \notin Answering(k) \ {v})
      BY <1>1, <2>0, <2>1, <2>3
    <3>1. j # k /\ w \in Answering(j) /\ w # v /\ w \in Verifies
      BY <3>0 DEF Answering
    <3> QED BY <1>2, <1>5, <3>1 DEF VerificationInv, OneAnswers
  <2>7. \A j \in DOMAIN codes : j \notin crowded => \A u, w \in opened'[j] : u = w
    BY <1>1, <1>4, <2>3 DEF VerificationInv, OneAnswers
  <2> QED BY <1>1, <1>2, <2>4, <2>5, <2>6, <2>7 DEF OneAnswers
<1>10. CodesCounted'
  BY <1>1, <1>2 DEF VerificationInv, CodesCounted, Sent
<1> QED BY <1>3, <1>7, <1>8, <1>9, <1>10 DEF VerificationInv

\* An answer that fails leaves the code as it is.
LEMMA VerifyFailsStep ==
  ASSUME VerificationInv, NEW v \in Verifies, VerifyFails(v)
  PROVE  VerificationInv'
<1> USE VerificationConstants, CodesNumbered
<1>1. /\ answer[v].at \in {"attempt", "stamp"} /\ answer' = [answer EXCEPT ![v].at = "done"]
      /\ verificationFaults' \in 0..VerificationFaults
      /\ UNCHANGED <<codes, requesting, compared, opened, crowdedCall, crowded>>
  BY DEF VerifyFails, VerificationInv, VerificationTypeOK
<1>2. VerificationTypeOK'
  BY <1>1 DEF VerificationInv, VerificationTypeOK
<1>3. \A w \in Verifies : w # v => answer'[w] = answer[w]
  BY <1>1 DEF VerificationInv, VerificationTypeOK
<1>4. answer'[v].at = "done" /\ answer'[v].code = answer[v].code /\ answer'[v].right = answer[v].right
  BY <1>1 DEF VerificationInv, VerificationTypeOK
<1>5. AnswersTold'
  BY <1>1, <1>3, <1>4 DEF VerificationInv, VerificationTypeOK, AnswersTold
<1>6. \A j \in DOMAIN codes : Answering(j)' = Answering(j) \ {v}
  BY <1>3, <1>4 DEF Answering
<1>7. OneAnswers'
  BY <1>1, <1>3, <1>6 DEF VerificationInv, OneAnswers, Answering
<1>8. CodesCounted' /\ CodesTold'
  BY <1>1 DEF VerificationInv, CodesCounted, CodesTold, Sent
<1> QED BY <1>2, <1>5, <1>7, <1>8 DEF VerificationInv

\* Every step keeps the counts of codes and attempts.
LEMMA VerificationStep == ASSUME VerificationInv, [VerificationNext]_verificationVars PROVE VerificationInv'
<1>1. CASE UNCHANGED verificationVars
  <2>1. UNCHANGED <<codes, requesting, answer, compared, opened, crowdedCall, crowded, verificationFaults>>
    BY <1>1 DEF verificationVars
  <2>2. VerificationTypeOK'
    BY <2>1 DEF VerificationInv, VerificationTypeOK
  <2>3. CodesCounted'
    BY <2>1 DEF VerificationInv, CodesCounted, Sent
  <2>4. AnswersTold' /\ CodesTold'
    BY <2>1 DEF VerificationInv, AnswersTold, CodesTold
  <2>5. OneAnswers'
    BY <2>1 DEF VerificationInv, OneAnswers, Answering
  <2> QED BY <2>2, <2>3, <2>4, <2>5 DEF VerificationInv
<1> QED BY <1>1, CountCodesStep, CreateOtpStep, ExpireCodeStep, FindCodeStep, CountAttemptStep,
    StampVerifiedStep,
           VerifyFailsStep DEF VerificationNext

\* Codes, requests and answers are what the code can store (verification.service.ts).
THEOREM VerificationTypeCorrect == VerificationSpec => []VerificationTypeOK
<1>1. VerificationInv => VerificationTypeOK
  BY DEF VerificationInv
<1> QED BY <1>1, VerificationStart, VerificationStep, PTL DEF VerificationSpec

\* Codes and attempts stay within their limits, and a code opens once (verification.service.ts).
THEOREM VerificationCorrect == VerificationSpec => []VerificationHolds
BY VerificationStart, VerificationStep, VerificationSuffices, PTL DEF VerificationSpec

-----------------------------------------------------------------------------
(* Budgets *)

\* Limits, costs and budgets are numbers.
LEMMA SpendingConstants ==
  /\ IsFiniteSet(PaidCalls) /\ LineLimit \in Nat /\ CallCost \in Nat /\ BatchSize \in Nat /\ SpendFaults \in Nat
  /\ CallBudgets \subseteq Nat /\ TextBudgets \subseteq Nat /\ \A m \in TextBudgets : m > 0
<1>1. IsFiniteSet(PaidCalls) /\ CallBudgets \subseteq Nat /\ TextBudgets \subseteq Nat \ {0}
  BY SpendingAssumption, Zenon
<1>2. LineLimit \in Nat /\ CallCost \in Nat /\ BatchSize \in Nat /\ SpendFaults \in Nat
  <2>1. {LineLimit, CallCost, BatchSize, SpendFaults} \subseteq Nat
    BY SpendingAssumption, Zenon
  <2> QED BY <2>1
<1>3. TextBudgets \subseteq Nat /\ \A m \in TextBudgets : m > 0
  BY <1>1
<1> QED BY <1>1, <1>2, <1>3

OpenCalls == {o \in PaidCalls : paidCall[o] = "open"}
OpenLines == Cardinality(OpenCalls)

\* What the calls on some lines may cost at most.
CostOf(lines) == CallCost * lines

\* More lines may cost more, by the cost of a call each.
LEMMA CostGrows ==
  ASSUME NEW n \in Nat, NEW m \in Nat, n <= m
  PROVE  CostOf(n) \in Nat /\ CostOf(m) \in Nat /\ CostOf(n) <= CostOf(m) /\ CostOf(n + 1) = CostOf(n) + CallCost
<1> USE SpendingConstants
<1> DEFINE d == m - n
<1>1. d \in Nat /\ m = n + d
  OBVIOUS
<1> HIDE DEF d
<1>2. CallCost * m = CallCost * n + CallCost * d /\ CallCost * (n + 1) = CallCost * n + CallCost
  BY <1>1
<1>3. CallCost * d \in Nat /\ CallCost * n \in Nat /\ CallCost * m \in Nat
  BY <1>1
<1> QED BY <1>2, <1>3 DEF CostOf

Checked == {"day", "month"}

\* Without overlap one call is being checked, and there is a line for it; what is spent and
\* what the open lines may still cost is within the bound, and with the line it takes, for
\* a call that has passed the check of the day.
CallsBounded ==
  "calls" \notin excused =>
    /\ OpenLines <= LineLimit
    /\ \A c, o \in PaidCalls : paidCall[c] \in Checked /\ paidCall[o] \in Checked => c = o
    /\ \A c \in PaidCalls : paidCall[c] \in Checked => OpenLines + 1 <= LineLimit
    /\ \A p \in Periods : callBudget[p] > 0 => calls[p] + CostOf(OpenLines) <= callBudget[p] - 1 + CostOf(LineLimit)
    /\ \A c \in PaidCalls : paidCall[c] = "month" /\ callBudget["day"] > 0 =>
         calls["day"] + CostOf(OpenLines) + CallCost <= callBudget["day"] - 1 + CostOf(LineLimit)

\* The same of batches of texts, whose sum is what was really spent.
Working == {"month", "work"}
TextsBounded ==
  "texts" \notin excused =>
    /\ \A p \in Periods : spent[p] = texts[p] /\ spent[p] <= textBudget[p] - 1 + BatchSize
    /\ \A b, o \in Preparers : batch[b].at \in Working /\ batch[o].at \in Working => b = o
    /\ \A b \in Preparers : batch[b].at = "month" => texts["day"] <= textBudget["day"] - 1
    /\ \A b \in Preparers : batch[b].at = "work" =>
         /\ batch[b].left > 0
         /\ \A p \in Periods : spent[p] + batch[b].left <= textBudget[p] - 1 + BatchSize

SpendingInv == SpendingTypeOK /\ CallsBounded /\ TextsBounded /\ PricedOrRefused

\* Nothing is spent and no line is open.
LEMMA SpendingStart == SpendingInit => SpendingInv
<1> SUFFICES ASSUME SpendingInit PROVE SpendingInv
  OBVIOUS
<1> USE SpendingConstants
<1>1. OpenCalls = {} /\ OpenLines = 0
  BY FS_EmptySet DEF SpendingInit, OpenCalls, OpenLines
<1>2. CostOf(0) = 0 /\ CostOf(LineLimit) \in Nat
  BY CostGrows DEF CostOf
<1>3. 0 \in 0..SpendFaults /\ 0 \in 0..BatchSize /\ Zero \in Sums
  BY DEF Zero, Sums
<1>4. SpendingTypeOK
  BY <1>3 DEF SpendingInit, SpendingTypeOK
<1>5. \A p \in Periods : /\ calls[p] = 0 /\ texts[p] = 0 /\ spent[p] = 0
                         /\ callBudget[p] \in Nat /\ textBudget[p] \in Nat /\ textBudget[p] > 0
  BY <1>4 DEF SpendingInit, SpendingTypeOK, Zero
<1>8. /\ \A c \in PaidCalls : paidCall[c] = "idle" /\ paidCall[c] \notin Checked
      /\ \A b \in Preparers : batch[b].at = "idle" /\ batch[b].at \notin Working
  BY DEF SpendingInit, Checked, Working
<1>9. CallsBounded
  BY <1>1, <1>2, <1>5, <1>8 DEF CallsBounded
<1>6. TextsBounded
  BY <1>5, <1>8 DEF TextsBounded
<1>7. PricedOrRefused
  BY DEF SpendingInit, PricedOrRefused
<1> QED BY <1>4, <1>6, <1>7, <1>9 DEF SpendingInv

\* The bound of the invariant is the one that is promised.
LEMMA SpendingSuffices == SpendingInv => SpendingHolds
<1> SUFFICES ASSUME SpendingInv PROVE SpendingHolds
  OBVIOUS
<1> USE SpendingConstants
<1>1. IsFiniteSet(OpenCalls) /\ OpenLines \in Nat
  BY FS_Subset, FS_CardinalityType DEF OpenCalls, OpenLines
<1>2. CostOf(OpenLines) \in Nat /\ CostOf(LineLimit) = LineLimit * CallCost
  BY <1>1, CostGrows DEF CostOf
<1>3. CallOverrunBounded
  <2> SUFFICES ASSUME "calls" \notin excused, NEW p \in Periods, callBudget[p] > 0
               PROVE  calls[p] <= callBudget[p] - 1 + LineLimit * CallCost
    BY DEF CallOverrunBounded
  <2>1. calls[p] \in Nat /\ callBudget[p] \in Nat
    BY DEF SpendingInv, SpendingTypeOK, Sums
  <2>2. calls[p] + CostOf(OpenLines) <= callBudget[p] - 1 + CostOf(LineLimit)
    BY DEF SpendingInv, CallsBounded
  <2>3. CostOf(LineLimit) \in Nat
    BY CostGrows
  <2> QED BY <1>2, <2>1, <2>2, <2>3
<1>4. TextOverrunBounded
  BY DEF SpendingInv, TextsBounded, TextOverrunBounded
<1> QED BY <1>3, <1>4 DEF SpendingInv, SpendingHolds

\* The lines after a step of a call.
LEMMA LinesChange ==
  ASSUME SpendingInv, NEW c \in PaidCalls, NEW to, paidCall' = [paidCall EXCEPT ![c] = to]
  PROVE  /\ OpenLines \in Nat /\ OpenLines' \in Nat /\ IsFiniteSet(OpenCalls)
         /\ paidCall[c] # "open" /\ to # "open" => OpenLines' = OpenLines
         /\ paidCall[c] # "open" /\ to = "open" => OpenLines' = OpenLines + 1
         /\ paidCall[c] = "open" /\ to # "open" => OpenLines = OpenLines' + 1
<1> USE SpendingConstants
<1>1. IsFiniteSet(OpenCalls) /\ OpenLines \in Nat /\ IsFiniteSet(OpenCalls') /\ OpenLines' \in Nat
  BY FS_Subset, FS_CardinalityType DEF OpenCalls, OpenLines
<1>2. paidCall'[c] = to /\ \A o \in PaidCalls : o # c => paidCall'[o] = paidCall[o]
  BY DEF SpendingInv, SpendingTypeOK
<1>3. CASE paidCall[c] # "open" /\ to # "open"
  <2>1. OpenCalls' = OpenCalls
    BY <1>2, <1>3 DEF OpenCalls
  <2> QED BY <1>1, <1>3, <2>1 DEF OpenLines
<1>4. CASE paidCall[c] # "open" /\ to = "open"
  <2>1. OpenCalls' = OpenCalls \cup {c} /\ c \notin OpenCalls
    BY <1>2, <1>4 DEF OpenCalls
  <2> QED BY <1>1, <1>4, <2>1, FS_AddElement DEF OpenLines
<1>5. CASE paidCall[c] = "open" /\ to # "open"
  <2>1. OpenCalls = OpenCalls' \cup {c} /\ c \notin OpenCalls'
    BY <1>2, <1>5 DEF OpenCalls
  <2> QED BY <1>1, <1>5, <2>1, FS_AddElement DEF OpenLines
<1> QED BY <1>1, <1>3, <1>4, <1>5

\* The steps of a call say nothing of texts, nor those of texts of calls.
LEMMA TextsKept ==
  ASSUME SpendingInv, UNCHANGED <<textSide, textBudget>>, "texts" \in excused => "texts" \in excused'
  PROVE  TextsBounded'
BY DEF SpendingInv, TextsBounded, textSide

\* What does not admit, open or end a call keeps the bound on calls.
LEMMA CallsKept ==
  ASSUME SpendingInv, UNCHANGED <<callSide, callBudget, priced>>, "calls" \in excused => "calls" \in excused'
  PROVE  CallsBounded' /\ PricedOrRefused'
<1>1. OpenLines' = OpenLines
  BY DEF OpenLines, OpenCalls, callSide
<1> QED BY <1>1 DEF SpendingInv, CallsBounded, CostOf, PricedOrRefused, HasBudget, callSide

-----------------------------------------------------------------------------
(* Calls *)

\* A call is admitted where a line is free.
LEMMA AdmitCallStep ==
  ASSUME SpendingInv, NEW c \in PaidCalls, AdmitCall(c)
  PROVE  SpendingInv'
<1> USE SpendingConstants
<1>1. PICK to \in {"refused", "day"} :
        /\ paidCall[c] = "idle" /\ paidCall' = [paidCall EXCEPT ![c] = to]
        /\ to = "day" => ~(OpenLines >= LineLimit) /\ ~(HasBudget /\ ~priced)
  BY DEF AdmitCall, Become, OpenLines, OpenCalls
<1>2. /\ excused' \in {excused, excused \cup {"calls"}}
      /\ "calls" \notin excused' => "calls" \notin excused /\ \A o \in PaidCalls : paidCall[o] \notin Checked
      /\ UNCHANGED <<settings, calls, replies, textSide, spendFaults>>
  BY DEF AdmitCall, Checked
<1>3. SpendingTypeOK'
  BY <1>1, <1>2 DEF SpendingInv, SpendingTypeOK, settings, textSide
<1>4. OpenLines' = OpenLines /\ OpenLines \in Nat
  BY <1>1, LinesChange
<1>5. \A o \in PaidCalls : o # c => paidCall'[o] = paidCall[o]
  BY <1>1 DEF SpendingInv, SpendingTypeOK
<1>6. paidCall'[c] = to
  BY <1>1 DEF SpendingInv, SpendingTypeOK
<1>7. CallsBounded'
  BY <1>1, <1>2, <1>4, <1>5, <1>6 DEF SpendingInv, CallsBounded, Checked, CostOf, settings
<1>8. PricedOrRefused'
  BY <1>1, <1>2, <1>5, <1>6 DEF SpendingInv, PricedOrRefused, HasBudget, settings
<1>9. TextsBounded'
  BY <1>2, TextsKept DEF settings
<1> QED BY <1>3, <1>7, <1>8, <1>9 DEF SpendingInv

\* The budget of the day is looked at.
LEMMA CheckDayStep ==
  ASSUME SpendingInv, NEW c \in PaidCalls, CheckDay(c)
  PROVE  SpendingInv'
<1> USE SpendingConstants
<1>1. PICK to \in {"refused", "month"} :
        /\ paidCall[c] = "day" /\ paidCall' = [paidCall EXCEPT ![c] = to]
        /\ to = "month" => ~Reached("day")
        /\ UNCHANGED <<settings, calls, replies, textSide, excused, spendFaults>>
  BY DEF CheckDay, Become
<1>2. SpendingTypeOK'
  BY <1>1 DEF SpendingInv, SpendingTypeOK, settings, textSide
<1>3. OpenLines' = OpenLines /\ OpenLines \in Nat
  BY <1>1, LinesChange
<1>4. paidCall'[c] = to /\ \A o \in PaidCalls : o # c => paidCall'[o] = paidCall[o]
  BY <1>1 DEF SpendingInv, SpendingTypeOK
<1>5. ASSUME "calls" \notin excused, to = "month", callBudget["day"] > 0
      PROVE  calls["day"] + CostOf(OpenLines) + CallCost <= callBudget["day"] - 1 + CostOf(LineLimit)
  <2>1. calls["day"] \in Nat /\ replies["day"] \in Nat /\ callBudget["day"] \in Nat
    BY DEF SpendingInv, SpendingTypeOK, Sums, Periods
  <2>2. calls["day"] <= callBudget["day"] - 1
    BY <1>1, <1>5, <2>1 DEF Reached
  <2>3. OpenLines + 1 <= LineLimit
    BY <1>1, <1>5 DEF SpendingInv, CallsBounded, Checked
  <2>4. CostOf(OpenLines) + CallCost = CostOf(OpenLines + 1) /\ CostOf(OpenLines) \in Nat
    BY <1>3, CostGrows
  <2>5. CostOf(OpenLines + 1) <= CostOf(LineLimit) /\ CostOf(LineLimit) \in Nat
    BY <1>3, <2>3, CostGrows
  <2> QED BY <2>1, <2>2, <2>4, <2>5
<1>6. CallsBounded'
  BY <1>1, <1>3, <1>4, <1>5 DEF SpendingInv, CallsBounded, Checked, CostOf, settings
<1>7. PricedOrRefused'
  BY <1>1, <1>4 DEF SpendingInv, PricedOrRefused, HasBudget, settings
<1>8. TextsBounded'
  BY <1>1, TextsKept DEF settings
<1> QED BY <1>2, <1>6, <1>7, <1>8 DEF SpendingInv

\* The budget of the month is looked at, and the line is taken.
LEMMA CheckMonthStep ==
  ASSUME SpendingInv, NEW c \in PaidCalls, CheckMonth(c)
  PROVE  SpendingInv'
<1> USE SpendingConstants
<1>1. PICK to \in {"refused", "open"} :
        /\ paidCall[c] = "month" /\ paidCall' = [paidCall EXCEPT ![c] = to]
        /\ to = "open" => ~Reached("month")
        /\ UNCHANGED <<settings, calls, replies, textSide, excused, spendFaults>>
  BY DEF CheckMonth, Become
<1>2. SpendingTypeOK'
  BY <1>1 DEF SpendingInv, SpendingTypeOK, settings, textSide
<1>3. OpenLines \in Nat /\ (to = "open" => OpenLines' = OpenLines + 1) /\ (to = "refused" => OpenLines' = OpenLines)
  BY <1>1, LinesChange
<1>4. paidCall'[c] = to /\ \A o \in PaidCalls : o # c => paidCall'[o] = paidCall[o]
  BY <1>1 DEF SpendingInv, SpendingTypeOK
<1>5. "calls" \notin excused => \A o \in PaidCalls : o # c => paidCall[o] \notin Checked
  BY <1>1 DEF SpendingInv, CallsBounded, Checked
<1>6. CostOf(OpenLines + 1) = CostOf(OpenLines) + CallCost /\ CostOf(OpenLines) \in Nat
  BY <1>3, CostGrows
<1>7. ASSUME "calls" \notin excused, NEW p \in Periods, callBudget[p] > 0, to = "open"
      PROVE  calls[p] + CostOf(OpenLines + 1) <= callBudget[p] - 1 + CostOf(LineLimit)
  <2>1. calls[p] \in Nat /\ replies[p] \in Nat /\ callBudget[p] \in Nat
    BY DEF SpendingInv, SpendingTypeOK, Sums
  <2>2. CASE p = "day"
    <3>1. calls[p] + CostOf(OpenLines) + CallCost <= callBudget[p] - 1 + CostOf(LineLimit)
      BY <1>1, <1>7, <2>2 DEF SpendingInv, CallsBounded
    <3> QED BY <1>6, <2>1, <3>1
  <2>3. CASE p = "month"
    <3>1. calls[p] <= callBudget[p] - 1
      BY <1>1, <1>7, <2>1, <2>3 DEF Reached
    <3>2. OpenLines + 1 <= LineLimit
      BY <1>1, <1>7 DEF SpendingInv, CallsBounded, Checked
    <3>3. CostOf(OpenLines + 1) <= CostOf(LineLimit) /\ CostOf(LineLimit) \in Nat /\ CostOf(OpenLines + 1) \in Nat
      BY <1>3, <3>2, CostGrows
    <3> QED BY <2>1, <3>1, <3>3
  <2> QED BY <2>2, <2>3 DEF Periods
<1>8. CallsBounded'
  <2> SUFFICES ASSUME "calls" \notin excused PROVE CallsBounded'
    BY <1>1 DEF CallsBounded
  <2>1. \A o \in PaidCalls : paidCall'[o] \notin Checked
    BY <1>4, <1>5 DEF Checked
  <2>2. OpenLines + 1 <= LineLimit
    BY <1>1 DEF SpendingInv, CallsBounded, Checked
  <2>3. OpenLines' <= LineLimit
    BY <1>3, <2>2
  <2>4. \A p \in Periods : callBudget[p] > 0 => calls[p] + CostOf(OpenLines') <= callBudget[p] - 1 + CostOf(LineLimit)
    <3>1. CASE to = "open"
      BY <1>3, <1>7, <3>1
    <3>2. CASE to = "refused"
      BY <1>3, <3>2 DEF SpendingInv, CallsBounded
    <3> QED BY <3>1, <3>2
  <2> QED BY <1>1, <2>1, <2>3, <2>4 DEF CallsBounded, CostOf, Checked, settings
<1>9. PricedOrRefused'
  BY <1>1, <1>4 DEF SpendingInv, PricedOrRefused, HasBudget, settings
<1>10. TextsBounded'
  BY <1>1, TextsKept DEF settings
<1> QED BY <1>2, <1>8, <1>9, <1>10 DEF SpendingInv

\* A call ends, and costs what it cost at most.
LEMMA CostRecorded ==
  ASSUME SpendingInv, NEW c \in PaidCalls,
         RecordFails(c) \/ \E cost \in 0..CallCost : RecordCall(c, cost)
  PROVE  SpendingInv'
<1> USE SpendingConstants
<1>1. PICK cost \in 0..CallCost :
        /\ paidCall[c] = "open" /\ paidCall' = [paidCall EXCEPT ![c] = "ended"]
        /\ calls' = Plus(calls, cost) /\ spendFaults' \in 0..SpendFaults
        /\ UNCHANGED <<settings, replies, textSide, excused>>
  <2>0. spendFaults \in 0..SpendFaults /\ calls \in [Periods -> Nat]
    BY DEF SpendingInv, SpendingTypeOK, Sums
  <2>1. Plus(calls, 0) = calls /\ 0 \in 0..CallCost
    BY <2>0 DEF Plus
  <2>2. CASE RecordFails(c)
    BY <2>0, <2>1, <2>2 DEF RecordFails, Become, SpendFault
  <2>3. ASSUME NEW cost \in 0..CallCost, RecordCall(c, cost)
        PROVE  \E paid \in 0..CallCost : calls' = Plus(calls, paid)
    BY <2>1, <2>3 DEF RecordCall
  <2> QED BY <2>0, <2>2, <2>3 DEF RecordCall, Become
<1>2. \A p \in Periods : calls'[p] = calls[p] + cost /\ calls[p] \in Nat /\ callBudget[p] \in Nat
  BY <1>1 DEF Plus, SpendingInv, SpendingTypeOK, Sums
<1>3. SpendingTypeOK'
  <2>1. calls' \in Sums
    BY <1>1, <1>2 DEF Plus, Sums
  <2> QED BY <1>1, <2>1 DEF SpendingInv, SpendingTypeOK, settings, textSide
<1>4. OpenLines \in Nat /\ OpenLines' \in Nat /\ OpenLines = OpenLines' + 1
  <2>1. PICK to \in {"ended"} : paidCall' = [paidCall EXCEPT ![c] = to]
    BY <1>1
  <2> QED BY <1>1, <2>1, LinesChange
<1>5. /\ CostOf(OpenLines) = CostOf(OpenLines') + CallCost /\ CostOf(OpenLines') \in Nat /\ CostOf(LineLimit) \in Nat
  BY <1>4, CostGrows
<1>6. paidCall'[c] = "ended" /\ \A o \in PaidCalls : o # c => paidCall'[o] = paidCall[o]
  BY <1>1 DEF SpendingInv, SpendingTypeOK
<1>7. CallsBounded'
  <2> SUFFICES ASSUME "calls" \notin excused PROVE CallsBounded'
    BY <1>1 DEF CallsBounded
  <2>0. OpenLines <= LineLimit /\ LineLimit \in Nat
    BY DEF SpendingInv, CallsBounded
  <2>1. OpenLines' <= LineLimit /\ OpenLines' + 1 <= LineLimit
    <3>1. \A m, n, k \in Nat : m = n + 1 /\ m <= k => n <= k /\ n + 1 <= k
      OBVIOUS
    <3> HIDE SpendingConstants
    <3> QED BY <1>4, <2>0, <3>1
  <2>2. \A o, x \in PaidCalls : paidCall'[o] \in Checked /\ paidCall'[x] \in Checked => o = x
    BY <1>6 DEF SpendingInv, CallsBounded, Checked
  <2>3. \A p \in Periods : callBudget[p] > 0 => calls'[p] + CostOf(OpenLines') <= callBudget[p] - 1 + CostOf(LineLimit)
    BY <1>2, <1>5 DEF SpendingInv, CallsBounded
  <2>4. \A o \in PaidCalls : paidCall'[o] = "month" /\ callBudget["day"] > 0 =>
         calls'["day"] + CostOf(OpenLines') + CallCost <= callBudget["day"] - 1 + CostOf(LineLimit)
    BY <1>2, <1>5, <1>6 DEF SpendingInv, CallsBounded, Periods
  <2> QED BY <1>1, <2>1, <2>2, <2>3, <2>4 DEF CallsBounded, CostOf, settings
<1>8. PricedOrRefused'
  BY <1>1, <1>6 DEF SpendingInv, PricedOrRefused, HasBudget, settings
<1>9. TextsBounded'
  BY <1>1, TextsKept DEF settings
<1> QED BY <1>3, <1>7, <1>8, <1>9 DEF SpendingInv

\* A reply is spent as it is sent.
LEMMA ReplyStep == ASSUME SpendingInv, ReplySpends PROVE SpendingInv'
<1> USE SpendingConstants
<1>1. SpendingTypeOK'
  <2>1. spendFaults' \in 0..SpendFaults
    BY DEF ReplySpends, SpendFault, SpendingInv, SpendingTypeOK
  <2>2. replies' \in Sums
    BY DEF ReplySpends, Plus, Sums, SpendingInv, SpendingTypeOK
  <2> QED BY <2>1, <2>2 DEF ReplySpends, SpendingInv, SpendingTypeOK, settings, textSide
<1>2. UNCHANGED <<paidCall, calls, callBudget, priced, excused>> /\ OpenLines' = OpenLines
  BY DEF ReplySpends, settings, OpenLines, OpenCalls
<1>3. CallsBounded' /\ PricedOrRefused'
  BY <1>2 DEF SpendingInv, CallsBounded, CostOf, PricedOrRefused, HasBudget
<1>4. TextsBounded'
  BY TextsKept DEF ReplySpends, settings
<1> QED BY <1>1, <1>3, <1>4 DEF SpendingInv

-----------------------------------------------------------------------------
(* Texts *)

BatchStates == [at : {"idle", "month", "work", "stopped"}, left : 0..BatchSize]

\* A batch looks at the budget of the day.
LEMMA CheckTextsStep ==
  ASSUME SpendingInv, NEW b \in Preparers, CheckTexts(b)
  PROVE  SpendingInv'
<1> USE SpendingConstants
<1>1. PICK to \in {"stopped", "month"} :
        /\ batch[b].at = "idle" /\ batch' = [batch EXCEPT ![b] = [at |-> to, left |-> 0]]
        /\ to = "month" => ~TextsReached("day")
  BY DEF CheckTexts, StepBatch
<1>2. /\ excused' \in {excused, excused \cup {"texts"}}
      /\ "texts" \notin excused' => "texts" \notin excused /\ \A o \in Preparers \ {b} : batch[o].at \notin Working
      /\ UNCHANGED <<settings, callSide, texts, spent, spendFaults>>
  BY DEF CheckTexts, Working
<1>3. SpendingTypeOK'
  <2>1. [at |-> to, left |-> 0] \in BatchStates
    BY DEF BatchStates
  <2>2. batch' \in [Preparers -> BatchStates]
    BY <1>1, <2>1 DEF SpendingInv, SpendingTypeOK, BatchStates
  <2> QED BY <1>2, <2>2 DEF SpendingInv, SpendingTypeOK, BatchStates, settings, callSide
<1>4. /\ batch'[b].at = to /\ \A o \in Preparers : o # b => batch'[o] = batch[o]
  BY <1>1 DEF SpendingInv, SpendingTypeOK
<1>5. texts["day"] \in Nat /\ textBudget["day"] \in Nat /\ textBudget["day"] > 0
  BY DEF SpendingInv, SpendingTypeOK, Sums, Periods
<1>6. to = "month" => texts["day"] <= textBudget["day"] - 1
  BY <1>1, <1>5 DEF TextsReached
<1>7. TextsBounded'
  BY <1>2, <1>4, <1>6 DEF SpendingInv, TextsBounded, Working, settings
<1>8. CallsBounded' /\ PricedOrRefused'
  BY <1>2, CallsKept DEF settings
<1> QED BY <1>3, <1>7, <1>8 DEF SpendingInv

\* A batch looks at the budget of the month, and begins.
LEMMA CheckTextsMonthStep ==
  ASSUME SpendingInv, NEW b \in Preparers, NEW size \in 1..BatchSize, CheckTextsMonth(b, size)
  PROVE  SpendingInv'
<1> USE SpendingConstants
<1>1. PICK to \in {"stopped", "work"}, left \in 0..BatchSize :
        /\ batch[b].at = "month" /\ batch' = [batch EXCEPT ![b] = [at |-> to, left |-> left]]
        /\ to = "work" => ~TextsReached("month") /\ left > 0
        /\ UNCHANGED <<settings, callSide, texts, spent, excused, spendFaults>>
  BY DEF CheckTextsMonth, StepBatch
<1>2. SpendingTypeOK'
  <2>1. [at |-> to, left |-> left] \in BatchStates
    BY DEF BatchStates
  <2>2. batch' \in [Preparers -> BatchStates]
    BY <1>1, <2>1 DEF SpendingInv, SpendingTypeOK, BatchStates
  <2> QED BY <1>1, <2>2 DEF SpendingInv, SpendingTypeOK, BatchStates, settings, callSide
<1>3. /\ batch'[b].at = to /\ batch'[b].left = left /\ \A o \in Preparers : o # b => batch'[o] = batch[o]
  BY <1>1 DEF SpendingInv, SpendingTypeOK
<1>4. \A p \in Periods : texts[p] \in Nat /\ textBudget[p] \in Nat /\ textBudget[p] > 0
  BY DEF SpendingInv, SpendingTypeOK, Sums
<1>5. ASSUME "texts" \notin excused, to = "work", NEW p \in Periods
      PROVE  spent[p] + left <= textBudget[p] - 1 + BatchSize
  <2>1. texts[p] <= textBudget[p] - 1
    BY <1>1, <1>4, <1>5 DEF TextsReached, SpendingInv, TextsBounded, Periods
  <2> QED BY <1>4, <1>5, <2>1 DEF SpendingInv, TextsBounded
<1>6. TextsBounded'
  BY <1>1, <1>3, <1>5 DEF SpendingInv, TextsBounded, Working, settings
<1>7. CallsBounded' /\ PricedOrRefused'
  BY <1>1, CallsKept DEF settings
<1> QED BY <1>2, <1>6, <1>7 DEF SpendingInv

\* A text of a batch is spent.
LEMMA SpendTextStep ==
  ASSUME SpendingInv, NEW b \in Preparers, NEW written \in BOOLEAN, SpendText(b, written)
  PROVE  SpendingInv'
<1> USE SpendingConstants
<1>0. batch[b] \in BatchStates /\ \A p \in Periods : texts[p] \in Nat /\ spent[p] \in Nat /\ textBudget[p] \in Nat
  BY DEF SpendingInv, SpendingTypeOK, Sums, BatchStates
<1>1. PICK to \in {"idle", "work"}, left \in 0..BatchSize :
        /\ batch[b].at = "work" /\ batch' = [batch EXCEPT ![b] = [at |-> to, left |-> left]]
        /\ to = "work" => left > 0 /\ left + 1 = batch[b].left
  <2>1. CASE batch[b].left > 1
    <3>1. batch[b].left - 1 \in 0..BatchSize /\ batch[b].left - 1 > 0 /\ batch[b].left - 1 + 1 = batch[b].left
      BY <1>0, <2>1 DEF BatchStates
    <3> QED BY <2>1, <3>1 DEF SpendText, StepBatch
  <2>2. CASE ~(batch[b].left > 1)
    BY <2>2 DEF SpendText, StepBatch
  <2> QED BY <2>1, <2>2
<1>2. /\ spent' = Plus(spent, 1) /\ UNCHANGED <<settings, callSide>>
      /\ \/ texts' = Plus(texts, 1) /\ UNCHANGED excused
         \/ excused' = excused \cup {"texts"} /\ UNCHANGED texts
      /\ spendFaults' \in 0..SpendFaults
  BY DEF SpendText, SpendFault, SpendingInv, SpendingTypeOK
<1>3. SpendingTypeOK'
  <2>1. [at |-> to, left |-> left] \in BatchStates
    BY DEF BatchStates
  <2>2. batch' \in [Preparers -> BatchStates]
    BY <1>1, <2>1 DEF SpendingInv, SpendingTypeOK, BatchStates
  <2>3. texts' \in Sums /\ spent' \in Sums
    BY <1>0, <1>2 DEF Plus, Sums, SpendingInv, SpendingTypeOK
  <2>4. excused' \subseteq {"calls", "texts"}
    BY <1>2 DEF SpendingInv, SpendingTypeOK
  <2> QED BY <1>2, <2>2, <2>3, <2>4 DEF SpendingInv, SpendingTypeOK, BatchStates, settings, callSide
<1>4. /\ batch'[b].at = to /\ batch'[b].left = left /\ \A o \in Preparers : o # b => batch'[o] = batch[o]
  BY <1>1 DEF SpendingInv, SpendingTypeOK
<1>5. TextsBounded'
  <2> SUFFICES ASSUME "texts" \notin excused' PROVE TextsBounded'
    BY DEF TextsBounded
  <2>1. "texts" \notin excused /\ texts' = Plus(texts, 1)
    BY <1>2
  <2>2. \A p \in Periods : spent'[p] = spent[p] + 1 /\ texts'[p] = texts[p] + 1
    BY <1>2, <2>1 DEF Plus
  <2>3. batch[b].left > 0 /\ \A p \in Periods : spent[p] + batch[b].left <= textBudget[p] - 1 + BatchSize
    BY <1>1, <2>1 DEF SpendingInv, TextsBounded
  <2>4. \A o \in Preparers : o # b => batch[o].at \notin Working
    BY <1>1, <2>1 DEF SpendingInv, TextsBounded, Working
  <2>5. \A p \in Periods : spent'[p] = texts'[p] /\ spent'[p] <= textBudget[p] - 1 + BatchSize
    BY <1>0, <2>1, <2>2, <2>3 DEF SpendingInv, TextsBounded, BatchStates
  <2>6. to = "work" => \A p \in Periods : spent'[p] + left <= textBudget[p] - 1 + BatchSize
    BY <1>0, <1>1, <2>2, <2>3 DEF BatchStates
  <2> QED BY <1>1, <1>2, <1>4, <2>4, <2>5, <2>6 DEF TextsBounded, Working, settings
<1>6. CallsBounded' /\ PricedOrRefused'
  BY <1>2, CallsKept DEF settings
<1> QED BY <1>3, <1>5, <1>6 DEF SpendingInv

-----------------------------------------------------------------------------
(* Time, and the owner *)

\* The day ends, and what it has spent is forgotten.
LEMMA DayEndsStep ==
  ASSUME SpendingInv, NEW month \in BOOLEAN, DayEnds(month)
  PROVE  SpendingInv'
<1> USE SpendingConstants
<1>0. /\ UNCHANGED <<settings, paidCall, batch, excused>> /\ spendFaults' \in 0..SpendFaults
  BY DEF DayEnds, SpendFault, SpendingInv, SpendingTypeOK
<1>1. \A p \in Periods : /\ calls[p] \in Nat /\ replies[p] \in Nat /\ texts[p] \in Nat /\ spent[p] \in Nat
                         /\ callBudget[p] \in Nat /\ textBudget[p] \in Nat /\ textBudget[p] > 0
  BY DEF SpendingInv, SpendingTypeOK, Sums
<1>2. \A p \in Periods : \/ calls'[p] = 0 /\ replies'[p] = 0 /\ texts'[p] = 0 /\ spent'[p] = 0
                         \/ /\ calls'[p] = calls[p] /\ replies'[p] = replies[p]
                            /\ texts'[p] = texts[p] /\ spent'[p] = spent[p]
  BY DEF DayEnds
<1>3. SpendingTypeOK'
  <2>1. calls' \in Sums /\ replies' \in Sums /\ texts' \in Sums /\ spent' \in Sums
    BY <1>1 DEF DayEnds, Sums
  <2> QED BY <1>0, <2>1 DEF SpendingInv, SpendingTypeOK, settings
<1>4. OpenLines' = OpenLines /\ IsFiniteSet(OpenCalls) /\ OpenLines \in Nat
  BY <1>0, FS_Subset, FS_CardinalityType DEF OpenLines, OpenCalls
<1>5. CallsBounded'
  <2> SUFFICES ASSUME "calls" \notin excused PROVE CallsBounded'
    BY <1>0 DEF CallsBounded
  <2>1. OpenLines <= LineLimit
    BY DEF SpendingInv, CallsBounded
  <2>2. CostOf(OpenLines) <= CostOf(LineLimit) /\ CostOf(OpenLines) \in Nat /\ CostOf(LineLimit) \in Nat
    BY <1>4, <2>1, CostGrows
  <2>3. \A p \in Periods : callBudget[p] > 0 => calls'[p] + CostOf(OpenLines) <= callBudget[p] - 1 + CostOf(LineLimit)
    BY <1>1, <1>2, <2>2 DEF SpendingInv, CallsBounded
  <2>4. ASSUME NEW c \in PaidCalls, paidCall[c] = "month", callBudget["day"] > 0
        PROVE  calls'["day"] + CostOf(OpenLines) + CallCost <= callBudget["day"] - 1 + CostOf(LineLimit)
    <3>1. OpenLines + 1 <= LineLimit
      BY <2>4 DEF SpendingInv, CallsBounded, Checked
    <3>2. CostOf(OpenLines) + CallCost <= CostOf(LineLimit)
      BY <1>4, <3>1, CostGrows
    <3>3. calls["day"] + CostOf(OpenLines) + CallCost <= callBudget["day"] - 1 + CostOf(LineLimit)
      BY <2>4 DEF SpendingInv, CallsBounded
    <3> QED BY <1>1, <1>2, <2>2, <2>4, <3>2, <3>3 DEF Periods
  <2> QED BY <1>0, <1>4, <2>3, <2>4 DEF SpendingInv, CallsBounded, CostOf, settings
<1>6. TextsBounded'
  <2> SUFFICES ASSUME "texts" \notin excused PROVE TextsBounded'
    BY <1>0 DEF TextsBounded
  <2>1. \A p \in Periods : spent'[p] = texts'[p] /\ spent'[p] <= textBudget[p] - 1 + BatchSize
    BY <1>1, <1>2 DEF SpendingInv, TextsBounded
  <2>2. \A b \in Preparers : batch[b].at = "month" => texts'["day"] <= textBudget["day"] - 1
    BY <1>1, <1>2 DEF SpendingInv, TextsBounded, Periods
  <2>3. \A b \in Preparers : batch[b].at = "work" =>
          batch[b].left > 0 /\ \A p \in Periods : spent'[p] + batch[b].left <= textBudget[p] - 1 + BatchSize
    BY <1>1, <1>2 DEF SpendingInv, SpendingTypeOK, TextsBounded
  <2> QED BY <1>0, <2>1, <2>2, <2>3 DEF SpendingInv, TextsBounded, settings
<1>7. PricedOrRefused'
  BY <1>0 DEF SpendingInv, PricedOrRefused, HasBudget, settings
<1> QED BY <1>3, <1>5, <1>6, <1>7 DEF SpendingInv

\* A budget is set, and what was measured by another is excused.
LEMMA SetBudgetStep ==
  ASSUME SpendingInv, NEW p \in Periods, NEW n \in CallBudgets, NEW m \in TextBudgets, SetBudget(p, n, m)
  PROVE  SpendingInv'
<1> USE SpendingConstants
<1>1. excused' = {"calls", "texts"} /\ UNCHANGED <<priced, callSide, textSide>> /\ spendFaults' \in 0..SpendFaults
  BY DEF SetBudget, SpendFault, SpendingInv, SpendingTypeOK
<1>2. callBudget' \in [Periods -> CallBudgets] /\ textBudget' \in [Periods -> TextBudgets]
  BY DEF SetBudget, SpendingInv, SpendingTypeOK
<1>3. SpendingTypeOK'
  BY <1>1, <1>2 DEF SpendingInv, SpendingTypeOK, callSide, textSide
<1> QED BY <1>1, <1>3 DEF SpendingInv, CallsBounded, TextsBounded, PricedOrRefused

\* Every step keeps the budgets but for what is under way.
LEMMA SpendingStep == ASSUME SpendingInv, [SpendingNext]_spendVars PROVE SpendingInv'
<1>1. CASE UNCHANGED spendVars
  <2>1. SpendingTypeOK'
    BY <1>1 DEF spendVars, SpendingInv, SpendingTypeOK
  <2>2. CallsBounded' /\ PricedOrRefused' /\ TextsBounded'
    BY <1>1, CallsKept, TextsKept DEF spendVars, callSide, textSide
  <2> QED BY <2>1, <2>2 DEF SpendingInv
<1> QED BY <1>1, AdmitCallStep, CheckDayStep, CheckMonthStep, CostRecorded, ReplyStep,
    CheckTextsStep,
           CheckTextsMonthStep, SpendTextStep, DayEndsStep, SetBudgetStep DEF SpendingNext

\* Calls, batches and sums are what the code can store (voice-usage.service.ts, ai-usage).
THEOREM SpendingTypeCorrect == SpendingSpec => []SpendingTypeOK
<1>1. SpendingInv => SpendingTypeOK
  BY DEF SpendingInv
<1> QED BY <1>1, SpendingStart, SpendingStep, PTL DEF SpendingSpec

\* A budget is exceeded by what was under way at most (voice-usage.service.ts, marketing-ai.service.ts).
THEOREM SpendingCorrect == SpendingSpec => []SpendingHolds
BY SpendingStart, SpendingStep, SpendingSuffices, PTL DEF SpendingSpec

-----------------------------------------------------------------------------
(* Versions of the agents *)

ChangeStates == [kind : ChangeKinds, at : ChangeSteps, config : Configs, number : Numbers]

\* The requests that have written what they came for, or ended.
PastWrites == {r \in Changes : change[r].at \in {"activate", "snapshot", "done"}}
Bound == Cardinality(PastWrites)

\* k is the highest number among the versions, 0 without any.
TopOf(versions, k) ==
  /\ k \in Nat /\ \A v \in versions : v.number <= k
  /\ (k = 0 /\ versions = {}) \/ Taken(versions, k)

Kinded(r) ==
  /\ change[r].at \in {"write", "snapshot"} => change[r].kind \in OnVoice
  /\ change[r].at \in {"latest", "createVersion", "activate"} => change[r].kind \in OnAi

\* No number outruns the requests that took one.
Bounded ==
  /\ voice.version <= 1 + Bound
  /\ \A r \in Changes : change[r].at = "write" => change[r].number <= 2 + Bound
  /\ \A r \in Changes : change[r].at = "createVersion" => change[r].number <= 1 + Bound
  /\ \E k \in 0..Bound : TopOf(published, k)

\* As long as changes of the voice agent do not overlap, the one under way is one number ahead
\* of the newest snapshot.
VoiceKept ==
  ~crossed.voice =>
    /\ \A r, q \in UnderWay(OnVoice) : r = q
    /\ \A v \in snapshots : v.number <= voice.version
    /\ \A r \in Changes : change[r].at = "write" => change[r].number = voice.version + 1
    /\ \A r \in Changes : change[r].at = "snapshot" =>
         /\ change[r].number = voice.version /\ change[r].config = voice.config
         /\ \A v \in snapshots : v.number < voice.version
    /\ \/ cutShort \/ \E r \in Changes : change[r].at = "snapshot"
       \/ [number |-> voice.version, config |-> voice.config] \in snapshots

\* So with the WhatsApp agent, whose newest version the agent is pointed at in the end.
AiKept ==
  ~crossed.ai =>
    /\ \A r, q \in UnderWay(OnAi) : r = q
    /\ \A r \in Changes : change[r].at = "createVersion" => change[r].number = Newest(published) + 1
    /\ \A r \in Changes : change[r].at = "activate" => change[r].number = Newest(published)
    /\ \/ cutShort \/ rolledBack \/ \E r \in Changes : change[r].at = "activate"
       \/ draft.active = Newest(published)

VersionsInv == VersionsTypeOK /\ (\A r \in Changes : Kinded(r)) /\ Bounded /\ VoiceKept /\ AiKept

-----------------------------------------------------------------------------
\* The newest version is the one with the highest number.
LEMMA NewestIsTop ==
  ASSUME NEW versions, NEW k \in Numbers, TopOf(versions, k)
  PROVE  Newest(versions) = k
<1>1. CASE versions = {}
  BY <1>1 DEF Newest, TopOf, Taken
<1>2. CASE versions # {}
  <2> DEFINE P(n) == /\ \E v \in versions : v.number = n
                     /\ \A v \in versions : v.number <= n
  <2>1. P(k) /\ k \in Nat
    BY <1>2 DEF TopOf, Taken
  <2>2. \A n \in Numbers : P(n) => n = k
    <3>1. SUFFICES ASSUME NEW n \in Numbers, P(n) PROVE n = k
      OBVIOUS
    <3>2. n <= k /\ k <= n
      BY <2>1, <3>1
    <3> QED BY <3>2, <2>1 DEF Numbers
  <2>3. (CHOOSE n \in Numbers : P(n)) = k
    <3> HIDE DEF P
    <3> QED BY <2>1, <2>2
  <2> QED BY <1>2, <2>3 DEF Newest
<1> QED BY <1>1, <1>2

\* Requests that wrote are finitely many.
LEMMA BoundIs ==
  VersionsTypeOK => IsFiniteSet(PastWrites) /\ Bound \in Nat /\ Bound <= Cardinality(Changes) /\ Cardinality(Changes) \in Nat
                    /\ \A r \in Changes \ PastWrites : Bound + 1 <= Cardinality(Changes)
<1> SUFFICES ASSUME VersionsTypeOK
             PROVE  IsFiniteSet(PastWrites) /\ Bound \in Nat /\ Bound <= Cardinality(Changes) /\ Cardinality(Changes) \in Nat
                    /\ \A r \in Changes \ PastWrites : Bound + 1 <= Cardinality(Changes)
  OBVIOUS
<1>1. PastWrites \in SUBSET Changes
  BY DEF PastWrites
<1>2. IsFiniteSet(PastWrites) /\ Bound \in Nat /\ Bound <= Cardinality(Changes) /\ Cardinality(Changes) \in Nat
  BY <1>1, VersionsAssumption, FS_Subset, FS_CardinalityType DEF Bound
<1>3. ASSUME NEW r \in Changes \ PastWrites
      PROVE  Bound + 1 <= Cardinality(Changes)
  <2>1. Cardinality(PastWrites \cup {r}) = Bound + 1
    BY <1>2, <1>3, FS_AddElement DEF Bound
  <2>2. PastWrites \cup {r} \in SUBSET Changes
    BY <1>1
  <2> QED BY <2>1, <2>2, VersionsAssumption, FS_Subset
<1> QED BY <1>2, <1>3

\* A request goes on: what is past stays past.
LEMMA BoundGrows ==
  ASSUME VersionsTypeOK, VersionsTypeOK', NEW r \in Changes, NEW c \in ChangeStates,
         change' = [change EXCEPT ![r] = c], change[r].at # "done", change[r].at \in {"activate", "snapshot"} => c.at = "done"
  PROVE  /\ Bound' >= Bound /\ Bound' \in Nat /\ Bound \in Nat
         /\ r \notin PastWrites /\ c.at \in {"activate", "snapshot", "done"} => Bound' = Bound + 1
<1>1. /\ change'[r] = c /\ \A q \in Changes \ {r} : change'[q] = change[q]
  BY DEF VersionsTypeOK
<1>2. (VersionsTypeOK => IsFiniteSet(PastWrites) /\ Bound \in Nat)'
  BY BoundIs, PTL
<1>3. IsFiniteSet(PastWrites) /\ Bound \in Nat /\ IsFiniteSet(PastWrites)' /\ Bound' \in Nat
  BY <1>2, BoundIs
<1>4. PastWrites \subseteq PastWrites'
  BY <1>1 DEF PastWrites
<1>5. Bound <= Bound'
  BY <1>3, <1>4, FS_Subset DEF Bound
<1>6. ASSUME r \notin PastWrites, c.at \in {"activate", "snapshot", "done"}
      PROVE  Bound' = Bound + 1
  <2>1. PastWrites' = PastWrites \cup {r}
    BY <1>1, <1>6 DEF PastWrites
  <2> QED BY <1>3, <1>6, <2>1, FS_AddElement DEF Bound
<1> QED BY <1>3, <1>5, <1>6

-----------------------------------------------------------------------------
(* Steps that concern only one of the two agents, or none *)

\* A request moves on without the voice agent.
LEMMA VoiceUntouched ==
  ASSUME VersionsInv, NEW r \in Changes, NEW c \in ChangeStates, change' = [change EXCEPT ![r] = c],
         change[r].at \notin {"write", "snapshot"}, c.at \notin {"write", "snapshot"},
         c.at \notin {"idle", "done"} => c.kind \notin OnVoice,
         UNCHANGED <<snapshots, cutShort>>, crossed'.voice = crossed.voice,
         voice'.version = voice.version, voice'.config = voice.config
  PROVE  VoiceKept'
<1>1. /\ change'[r] = c /\ \A q \in Changes \ {r} : change'[q] = change[q]
  BY DEF VersionsInv, VersionsTypeOK
<1>2. UnderWay(OnVoice)' \subseteq UnderWay(OnVoice)
  BY <1>1 DEF UnderWay
<1>3. \A q \in Changes : change'[q].at \in {"write", "snapshot"} \/ change[q].at \in {"write", "snapshot"}
                           => q # r /\ change'[q] = change[q]
  BY <1>1
<1> QED BY <1>2, <1>3 DEF VersionsInv, VoiceKept

\* ... or without the WhatsApp agent.
LEMMA AiUntouched ==
  ASSUME VersionsInv, NEW r \in Changes, NEW c \in ChangeStates, change' = [change EXCEPT ![r] = c],
         change[r].at \notin {"createVersion", "activate"}, c.at \notin {"createVersion", "activate"},
         c.at \notin {"idle", "done"} => c.kind \notin OnAi,
         UNCHANGED <<published, cutShort, rolledBack>>, crossed'.ai = crossed.ai, draft'.active = draft.active
  PROVE  AiKept'
<1>1. /\ change'[r] = c /\ \A q \in Changes \ {r} : change'[q] = change[q]
  BY DEF VersionsInv, VersionsTypeOK
<1>2. UnderWay(OnAi)' \subseteq UnderWay(OnAi)
  BY <1>1 DEF UnderWay
<1>3. \A q \in Changes : change'[q].at \in {"createVersion", "activate"} \/ change[q].at \in {"createVersion", "activate"}
                           => q # r /\ change'[q] = change[q]
  BY <1>1
<1>4. Newest(published)' = Newest(published)
  BY DEF Newest, Numbers
<1> QED BY <1>2, <1>3, <1>4 DEF VersionsInv, AiKept

\* No number is taken meanwhile.
LEMMA BoundsStay ==
  ASSUME VersionsInv, VersionsTypeOK', NEW r \in Changes, NEW c \in ChangeStates,
         change' = [change EXCEPT ![r] = c], change[r].at # "done",
         change[r].at \in {"activate", "snapshot"} => c.at = "done",
         UNCHANGED published, voice'.version = voice.version,
         c.at = "write" => c.number <= 2 + Bound, c.at = "createVersion" => c.number <= 1 + Bound
  PROVE  Bounded'
<1>1. /\ change'[r] = c /\ \A q \in Changes \ {r} : change'[q] = change[q]
  BY DEF VersionsInv, VersionsTypeOK
<1>2. Bound' >= Bound /\ Bound' \in Nat /\ Bound \in Nat
  BY BoundGrows DEF VersionsInv
<1>3. voice.version \in Nat /\ \A q \in Changes : change'[q].number \in Nat
  BY DEF VersionsInv, VersionsTypeOK, Numbers, ChangeStates
<1>4. voice'.version <= 1 + Bound'
  BY <1>2, <1>3 DEF VersionsInv, Bounded
<1>5. ASSUME NEW q \in Changes
      PROVE  /\ change'[q].at = "write" => change'[q].number <= 2 + Bound'
             /\ change'[q].at = "createVersion" => change'[q].number <= 1 + Bound'
  <2>1. /\ change'[q].at = "write" => change'[q].number <= 2 + Bound
        /\ change'[q].at = "createVersion" => change'[q].number <= 1 + Bound
    BY <1>1 DEF VersionsInv, Bounded
  <2> QED BY <1>2, <1>3, <2>1
<1>6. PICK k \in 0..Bound : TopOf(published, k)
  BY DEF VersionsInv, Bounded
<1>7. k \in 0..Bound' /\ TopOf(published, k)'
  BY <1>2, <1>6 DEF TopOf, Taken
<1> QED BY <1>4, <1>5, <1>7 DEF Bounded

\* A request that is answered waits for no version.
LEMMA KindedStays ==
  ASSUME VersionsInv, NEW r \in Changes, NEW c \in ChangeStates, change' = [change EXCEPT ![r] = c],
         c.at \in {"write", "snapshot"} => c.kind \in OnVoice,
         c.at \in {"latest", "createVersion", "activate"} => c.kind \in OnAi
  PROVE  \A q \in Changes : Kinded(q)'
BY DEF VersionsInv, VersionsTypeOK, Kinded

\* A request that was answered, and one that has not come, are requests.
LEMMA AnsweredIs == Answered \in ChangeStates /\ Answered.at = "done" /\ Waiting \in ChangeStates /\ Waiting.at = "idle"
<1>1. Original \in Configs
  BY VersionsAssumption DEF Original
<1>2. 0 \in Numbers
  BY VersionsAssumption, FS_CardinalityType DEF Numbers
<1>3. Waiting \in ChangeStates /\ Waiting.at = "idle"
  BY <1>1, <1>2 DEF Waiting, ChangeStates, ChangeKinds, ChangeSteps
<1> QED BY <1>3 DEF Answered, ChangeStates, ChangeSteps

\* A change's record takes the place of another.
LEMMA ChangeTyped ==
  ASSUME VersionsInv, NEW r \in Changes, NEW c \in ChangeStates, change' = [change EXCEPT ![r] = c]
  PROVE  change' \in [Changes -> ChangeStates]
BY DEF VersionsInv, VersionsTypeOK, ChangeStates

-----------------------------------------------------------------------------
\* A request comes in.
LEMMA ReadStep ==
  ASSUME VersionsInv, NEW r \in Changes, NEW kind \in ChangeKinds, NEW at \in ChangeSteps,
         NEW config \in Configs, NEW number \in Numbers, Read(r, kind, at, config, number),
         at \in {"latest", "copyBack", "copy", "try", "write"},
         at = "write" <=> kind \in OnVoice, at = "latest" => kind \in OnAi,
         at = "write" => number = voice.version + 1
  PROVE  VersionsInv'
<1> DEFINE c == [kind |-> kind, at |-> at, config |-> config, number |-> number]
<1>1. /\ change[r].at = "idle" /\ change' = [change EXCEPT ![r] = c]
      /\ UNCHANGED <<draft, published, voice, snapshots, copies, evaluated, rolledBack, cutShort, versionFaults>>
  BY DEF Read, agentVars
<1>2. c \in ChangeStates /\ c.at = at /\ c.kind = kind /\ c.number = number
  BY DEF ChangeStates
<1>3. /\ crossed' \in [ai : BOOLEAN, voice : BOOLEAN]
      /\ crossed'.ai = (crossed.ai \/ (kind \in OnAi /\ UnderWay(OnAi) # {}))
      /\ crossed'.voice = (crossed.voice \/ (kind \in OnVoice /\ UnderWay(OnVoice) # {}))
  BY DEF Read, VersionsInv, VersionsTypeOK
<1> HIDE DEF c
<1>4. VersionsTypeOK'
  BY <1>1, <1>2, <1>3, ChangeTyped DEF VersionsInv, VersionsTypeOK, ChangeStates
<1>5. change'[r] = c /\ \A q \in Changes \ {r} : change'[q] = change[q]
  BY <1>1 DEF VersionsInv, VersionsTypeOK
<1>6. Bounded'
  <2>1. at = "write" => number <= 2 + Bound
    BY BoundIs DEF VersionsInv, Bounded, VersionsTypeOK, Numbers
  <2> QED BY <1>1, <1>2, <1>4, <2>1, BoundsStay
<1>7. \A q \in Changes : Kinded(q)'
  BY <1>1, <1>2, KindedStays
<1>8. VoiceKept'
  <2>1. CASE kind \notin OnVoice
    BY <1>1, <1>2, <1>3, <2>1, VoiceUntouched DEF VersionsInv, VersionsTypeOK
  <2>2. CASE kind \in OnVoice
    <3>1. SUFFICES ASSUME ~crossed'.voice PROVE VoiceKept'
      BY DEF VoiceKept
    <3>2. ~crossed.voice /\ UnderWay(OnVoice) = {}
      BY <1>3, <2>2, <3>1 DEF VersionsInv, VersionsTypeOK
    <3>3. \A q \in UnderWay(OnVoice)' : q = r
      BY <1>5, <3>2 DEF UnderWay
    <3>4. \A q \in Changes : change[q].at \notin {"write", "snapshot"}
      BY <3>2 DEF UnderWay, VersionsInv, Kinded
    <3> QED BY <1>1, <1>2, <1>5, <2>2, <3>2, <3>3, <3>4 DEF VersionsInv, VoiceKept
  <2> QED BY <2>1, <2>2
<1>9. AiKept'
  <2>1. CASE kind \notin OnAi
    BY <1>1, <1>2, <1>3, <2>1, AiUntouched DEF VersionsInv, VersionsTypeOK
  <2>2. CASE kind \in OnAi
    <3>1. SUFFICES ASSUME ~crossed'.ai PROVE AiKept'
      BY DEF AiKept
    <3>2. ~crossed.ai /\ UnderWay(OnAi) = {}
      BY <1>3, <2>2, <3>1 DEF VersionsInv, VersionsTypeOK
    <3>3. \A q \in UnderWay(OnAi)' : q = r
      BY <1>5, <3>2 DEF UnderWay
    <3>4. \A q \in Changes : change[q].at \notin {"createVersion", "activate"}
      BY <3>2 DEF UnderWay, VersionsInv, Kinded
    <3>5. Newest(published)' = Newest(published)
      BY <1>1 DEF Newest, Numbers
    <3> QED BY <1>1, <1>2, <1>5, <2>2, <3>2, <3>3, <3>4, <3>5 DEF VersionsInv, AiKept
  <2> QED BY <2>1, <2>2
<1> QED BY <1>4, <1>6, <1>7, <1>8, <1>9 DEF VersionsInv

\* What Then makes of a request.
LEMMA ThenIs ==
  ASSUME VersionsInv, NEW r \in Changes, NEW from, NEW to \in ChangeSteps, Then(r, from, to)
  PROVE  /\ change[r].at = from
         /\ \E c \in ChangeStates :
              /\ change' = [change EXCEPT ![r] = c] /\ c.at = to
              /\ to # "done" => c.kind = change[r].kind /\ c.config = change[r].config /\ c.number = change[r].number
<1>1. change[r] \in ChangeStates
  BY DEF VersionsInv, VersionsTypeOK, ChangeStates
<1>2. CASE to = "done"
  BY <1>2, AnsweredIs DEF Then
<1>3. CASE to # "done"
  <2> DEFINE c == [change[r] EXCEPT !.at = to]
  <2>1. /\ c \in ChangeStates /\ c.at = to /\ c.kind = change[r].kind /\ c.config = change[r].config
        /\ c.number = change[r].number
    BY <1>1 DEF ChangeStates
  <2>2. change' = [change EXCEPT ![r] = c] /\ change[r].at = from
    BY <1>3 DEF Then
  <2> QED BY <2>1, <2>2
<1> QED BY <1>2, <1>3

\* The newest number is read, and the next one taken.
LEMMA ReadLatestStep ==
  ASSUME VersionsInv, NEW r \in Changes, ReadLatest(r)
  PROVE  VersionsInv'
<1> DEFINE c == [change[r] EXCEPT !.at = "createVersion", !.number = Newest(published) + 1]
<1>1. /\ change[r].at = "latest" /\ change[r] \in ChangeStates /\ change[r].kind \in OnAi
      /\ UNCHANGED <<draft, published, voice, snapshots, copies, evaluated, rolledBack, crossed, cutShort, versionFaults>>
  BY DEF ReadLatest, VersionsInv, VersionsTypeOK, ChangeStates, agentVars, Kinded
<1>2. PICK k \in 0..Bound : TopOf(published, k)
  BY DEF VersionsInv, Bounded
<1>3. Newest(published) = k /\ k + 1 \in Numbers /\ k \in Nat
  BY <1>2, BoundIs, NewestIsTop DEF VersionsInv, Numbers
<1>4. change' = [change EXCEPT ![r] = c]
  BY DEF ReadLatest
<1>5. c \in ChangeStates /\ c.at = "createVersion" /\ c.kind = change[r].kind /\ c.number = k + 1
  BY <1>1, <1>3 DEF ChangeStates, ChangeSteps
<1> HIDE DEF c
<1>6. VersionsTypeOK'
  BY <1>1, <1>4, <1>5, ChangeTyped DEF VersionsInv, VersionsTypeOK, ChangeStates
<1>7. Bounded'
  <2>1. c.number <= 1 + Bound
    BY <1>2, <1>3, <1>5, BoundIs DEF VersionsInv
  <2> QED BY <1>1, <1>4, <1>5, <1>6, <2>1, BoundsStay
<1>8. \A q \in Changes : Kinded(q)'
  BY <1>1, <1>4, <1>5, KindedStays
<1>9. VoiceKept'
  BY <1>1, <1>4, <1>5, VoiceUntouched DEF OnAi, OnVoice
<1>10. AiKept'
  <2>1. SUFFICES ASSUME ~crossed.ai PROVE AiKept'
    BY <1>1 DEF AiKept
  <2>2. change'[r] = c /\ \A q \in Changes \ {r} : change'[q] = change[q]
    BY <1>4 DEF VersionsInv, VersionsTypeOK
  <2>3. r \in UnderWay(OnAi) /\ UnderWay(OnAi)' = UnderWay(OnAi)
    BY <1>1, <1>5, <2>2 DEF UnderWay
  <2>4. Newest(published)' = k
    BY <1>1, <1>3 DEF Newest, Numbers
  <2> QED BY <1>1, <1>3, <1>5, <2>1, <2>2, <2>3, <2>4 DEF VersionsInv, AiKept
<1> QED BY <1>6, <1>7, <1>8, <1>9, <1>10 DEF VersionsInv

\* Of the requests for one agent that have read it there is one, as long as none overlapped.
LEMMA OneOnAi ==
  ASSUME VersionsInv, ~crossed.ai, NEW r \in Changes, NEW q \in Changes,
         change[r].at \in {"latest", "createVersion", "activate"},
         change[q].at \in {"latest", "createVersion", "activate"}
  PROVE  r = q
<1>1. r \in UnderWay(OnAi) /\ q \in UnderWay(OnAi)
  BY DEF VersionsInv, Kinded, UnderWay
<1>2. \A x, y \in UnderWay(OnAi) : x = y
  BY DEF VersionsInv, AiKept
<1> QED BY <1>1, <1>2

\* Requests that do not overlap are one.
LEMMA OneOnVoice ==
  ASSUME VersionsInv, ~crossed.voice, NEW r \in Changes, NEW q \in Changes,
         change[r].at \in {"write", "snapshot"}, change[q].at \in {"write", "snapshot"}
  PROVE  r = q
<1>1. r \in UnderWay(OnVoice) /\ q \in UnderWay(OnVoice)
  BY DEF VersionsInv, Kinded, UnderWay
<1>2. \A x, y \in UnderWay(OnVoice) : x = y
  BY DEF VersionsInv, VoiceKept
<1> QED BY <1>1, <1>2

\* A version is published under the number that was taken.
LEMMA CreateVersionStep ==
  ASSUME VersionsInv, NEW r \in Changes, CreateVersion(r)
  PROVE  VersionsInv'
<1> DEFINE n == change[r].number
           v == [number |-> n, config |-> change[r].config]
<1>1. /\ UNCHANGED <<draft, voice, snapshots, copies, evaluated, rolledBack, crossed, cutShort, versionFaults>>
      /\ change[r].at = "createVersion" /\ change[r] \in ChangeStates /\ change[r].kind \in OnAi /\ n \in Nat
  BY DEF CreateVersion, Then, VersionsInv, VersionsTypeOK, ChangeStates, Kinded, Numbers
<1>2. PICK k \in 0..Bound : TopOf(published, k)
  BY DEF VersionsInv, Bounded
<1>3. Newest(published) = k /\ k \in Nat /\ Bound \in Nat
  BY <1>2, BoundIs, NewestIsTop DEF VersionsInv, Numbers
<1>4. CASE Taken(published, n)
  <2>1. published' = published /\ Then(r, "createVersion", "done")
    BY <1>4 DEF CreateVersion
  <2>2. PICK c \in ChangeStates : change' = [change EXCEPT ![r] = c] /\ c.at = "done"
    BY <2>1, ThenIs DEF ChangeSteps
  <2>3. VersionsTypeOK'
    BY <1>1, <2>1, <2>2, ChangeTyped DEF VersionsInv, VersionsTypeOK, ChangeStates
  <2>4. Bounded'
    BY <1>1, <2>1, <2>2, <2>3, BoundsStay
  <2>5. \A q \in Changes : Kinded(q)'
    BY <2>2, KindedStays
  <2>6. VoiceKept'
    BY <1>1, <2>2, VoiceUntouched
  <2>7. AiKept'
    <3>1. SUFFICES ASSUME ~crossed.ai PROVE AiKept'
      BY <1>1 DEF AiKept
    <3>2. n = k + 1
      BY <1>1, <1>3, <3>1 DEF VersionsInv, AiKept
    <3>3. n <= k
      BY <1>2, <1>4 DEF TopOf, Taken
    <3> QED BY <1>3, <3>2, <3>3
  <2> QED BY <2>3, <2>4, <2>5, <2>6, <2>7 DEF VersionsInv
<1>5. CASE ~Taken(published, n)
  <2>1. published' = published \cup {v} /\ Then(r, "createVersion", "activate")
    BY <1>5 DEF CreateVersion
  <2>2. PICK c \in ChangeStates :
          change' = [change EXCEPT ![r] = c] /\ c.at = "activate" /\ c.kind = change[r].kind /\ c.number = n
    BY <2>1, ThenIs DEF ChangeSteps
  <2>3. v \in [number : Numbers, config : Configs] /\ v.number = n
    BY <1>1 DEF ChangeStates
  <2>4. VersionsTypeOK'
    BY <1>1, <2>1, <2>2, <2>3, ChangeTyped DEF VersionsInv, VersionsTypeOK, ChangeStates
  <2>5. change'[r] = c /\ \A q \in Changes \ {r} : change'[q] = change[q]
    BY <2>2 DEF VersionsInv, VersionsTypeOK
  <2>6. Bound' = Bound + 1
    BY <1>1, <2>2, <2>4, BoundGrows DEF VersionsInv, PastWrites
  <2>7. PICK m \in 0..Bound' : TopOf(published', m) /\ m = (IF n > k THEN n ELSE k)
    <3>1. n <= 1 + Bound
      BY <1>1 DEF VersionsInv, Bounded
    <3>2. CASE n > k
      <4>1. \A w \in published : w.number \in Nat /\ w.number <= k
        BY <1>2 DEF TopOf, VersionsInv, VersionsTypeOK, Numbers
      <4>2. \A w \in published' : w.number <= n
        BY <1>1, <1>3, <2>1, <2>3, <3>2, <4>1
      <4>3. Taken(published', n)
        BY <2>1, <2>3 DEF Taken
      <4>4. TopOf(published', n)
        BY <1>1, <4>2, <4>3 DEF TopOf
      <4> QED BY <1>1, <1>3, <2>6, <3>1, <3>2, <4>4
    <3>3. CASE ~(n > k)
      <4>1. TopOf(published', k)
        BY <1>1, <1>2, <1>3, <1>5, <2>1, <2>3, <3>3 DEF TopOf, Taken
      <4> QED BY <1>1, <1>2, <1>3, <2>6, <3>3, <4>1
    <3> QED BY <3>2, <3>3
  <2>8. Bounded'
    <3>1. voice'.version <= 1 + Bound'
      BY <1>1, <1>3, <2>6 DEF VersionsInv, Bounded, VersionsTypeOK, Numbers
    <3>2. \A q \in Changes : change[q].number \in Nat
      BY DEF VersionsInv, VersionsTypeOK, Numbers
    <3>3. \A q \in Changes : /\ change'[q].at = "write" => change'[q].number <= 2 + Bound'
                             /\ change'[q].at = "createVersion" => change'[q].number <= 1 + Bound'
      BY <1>3, <2>2, <2>5, <2>6, <3>2 DEF VersionsInv, Bounded
    <3> QED BY <2>7, <3>1, <3>3 DEF Bounded, TopOf
  <2>9. \A q \in Changes : Kinded(q)'
    BY <1>1, <2>2, KindedStays
  <2>10. VoiceKept'
    BY <1>1, <2>2, VoiceUntouched DEF OnAi, OnVoice
  <2>11. AiKept'
    <3>1. SUFFICES ASSUME ~crossed.ai PROVE AiKept'
      BY <1>1 DEF AiKept
    <3>2. n = k + 1
      BY <1>1, <1>3, <3>1 DEF VersionsInv, AiKept
    <3>3. m = n /\ n \in Numbers /\ TopOf(published', n)
      BY <1>1, <1>3, <2>7, <3>2 DEF ChangeStates
    <3>4. Newest(published)' = n
      <4>1. Newest(published') = n
        BY <3>3, NewestIsTop
      <4> QED BY <4>1 DEF Newest, Numbers
    <3>5. UnderWay(OnAi)' = UnderWay(OnAi)
      BY <1>1, <2>2, <2>5 DEF UnderWay
    <3>6. \A q \in Changes : change'[q].at \in {"createVersion", "activate"} => q = r
      BY <1>1, <2>5, <3>1, OneOnAi
    <3> QED BY <1>1, <2>2, <2>5, <3>1, <3>4, <3>5, <3>6 DEF VersionsInv, AiKept
  <2> QED BY <2>4, <2>8, <2>9, <2>10, <2>11 DEF VersionsInv
<1> QED BY <1>4, <1>5

\* A request for the WhatsApp agent is done with it.
LEMMA AiDoneStep ==
  ASSUME VersionsInv, NEW r \in Changes, ActivateVersion(r) \/ CopyBack(r)
  PROVE  VersionsInv'
<1>1. /\ UNCHANGED <<published, voice, snapshots, copies, evaluated, crossed, cutShort, versionFaults>>
      /\ change[r] \in ChangeStates /\ change[r].at \in {"activate", "copyBack"} /\ rolledBack' \in BOOLEAN
      /\ draft'.active = change[r].number /\ (change[r].at = "copyBack" => rolledBack')
  <2>1. CASE ActivateVersion(r)
    BY <2>1 DEF ActivateVersion, Then, VersionsInv, VersionsTypeOK, ChangeStates
  <2>2. CASE CopyBack(r)
    BY <2>2 DEF CopyBack, Then, VersionsInv, VersionsTypeOK, ChangeStates
  <2> QED BY <2>1, <2>2
<1>2. draft' \in [config : Configs, active : Numbers]
  BY <1>1 DEF ActivateVersion, CopyBack, VersionsInv, VersionsTypeOK, ChangeStates
<1>3. PICK c \in ChangeStates : change' = [change EXCEPT ![r] = c] /\ c.at = "done"
  <2>1. Then(r, change[r].at, "done")
    BY DEF ActivateVersion, CopyBack, Then
  <2> QED BY <2>1, ThenIs DEF ChangeSteps
<1>4. VersionsTypeOK'
  BY <1>1, <1>2, <1>3, ChangeTyped DEF VersionsInv, VersionsTypeOK, ChangeStates
<1>5. Bounded'
  BY <1>1, <1>3, <1>4, BoundsStay
<1>6. \A q \in Changes : Kinded(q)'
  BY <1>3, KindedStays
<1>7. VoiceKept'
  BY <1>1, <1>3, VoiceUntouched
<1>8. AiKept'
  <2>1. SUFFICES ASSUME ~crossed.ai PROVE AiKept'
    BY <1>1 DEF AiKept
  <2>2. change'[r] = c /\ \A q \in Changes \ {r} : change'[q] = change[q]
    BY <1>3 DEF VersionsInv, VersionsTypeOK
  <2>3. UnderWay(OnAi)' \subseteq UnderWay(OnAi)
    BY <1>3, <2>2 DEF UnderWay
  <2>4. Newest(published)' = Newest(published)
    BY <1>1 DEF Newest, Numbers
  <2>5. change[r].at = "activate" => draft'.active = Newest(published)
    BY <1>1, <2>1 DEF VersionsInv, AiKept
  <2>6. \A q \in Changes : change'[q].at \in {"createVersion", "activate"} => q # r /\ change'[q] = change[q]
    BY <1>3, <2>2
  <2>7. rolledBack' \/ draft'.active = Newest(published)
    BY <1>1, <2>5
  <2> QED BY <2>1, <2>3, <2>4, <2>6, <2>7 DEF VersionsInv, AiKept
<1> QED BY <1>4, <1>5, <1>6, <1>7, <1>8 DEF VersionsInv

\* Steps that leave the versions alone: the draft, a copy, an evaluation, a status.
LEMMA OtherStep ==
  ASSUME VersionsInv, NEW r \in Changes,
         \/ \E config \in Configs : EditDraft(r, config)
         \/ CreateCopy(r) \/ RunEvaluation(r) \/ \E status \in {"ACTIVE", "PAUSED"} : SetStatus(r, status)
  PROVE  VersionsInv'
<1>1. /\ UNCHANGED <<published, snapshots, crossed, cutShort, versionFaults, rolledBack>>
      /\ change[r] \in ChangeStates /\ change[r].at \in {"idle", "copy", "try"}
  BY DEF EditDraft, CreateCopy, RunEvaluation, SetStatus, Then, VersionsInv, VersionsTypeOK,
     ChangeStates
<1>2. PICK c \in ChangeStates : change' = [change EXCEPT ![r] = c] /\ c.at = "done"
  <2>1. change' = [change EXCEPT ![r] = Answered] \/ Then(r, "copy", "done") \/ Then(r, "try", "done")
    BY DEF EditDraft, CreateCopy, RunEvaluation, SetStatus
  <2> QED BY <2>1, AnsweredIs, ThenIs DEF ChangeSteps
<1>3. /\ draft' \in [config : Configs, active : Numbers] /\ draft'.active = draft.active
      /\ voice' \in [config : Configs, version : Numbers, status : {"DRAFT", "ACTIVE", "PAUSED"}]
      /\ voice'.version = voice.version /\ voice'.config = voice.config
  BY DEF EditDraft, CreateCopy, RunEvaluation, SetStatus, VersionsInv, VersionsTypeOK
<1>4. copies' \subseteq [config : Configs, status : {"DRAFT"}] /\ evaluated' \subseteq [of : Numbers, config : Configs]
  BY <1>1 DEF EditDraft, CreateCopy, RunEvaluation, SetStatus, VersionsInv, VersionsTypeOK,
     ChangeStates
<1>5. VersionsTypeOK'
  BY <1>1, <1>2, <1>3, <1>4, ChangeTyped DEF VersionsInv, VersionsTypeOK, ChangeStates
<1>6. Bounded'
  BY <1>1, <1>2, <1>3, <1>5, BoundsStay
<1>7. \A q \in Changes : Kinded(q)'
  BY <1>2, KindedStays
<1>8. VoiceKept'
  BY <1>1, <1>2, <1>3, VoiceUntouched
<1>9. AiKept'
  BY <1>1, <1>2, <1>3, AiUntouched
<1> QED BY <1>5, <1>6, <1>7, <1>8, <1>9 DEF VersionsInv

\* The row first ...
LEMMA WriteVoiceStep ==
  ASSUME VersionsInv, NEW r \in Changes, WriteVoice(r)
  PROVE  VersionsInv'
<1> DEFINE n == change[r].number
<1>1. /\ UNCHANGED <<draft, published, snapshots, copies, evaluated, rolledBack, crossed, cutShort, versionFaults>>
      /\ change[r] \in ChangeStates /\ change[r].at = "write" /\ change[r].kind \in OnVoice
      /\ voice' = [voice EXCEPT !.config = change[r].config, !.version = n]
  BY DEF WriteVoice, Then, VersionsInv, VersionsTypeOK, ChangeStates, Kinded
<1>2. PICK c \in ChangeStates : /\ change' = [change EXCEPT ![r] = c] /\ c.at = "snapshot" /\ c.number = n
                                /\ c.kind = change[r].kind /\ c.config = change[r].config
  BY ThenIs DEF WriteVoice, ChangeSteps
<1>3. /\ voice' \in [config : Configs, version : Numbers, status : {"DRAFT", "ACTIVE", "PAUSED"}]
      /\ voice'.version = n /\ voice'.config = change[r].config
  BY <1>1 DEF VersionsInv, VersionsTypeOK, ChangeStates
<1>4. VersionsTypeOK'
  BY <1>1, <1>2, <1>3, ChangeTyped DEF VersionsInv, VersionsTypeOK, ChangeStates
<1>5. change'[r] = c /\ \A q \in Changes \ {r} : change'[q] = change[q]
  BY <1>2 DEF VersionsInv, VersionsTypeOK
<1>6. Bound' = Bound + 1 /\ Bound \in Nat
  BY <1>1, <1>2, <1>4, BoundGrows DEF VersionsInv, PastWrites
<1>7. Bounded'
  <2>1. voice'.version <= 1 + Bound'
    BY <1>1, <1>3, <1>6 DEF VersionsInv, Bounded, ChangeStates, Numbers
  <2>2. \A q \in Changes : change[q].number \in Nat
    BY DEF VersionsInv, VersionsTypeOK, Numbers
  <2>3. \A q \in Changes : /\ change'[q].at = "write" => change'[q].number <= 2 + Bound'
                           /\ change'[q].at = "createVersion" => change'[q].number <= 1 + Bound'
    BY <1>2, <1>5, <1>6, <2>2 DEF VersionsInv, Bounded
  <2>4. PICK k \in 0..Bound : TopOf(published, k)
    BY DEF VersionsInv, Bounded
  <2>5. k \in 0..Bound' /\ TopOf(published, k)'
    BY <1>1, <1>6, <2>4 DEF TopOf, Taken
  <2> QED BY <2>1, <2>3, <2>5 DEF Bounded
<1>8. \A q \in Changes : Kinded(q)'
  BY <1>1, <1>2, KindedStays
<1>9. VoiceKept'
  <2>1. SUFFICES ASSUME ~crossed.voice PROVE VoiceKept'
    BY <1>1 DEF VoiceKept
  <2>2. n = voice.version + 1 /\ voice.version \in Nat /\ \A v \in snapshots : v.number <= voice.version /\ v.number \in Nat
    BY <1>1, <2>1 DEF VersionsInv, VoiceKept, VersionsTypeOK, Numbers
  <2>3. \A v \in snapshots : v.number < n /\ v.number <= n
    BY <2>2
  <2>4. UnderWay(OnVoice)' = UnderWay(OnVoice)
    BY <1>1, <1>2, <1>5 DEF UnderWay
  <2>5. \A q \in Changes : change'[q].at \in {"write", "snapshot"} => q = r
    BY <1>1, <1>5, <2>1, OneOnVoice
  <2> QED BY <1>1, <1>2, <1>3, <1>5, <2>1, <2>3, <2>4, <2>5 DEF VersionsInv, VoiceKept
<1>10. AiKept'
  BY <1>1, <1>2, AiUntouched DEF OnVoice, OnAi
<1> QED BY <1>4, <1>7, <1>8, <1>9, <1>10 DEF VersionsInv

\* ... then its snapshot.
LEMMA SnapshotStep ==
  ASSUME VersionsInv, NEW r \in Changes, SnapshotVersion(r)
  PROVE  VersionsInv'
<1> DEFINE n == change[r].number
           v == [number |-> n, config |-> change[r].config]
<1>1. /\ UNCHANGED <<draft, published, voice, copies, evaluated, rolledBack, crossed, cutShort, versionFaults>>
      /\ change[r] \in ChangeStates /\ change[r].at = "snapshot"
      /\ snapshots' = IF Taken(snapshots, n) THEN snapshots ELSE snapshots \cup {v}
  BY DEF SnapshotVersion, Then, VersionsInv, VersionsTypeOK, ChangeStates
<1>2. PICK c \in ChangeStates : change' = [change EXCEPT ![r] = c] /\ c.at = "done"
  BY ThenIs DEF SnapshotVersion, ChangeSteps
<1>3. v \in [number : Numbers, config : Configs] /\ v.number = n
  BY <1>1 DEF ChangeStates
<1>4. VersionsTypeOK'
  BY <1>1, <1>2, <1>3, ChangeTyped DEF VersionsInv, VersionsTypeOK, ChangeStates
<1>5. Bounded'
  BY <1>1, <1>2, <1>4, BoundsStay
<1>6. \A q \in Changes : Kinded(q)'
  BY <1>2, KindedStays
<1>7. AiKept'
  BY <1>1, <1>2, AiUntouched
<1>8. VoiceKept'
  <2>1. SUFFICES ASSUME ~crossed.voice PROVE VoiceKept'
    BY <1>1 DEF VoiceKept
  <2>2. /\ n = voice.version /\ change[r].config = voice.config /\ n \in Nat
        /\ \A w \in snapshots : w.number < voice.version /\ w.number \in Nat
    BY <1>1, <2>1 DEF VersionsInv, VoiceKept, VersionsTypeOK, Numbers, ChangeStates
  <2>3. ~Taken(snapshots, n)
    BY <2>2 DEF Taken
  <2>4. snapshots' = snapshots \cup {v} /\ v = [number |-> voice.version, config |-> voice.config]
    BY <1>1, <2>2, <2>3
  <2>5. \A w \in snapshots' : w.number <= voice.version
    BY <1>3, <2>2, <2>4
  <2>6. change'[r] = c /\ \A q \in Changes \ {r} : change'[q] = change[q]
    BY <1>2 DEF VersionsInv, VersionsTypeOK
  <2>7. \A q \in Changes : change'[q].at \notin {"write", "snapshot"}
    BY <1>1, <1>2, <2>1, <2>6, OneOnVoice
  <2>8. UnderWay(OnVoice)' \subseteq UnderWay(OnVoice)
    BY <1>2, <2>6 DEF UnderWay
  <2> QED BY <1>1, <2>1, <2>4, <2>5, <2>7, <2>8 DEF VersionsInv, VoiceKept
<1> QED BY <1>4, <1>5, <1>6, <1>7, <1>8 DEF VersionsInv

\* A request that dies cuts its change short.
LEMMA ChangeDiesStep ==
  ASSUME VersionsInv, NEW r \in Changes, ChangeDies(r)
  PROVE  VersionsInv'
<1>1. /\ UNCHANGED <<draft, published, voice, snapshots, copies, evaluated, rolledBack, crossed>>
      /\ change[r].at \notin {"idle", "done"} /\ versionFaults' \in 0..VersionFaults
      /\ cutShort' \in BOOLEAN /\ (cutShort \/ change[r].at \in {"snapshot", "activate"} => cutShort')
  <2>1. versionFaults' \in 0..VersionFaults
    BY VersionsAssumption DEF ChangeDies, VersionsInv, VersionsTypeOK
  <2>2. cutShort' \in BOOLEAN /\ (cutShort \/ change[r].at \in {"snapshot", "activate"} => cutShort')
    BY DEF ChangeDies
  <2> QED BY <2>1, <2>2 DEF ChangeDies, agentVars
<1>2. PICK c \in ChangeStates : change' = [change EXCEPT ![r] = c] /\ c.at = "done"
  BY AnsweredIs DEF ChangeDies
<1>3. VersionsTypeOK'
  BY <1>1, <1>2, ChangeTyped DEF VersionsInv, VersionsTypeOK, ChangeStates
<1>4. Bounded'
  BY <1>1, <1>2, <1>3, BoundsStay
<1>5. \A q \in Changes : Kinded(q)'
  BY <1>2, KindedStays
<1>6. change'[r] = c /\ \A q \in Changes \ {r} : change'[q] = change[q]
  BY <1>2 DEF VersionsInv, VersionsTypeOK
<1>7. VoiceKept'
  <2>1. UnderWay(OnVoice)' \subseteq UnderWay(OnVoice)
    BY <1>2, <1>6 DEF UnderWay
  <2>2. \A q \in Changes : change'[q].at \in {"write", "snapshot"} => q # r /\ change'[q] = change[q]
    BY <1>2, <1>6
  <2>3. cutShort' \/ (~cutShort /\ \A q \in Changes : change[q].at = "snapshot" => change'[q].at = "snapshot")
    BY <1>1, <1>6
  <2> QED BY <1>1, <2>1, <2>2, <2>3 DEF VersionsInv, VoiceKept
<1>8. AiKept'
  <2>1. UnderWay(OnAi)' \subseteq UnderWay(OnAi)
    BY <1>2, <1>6 DEF UnderWay
  <2>2. \A q \in Changes : change'[q].at \in {"createVersion", "activate"} => q # r /\ change'[q] = change[q]
    BY <1>2, <1>6
  <2>3. cutShort' \/ (~cutShort /\ \A q \in Changes : change[q].at = "activate" => change'[q].at = "activate")
    BY <1>1, <1>6
  <2>4. Newest(published)' = Newest(published)
    BY <1>1 DEF Newest, Numbers
  <2> QED BY <1>1, <2>1, <2>2, <2>3, <2>4 DEF VersionsInv, AiKept
<1> QED BY <1>3, <1>4, <1>5, <1>7, <1>8 DEF VersionsInv

-----------------------------------------------------------------------------
\* The first version of each agent is there.
LEMMA VersionsStart == VersionsInit => VersionsInv
<1> SUFFICES ASSUME VersionsInit PROVE VersionsInv
  OBVIOUS
<1>1. Original \in Configs /\ 0 \in Numbers /\ 1 \in Numbers /\ Cardinality(Changes) \in Nat
  BY VersionsAssumption, FS_CardinalityType DEF Original, Numbers
<1>2. \A r \in Changes : change[r] = Waiting /\ change[r].at = "idle"
  BY AnsweredIs DEF VersionsInit
<1>3. VersionsTypeOK
  <2>1. change \in [Changes -> ChangeStates]
    BY AnsweredIs DEF VersionsInit
  <2>2. /\ draft \in [config : Configs, active : Numbers]
        /\ voice \in [config : Configs, version : Numbers, status : {"DRAFT", "ACTIVE", "PAUSED"}]
        /\ snapshots \subseteq [number : Numbers, config : Configs]
        /\ crossed \in [ai : BOOLEAN, voice : BOOLEAN]
    BY <1>1 DEF VersionsInit
  <2>3. versionFaults \in 0..VersionFaults
    BY VersionsAssumption DEF VersionsInit
  <2> QED BY <2>1, <2>2, <2>3 DEF VersionsInit, VersionsTypeOK, ChangeStates
<1>4. TopOf({}, 0)
  BY DEF TopOf
<1>5. Bounded
  <2>1. Bound \in Nat /\ voice.version = 1 /\ published = {}
    BY <1>3, BoundIs DEF VersionsInit
  <2> QED BY <1>2, <1>4, <2>1 DEF Bounded
<1>6. Newest(published) = 0 /\ draft.active = 0
  BY DEF VersionsInit, Newest
<1>7. UnderWay(OnVoice) = {} /\ UnderWay(OnAi) = {}
  BY <1>2 DEF UnderWay
<1>8. VoiceKept
  BY <1>2, <1>7 DEF VoiceKept, VersionsInit
<1>9. AiKept
  BY <1>2, <1>6, <1>7 DEF AiKept
<1>10. \A r \in Changes : Kinded(r)
  BY <1>2 DEF Kinded
<1> QED BY <1>3, <1>5, <1>8, <1>9, <1>10 DEF VersionsInv

\* Copies and evaluations change no version.
LEMMA ReadsStep ==
  ASSUME VersionsInv, NEW r \in Changes,
         \/ \E config \in Configs : ReadForUpdate(r, config)
         \/ ReadDraft(r) \/ ReadPublished(r) \/ ReadOriginal(r) \/ ReadActive(r) \/ ReadForRollback(r)
  PROVE  VersionsInv'
<1>1. change[r].at = "idle" /\ 0 \in Numbers /\ draft.config \in Configs /\ draft.active \in Numbers
  BY VersionsAssumption, FS_CardinalityType
     DEF ReadForUpdate, ReadDraft, ReadPublished, ReadOriginal, ReadActive, ReadForRollback, Read,
         VersionsInv, VersionsTypeOK, Numbers
<1>2. voice.version + 1 \in Numbers
  <2>1. Bound + 1 <= Cardinality(Changes) /\ Bound \in Nat /\ Cardinality(Changes) \in Nat
    BY <1>1, BoundIs DEF VersionsInv, PastWrites
  <2> QED BY <2>1 DEF VersionsInv, Bounded, VersionsTypeOK, Numbers
<1>3. CASE \E config \in Configs : ReadForUpdate(r, config)
  BY <1>2, <1>3, ReadStep DEF ReadForUpdate, NextVersion, ChangeKinds, ChangeSteps, OnVoice
<1>4. CASE ReadForRollback(r)
  <2>1. PICK v \in snapshots : Read(r, "restore", "write", v.config, voice.version + 1)
    BY <1>4 DEF ReadForRollback, NextVersion
  <2>2. v.config \in Configs
    BY DEF VersionsInv, VersionsTypeOK
  <2> QED BY <1>2, <2>1, <2>2, ReadStep DEF ChangeKinds, ChangeSteps, OnVoice
<1>5. CASE ReadDraft(r) \/ ReadOriginal(r) \/ ReadActive(r)
  <2>1. PICK number \in {0, draft.active} : \/ Read(r, "publish", "latest", draft.config, number)
                                            \/ Read(r, "clone", "copy", draft.config, number)
                                            \/ Read(r, "evaluate", "try", draft.config, number)
    BY <1>5 DEF ReadDraft, ReadOriginal, ReadActive
  <2>2. number \in Numbers
    BY <1>1
  <2> QED BY <1>1, <2>1, <2>2, ReadStep DEF ChangeKinds, ChangeSteps, OnVoice, OnAi
<1>6. CASE ReadPublished(r)
  <2>1. PICK v \in published : Read(r, "rollback", "copyBack", v.config, v.number)
    BY <1>6 DEF ReadPublished
  <2>2. v.config \in Configs /\ v.number \in Numbers
    BY DEF VersionsInv, VersionsTypeOK
  <2> QED BY <2>1, <2>2, ReadStep DEF ChangeKinds, ChangeSteps, OnVoice
<1> QED BY <1>3, <1>4, <1>5, <1>6

\* Every step keeps the versions and what the agents point at.
LEMMA VersionsStep == VersionsInv /\ [VersionsNext]_versionVars => VersionsInv'
<1> SUFFICES ASSUME VersionsInv, [VersionsNext]_versionVars PROVE VersionsInv'
  OBVIOUS
<1>1. CASE UNCHANGED versionVars
  <2>1. VersionsTypeOK' /\ (\A r \in Changes : Kinded(r)')
    BY <1>1 DEF versionVars, agentVars, VersionsInv, VersionsTypeOK, Kinded
  <2>2. Bound' = Bound /\ UnderWay(OnVoice)' = UnderWay(OnVoice) /\ UnderWay(OnAi)' = UnderWay(OnAi)
        /\ Newest(published)' = Newest(published) /\ \A k : TopOf(published, k) => TopOf(published, k)'
    BY <1>1 DEF versionVars, agentVars, Bound, PastWrites, UnderWay, Newest, Numbers, TopOf, Taken
  <2>3. Bounded'
    BY <1>1, <2>2 DEF versionVars, agentVars, VersionsInv, Bounded
  <2>4. VoiceKept' /\ AiKept'
    BY <1>1, <2>2 DEF versionVars, agentVars, VersionsInv, VoiceKept, AiKept
  <2> QED BY <2>1, <2>3, <2>4 DEF VersionsInv
<1>2. CASE VersionsNext
  <2>1. PICK r \in Changes :
          \/ \E config \in Configs : EditDraft(r, config) \/ ReadForUpdate(r, config)
          \/ ReadDraft(r) \/ ReadLatest(r) \/ CreateVersion(r) \/ ActivateVersion(r)
          \/ ReadPublished(r) \/ CopyBack(r) \/ ReadOriginal(r) \/ CreateCopy(r)
          \/ ReadActive(r) \/ RunEvaluation(r)
          \/ ReadForRollback(r) \/ WriteVoice(r) \/ SnapshotVersion(r)
          \/ \E status \in {"ACTIVE", "PAUSED"} : SetStatus(r, status)
          \/ ChangeDies(r)
    BY <1>2 DEF VersionsNext
  <2> QED BY <2>1, ReadsStep, ReadLatestStep, CreateVersionStep, AiDoneStep, OtherStep,
      WriteVoiceStep,
             SnapshotStep, ChangeDiesStep
<1> QED BY <1>1, <1>2

\* The invariant holds in every state.
LEMMA VersionsInvariant == VersionsSpec => []VersionsInv
BY VersionsStart, VersionsStep, PTL DEF VersionsSpec

\* Agents, versions and requests keep their types; no version number outruns the requests.
THEOREM VersionsTypeCorrect == VersionsSpec => []VersionsTypeOK
<1>1. VersionsInv => VersionsTypeOK
  BY DEF VersionsInv
<1> QED BY <1>1, VersionsInvariant, PTL

\* A call can tell which version and prompt produced it, and the active version of a WhatsApp
\* agent is the newest, unless requests overlapped or died or the agent was rolled back.
THEOREM VersionsCorrect == VersionsSpec => []ActiveIsSnapshot
<1>1. VersionsInv => ActiveIsSnapshot
  BY DEF VersionsInv, VoiceKept, AiKept, ActiveIsSnapshot
<1> QED BY <1>1, VersionsInvariant, PTL

-----------------------------------------------------------------------------
(* What is said in a call *)

\* Of the numbers that are there one is the least.
LEMMA EarliestOf ==
  ASSUME NEW S \in SUBSET Nat, S # {}
  PROVE  \E n \in S : \A m \in S : n <= m
<1> DEFINE R == OpToRel(<, Nat)
<1>1. IsWellFoundedOn(R, Nat)
  BY NatLessThanWellFounded
<1>2. \A m, n \in Nat : m < n => <<m, n>> \in R
  BY DEF OpToRel
<1> HIDE DEF R
<1>3. PICK x \in S : \A y \in S : ~(<<y, x>> \in R)
  BY <1>1, WFMin
<1>4. ASSUME NEW y \in S PROVE x <= y
  <2>1. x \in Nat /\ y \in Nat
    OBVIOUS
  <2>2. ~(y < x)
    BY <1>2, <1>3, <2>1
  <2> QED BY <2>1, <2>2
<1> QED BY <1>4

Memories == [status : {"ACTIVE", "LISTENING", "THINKING", "SPEAKING", "TOOL_EXECUTION"},
             stage : 0..2, wrapped : BOOLEAN]
Links == {"connecting", "late", "open", "closed"}
ReasonsToEnd == {"no", "REALTIME_UNAVAILABLE", "REALTIME_ERROR", "REALTIME_CLOSED", "SILENCE_TIMEOUT",
         "MAX_DURATION_REACHED", "HANGUP"}
SessionStream(tools) == Seq(SessionEvents \cup tools)

\* The notices since the last frame are those of the stage, and the timer that ends the call
\* is set after both.
Noticed ==
  /\ mem.stage = 0 => notices = <<>>
  /\ mem.stage = 1 => notices = <<"probe">>
  /\ mem.stage = 2 => notices = <<"probe", "final">>
  /\ closer => mem.stage = 2 \/ "called back" \in excepted
  /\ clock = 2 => mem.wrapped \/ "missed tick" \in excepted
  /\ link = "late" => over # "no"

ShapesKept == mem \in Memories /\ stream \in SessionStream(toolsAsked) /\ link \in Links /\ over \in ReasonsToEnd
Switches == generating \in BOOLEAN /\ talking \in BOOLEAN /\ closer \in BOOLEAN /\ misheard \in BOOLEAN
ListsKept ==
  /\ waiting \subseteq Items /\ excepted \subseteq Excuses \cup Items
  /\ running \subseteq toolsAsked /\ toolsAsked \subseteq DialogueTools
Counters ==
  uttered \in 0..Utterances /\ idle \in 0..2 /\ clock \in 0..2 /\ dialogueFaults \in 0..DialogueFaults
Simple == ShapesKept /\ Switches /\ ListsKept /\ Counters

PlainCall == Simple /\ Noticed /\ waiting \subseteq excepted /\ HangUpIsAnnounced /\ NoOrphan

\* The limits are numbers, and an item is no excuse.
LEMMA DialogueConstants ==
  /\ Utterances \in Nat /\ DialogueFaults \in Nat
  /\ 0 \in 0..Utterances /\ 0 \in 0..DialogueFaults
  /\ Items \cap Excuses = {}
<1>1. Utterances \in Nat /\ DialogueFaults \in Nat
  BY DialogueAssumption
<1>2. Items \cap Excuses = {}
  BY DialogueAssumption DEF Items, Excuses
<1> QED BY <1>1, <1>2

\* An event more on its way, or one less.
LEMMA StreamGrows ==
  ASSUME NEW tools, NEW s \in SessionStream(tools)
  PROVE  /\ \A e \in SessionEvents \cup tools : Append(s, e) \in SessionStream(tools)
         /\ s # <<>> => Tail(s) \in SessionStream(tools) /\ Tail(s) \o <<"done">> \in SessionStream(tools)
         /\ s # <<>> => Head(s) \in SessionEvents \cup tools
         /\ s # <<>> => Tail(s) \o <<>> = Tail(s)
         /\ s \o <<"audio", "assistant">> \o <<"done">> \in SessionStream(tools)
         /\ s \o <<>> \o <<"done">> \in SessionStream(tools)
<1> USE DEF SessionStream, SessionEvents
<1>1. <<"done">> \in SessionStream(tools) /\ <<"audio", "assistant">> \in SessionStream(tools) /\ <<>> \in SessionStream(tools)
  OBVIOUS
<1>2. s # <<>> => Tail(s) \in SessionStream(tools) /\ Head(s) \in SessionEvents \cup tools
  BY HeadTailProperties
<1>3. \A a, b \in SessionStream(tools) : a \o b \in SessionStream(tools) /\ a \o <<>> = a
  OBVIOUS
<1> QED BY <1>1, <1>2, <1>3, AppendProperties

\* A tool more that was asked for.
LEMMA StreamWidens ==
  ASSUME NEW tools, NEW more, tools \subseteq more
  PROVE  SessionStream(tools) \subseteq SessionStream(more)
BY SeqMonotonic DEF SessionStream

\* What the assignments to the session in memory leave alone.
LEMMA MemoryChanges ==
  ASSUME NEW m \in Memories
  PROVE  /\ \A s \in {"ACTIVE", "LISTENING", "THINKING", "SPEAKING", "TOOL_EXECUTION"} : \A n :
              n = [m EXCEPT !.status = s] =>
                n \in Memories /\ n.status = s /\ n.stage = m.stage /\ n.wrapped = m.wrapped
         /\ \A n : n = [m EXCEPT !.stage = 0] => 
                n \in Memories /\ n.stage = 0 /\ n.wrapped = m.wrapped /\ n.status = m.status
         /\ \A n : n = [m EXCEPT !.stage = 1] => 
                n \in Memories /\ n.stage = 1 /\ n.wrapped = m.wrapped /\ n.status = m.status
         /\ \A n : n = [m EXCEPT !.stage = 2] => 
                n \in Memories /\ n.stage = 2 /\ n.wrapped = m.wrapped /\ n.status = m.status
         /\ \A n : n = [m EXCEPT !.wrapped = TRUE] => 
                n \in Memories /\ n.stage = m.stage /\ n.wrapped /\ n.status = m.status
<1>1. m = [status |-> m.status, stage |-> m.stage, wrapped |-> m.wrapped]
      /\ m.status \in {"ACTIVE", "LISTENING", "THINKING", "SPEAKING", "TOOL_EXECUTION"} /\ m.stage \in 0..2 /\ m.wrapped \in BOOLEAN
  BY DEF Memories
<1>2. ASSUME NEW s \in {"ACTIVE", "LISTENING", "THINKING", "SPEAKING", "TOOL_EXECUTION"}, NEW n, n = [m EXCEPT !.status = s]
      PROVE  n \in Memories /\ n.status = s /\ n.stage = m.stage /\ n.wrapped = m.wrapped
  BY <1>2 DEF Memories
<1>3. ASSUME NEW k \in 0..2, NEW n, n = [m EXCEPT !.stage = k]
      PROVE  n \in Memories /\ n.stage = k /\ n.wrapped = m.wrapped /\ n.status = m.status
  BY <1>3 DEF Memories
<1>4. ASSUME NEW n, n = [m EXCEPT !.wrapped = TRUE]
      PROVE  n \in Memories /\ n.stage = m.stage /\ n.wrapped /\ n.status = m.status
  BY <1>4 DEF Memories
<1>5. 0 \in 0..2 /\ 1 \in 0..2 /\ 2 \in 0..2
  OBVIOUS
<1> QED BY <1>2, <1>3, <1>4, <1>5

\* The call begins with nothing said.
LEMMA PlainStart == DialogueInit => PlainCall
<1> SUFFICES ASSUME DialogueInit PROVE PlainCall
  OBVIOUS
<1> USE DialogueConstants
<1>1. Simple
  <2>1. stream \in SessionStream(toolsAsked) /\ mem \in Memories
    BY EmptySeq DEF DialogueInit, SessionStream, Fresh, Memories
  <2>2. ShapesKept /\ Switches
    BY <2>1 DEF DialogueInit, ShapesKept, Switches, Links, ReasonsToEnd
  <2>3. ListsKept
    BY DEF DialogueInit, ListsKept
  <2>4. Counters
    BY DEF DialogueInit, Counters
  <2> QED BY <2>2, <2>3, <2>4 DEF Simple
<1>2. Noticed /\ HangUpIsAnnounced /\ NoOrphan
  BY DEF DialogueInit, Noticed, Fresh, HangUpIsAnnounced, NoOrphan
<1> QED BY <1>1, <1>2 DEF DialogueInit, PlainCall

\* What an end does.
LEMMA EndStep ==
  ASSUME PlainCall, NEW reason \in {"REALTIME_UNAVAILABLE", "REALTIME_ERROR", "REALTIME_CLOSED", "HANGUP", "SILENCE_TIMEOUT", "MAX_DURATION_REACHED"},
         reason = "SILENCE_TIMEOUT" => closer, reason = "MAX_DURATION_REACHED" => clock = 2,
         EndDialogue(reason), link' \in {"late", "closed"}, dialogueFaults' \in 0..DialogueFaults,
         UNCHANGED <<misheard, mem, toolsAsked, idle, clock, notices, excepted>>
  PROVE  PlainCall'
<1>1. Simple'
  BY EmptySeq DEF PlainCall, Simple, ShapesKept, Switches, ListsKept, Counters, EndDialogue,
     SessionStream, Links, ReasonsToEnd
<1>2. Noticed'
  BY DEF PlainCall, Noticed, EndDialogue
<1>3. (waiting \subseteq excepted)' /\ NoOrphan'
  BY DEF EndDialogue, NoOrphan
<1>4. HangUpIsAnnounced'
  BY DEF PlainCall, Noticed, Simple, ShapesKept, Switches, ListsKept, Counters, Memories,
     EndDialogue, HangUpIsAnnounced
<1> QED BY <1>1, <1>2, <1>3, <1>4 DEF PlainCall

\* What asking the model does.
LEMMA ModelIsAsked ==
  ASSUME PlainCall, NEW item \in Items, AskModel(item)
  PROVE  /\ generating' = TRUE /\ waiting' \subseteq Items /\ waiting' \subseteq excepted'
         /\ excepted' \subseteq Excuses \cup Items
         /\ \A x \in Excuses : x \in excepted' <=> x \in excepted
BY DialogueConstants DEF PlainCall, Simple, ShapesKept, Switches, ListsKept, Counters, AskModel

\* Every step keeps the types, the notices and what waits for an answer.
LEMMA PlainStep == PlainCall /\ DialogueNext => PlainCall'
<1> SUFFICES ASSUME PlainCall, DialogueNext PROVE PlainCall'
  OBVIOUS
<1> USE DialogueConstants
<1>1. DialogueFault => dialogueFaults' \in 0..DialogueFaults
  BY DEF DialogueFault, PlainCall, Simple, ShapesKept, Switches, ListsKept, Counters
<1>2. UNCHANGED dialogueFaults => dialogueFaults' \in 0..DialogueFaults
  BY DEF PlainCall, Simple, ShapesKept, Switches, ListsKept, Counters
<1>3. CASE OpenTooLate
  BY <1>1, <1>3, EndStep DEF OpenTooLate
<1>4. CASE CallerHangsUp \/ SocketError("REALTIME_CLOSED") \/ SocketError("REALTIME_ERROR") \/ EndOverlong \/ EndSilent
  <2>1. PICK reason \in {"REALTIME_ERROR", "REALTIME_CLOSED", "HANGUP", "SILENCE_TIMEOUT", "MAX_DURATION_REACHED"} :
          /\ HangUp(reason) /\ dialogueFaults' \in 0..DialogueFaults
          /\ reason = "SILENCE_TIMEOUT" => closer
          /\ reason = "MAX_DURATION_REACHED" => clock = 2
    BY <1>1, <1>2, <1>4 DEF CallerHangsUp, SocketError, EndOverlong, EndSilent
  <2> QED BY <2>1, EndStep DEF HangUp
<1>5. CASE OpenInTime
  <2>1. AskModel("opening") /\ "opening" \in Items
    BY <1>5 DEF OpenInTime, Items
  <2>11. Simple'
    <3>1. ShapesKept'
      BY <1>5, <2>1, ModelIsAsked DEF PlainCall, Simple, ShapesKept, Links, ReasonsToEnd,
         OpenInTime, speech, memory, toolSide, clocks
    <3>2. Switches'
      BY <1>5, <2>1, ModelIsAsked DEF PlainCall, Simple, Switches, OpenInTime, speech, memory,
         toolSide, clocks
    <3>3. ListsKept'
      BY <1>5, <2>1, ModelIsAsked DEF PlainCall, Simple, ListsKept, OpenInTime, speech, memory,
         toolSide, clocks
    <3>4. Counters'
      BY <1>5, <2>1, ModelIsAsked DEF PlainCall, Simple, Counters, OpenInTime, speech, memory,
         toolSide, clocks
    <3> QED BY <3>1, <3>2, <3>3, <3>4 DEF Simple, ShapesKept, Switches, ListsKept, Counters
  <2>12. Noticed'
    BY <1>5, <2>1, ModelIsAsked DEF PlainCall, Noticed, Simple, ShapesKept, Switches, ListsKept,
       Counters, Excuses, OpenInTime, speech, memory, toolSide, clocks
  <2>13. HangUpIsAnnounced'
    BY <1>5, <2>1, ModelIsAsked DEF PlainCall, HangUpIsAnnounced, Simple, ShapesKept, Switches,
       ListsKept, Counters, Excuses, OpenInTime, speech, memory, toolSide, clocks
  <2>14. NoOrphan' /\ (waiting \subseteq excepted)'
    BY <1>5, <2>1, ModelIsAsked DEF PlainCall, NoOrphan, Simple, ShapesKept, Switches, ListsKept,
       Counters, Noticed, Excuses, OpenInTime, speech, memory, toolSide, clocks
  <2> QED BY <2>11, <2>12, <2>13, <2>14 DEF PlainCall
<1>6. CASE LateLinkOpens
  <2>11. Simple'
    <3>1. ShapesKept'
      BY <1>6 DEF PlainCall, Simple, ShapesKept, Links, ReasonsToEnd, LateLinkOpens, sessionSide,
         speech, memory, toolSide, clocks
    <3>2. Switches'
      BY <1>6 DEF PlainCall, Simple, Switches, LateLinkOpens, sessionSide, speech, memory,
         toolSide, clocks
    <3>3. ListsKept'
      BY <1>6 DEF PlainCall, Simple, ListsKept, Excuses, LateLinkOpens, sessionSide, speech,
         memory, toolSide, clocks
    <3>4. Counters'
      BY <1>6 DEF PlainCall, Simple, Counters, LateLinkOpens, sessionSide, speech, memory,
         toolSide, clocks
    <3> QED BY <3>1, <3>2, <3>3, <3>4 DEF Simple, ShapesKept, Switches, ListsKept, Counters
  <2>12. Noticed'
    BY <1>6 DEF PlainCall, Noticed, Simple, ShapesKept, Switches, ListsKept, Counters, Excuses,
       LateLinkOpens, sessionSide, speech, memory, toolSide, clocks
  <2>13. HangUpIsAnnounced'
    BY <1>6 DEF PlainCall, HangUpIsAnnounced, Simple, ShapesKept, Switches, ListsKept, Counters,
       Excuses, LateLinkOpens, sessionSide, speech, memory, toolSide, clocks
  <2>14. NoOrphan' /\ (waiting \subseteq excepted)'
    BY <1>6 DEF PlainCall, NoOrphan, Simple, ShapesKept, Switches, ListsKept, Counters, Noticed,
       Excuses, LateLinkOpens, sessionSide, speech, memory, toolSide, clocks
  <2> QED BY <2>11, <2>12, <2>13, <2>14 DEF PlainCall
<1>7. CASE CallerStarts \/ Transcribe
  <2>1. stream' \in SessionStream(toolsAsked) /\ uttered' \in 0..Utterances
    <3>1. stream \in SessionStream(toolsAsked) /\ {"speech_started", "customer"} \subseteq SessionEvents
      BY DEF PlainCall, Simple, ShapesKept, SessionEvents
    <3>2. uttered' \in 0..Utterances
      BY <1>7 DEF CallerStarts, Transcribe, PlainCall, Simple, Counters
    <3>3. PICK e \in SessionEvents : stream' = Append(stream, e) /\ toolsAsked' = toolsAsked
      BY <1>7, <3>1 DEF CallerStarts, Transcribe, toolSide
    <3> QED BY <3>1, <3>2, <3>3, StreamGrows
  <2>11. Simple'
    <3>1. ShapesKept'
      BY <1>7, <2>1 DEF PlainCall, Simple, ShapesKept, Links, ReasonsToEnd, CallerStarts,
         Transcribe, memory, toolSide, clocks
    <3>2. Switches'
      BY <1>7, <2>1 DEF PlainCall, Simple, Switches, CallerStarts, Transcribe, memory, toolSide,
         clocks
    <3>3. ListsKept'
      BY <1>7, <2>1 DEF PlainCall, Simple, ListsKept, CallerStarts, Transcribe, memory, toolSide,
         clocks
    <3>4. Counters'
      BY <1>7, <2>1 DEF PlainCall, Simple, Counters, CallerStarts, Transcribe, memory, toolSide,
         clocks
    <3> QED BY <3>1, <3>2, <3>3, <3>4 DEF Simple, ShapesKept, Switches, ListsKept, Counters
  <2>12. Noticed'
    <3>1. mem' = mem /\ notices' = notices /\ closer' = closer /\ clock' = clock /\ link' = link /\ over' = over /\ excepted' = excepted
      BY <1>7 DEF CallerStarts, Transcribe, memory, clocks
    <3> QED BY <3>1, Zenon DEF PlainCall, Noticed
  <2>13. HangUpIsAnnounced'
    BY <1>7, <2>1 DEF PlainCall, HangUpIsAnnounced, Simple, ShapesKept, Switches, ListsKept,
       Counters, CallerStarts, Transcribe, memory, toolSide, clocks
  <2>14. NoOrphan' /\ (waiting \subseteq excepted)'
    BY <1>7, <2>1 DEF PlainCall, NoOrphan, Simple, ShapesKept, Switches, ListsKept, Counters,
       Noticed, CallerStarts, Transcribe, memory, toolSide, clocks
  <2> QED BY <2>11, <2>12, <2>13, <2>14 DEF PlainCall
<1>8. CASE CallerStops
  <2>1. AskModel("turn") /\ "turn" \in Items
    BY <1>8 DEF CallerStops, Items
  <2>11. Simple'
    <3>1. ShapesKept'
      BY <1>8, <2>1, ModelIsAsked DEF PlainCall, Simple, ShapesKept, Links, ReasonsToEnd,
         CallerStops, memory, toolSide, clocks
    <3>2. Switches'
      BY <1>8, <2>1, ModelIsAsked DEF PlainCall, Simple, Switches, CallerStops, memory, toolSide,
         clocks
    <3>3. ListsKept'
      BY <1>8, <2>1, ModelIsAsked DEF PlainCall, Simple, ListsKept, CallerStops, memory,
         toolSide, clocks
    <3>4. Counters'
      BY <1>8, <2>1, ModelIsAsked DEF PlainCall, Simple, Counters, CallerStops, memory, toolSide,
         clocks
    <3> QED BY <3>1, <3>2, <3>3, <3>4 DEF Simple, ShapesKept, Switches, ListsKept, Counters
  <2>12. Noticed'
    BY <1>8, <2>1, ModelIsAsked DEF PlainCall, Noticed, Simple, ShapesKept, Switches, ListsKept,
       Counters, Excuses, CallerStops, memory, toolSide, clocks
  <2>13. HangUpIsAnnounced'
    BY <1>8, <2>1, ModelIsAsked DEF PlainCall, HangUpIsAnnounced, Simple, ShapesKept, Switches,
       ListsKept, Counters, Excuses, CallerStops, memory, toolSide, clocks
  <2>14. NoOrphan' /\ (waiting \subseteq excepted)'
    BY <1>8, <2>1, ModelIsAsked DEF PlainCall, NoOrphan, Simple, ShapesKept, Switches, ListsKept,
       Counters, Noticed, Excuses, CallerStops, memory, toolSide, clocks
  <2> QED BY <2>11, <2>12, <2>13, <2>14 DEF PlainCall
<1>9. ASSUME NEW t \in DialogueTools, ReplyCallsTool(t) PROVE PlainCall'
  <2>1. stream \in SessionStream(toolsAsked') /\ t \in toolsAsked' /\ toolsAsked' \subseteq DialogueTools /\ running \subseteq toolsAsked'
    BY <1>9, StreamWidens DEF ReplyCallsTool, PlainCall, Simple, ShapesKept, Switches, ListsKept,
       Counters
  <2>2. stream' \in SessionStream(toolsAsked')
    BY <1>9, <2>1, StreamGrows DEF ReplyCallsTool
  <2>11. Simple'
    <3>1. ShapesKept'
      BY <1>1, <1>9, <2>1, <2>2 DEF PlainCall, Simple, ShapesKept, Links, ReasonsToEnd,
         ReplyCallsTool, sessionSide, speech, memory, clocks
    <3>2. Switches'
      BY <1>1, <1>9, <2>1, <2>2 DEF PlainCall, Simple, Switches, ReplyCallsTool, sessionSide,
         speech, memory, clocks
    <3>3. ListsKept'
      BY <1>1, <1>9, <2>1, <2>2 DEF PlainCall, Simple, ListsKept, ReplyCallsTool, sessionSide,
         speech, memory, clocks
    <3>4. Counters'
      BY <1>1, <1>9, <2>1, <2>2 DEF PlainCall, Simple, Counters, ReplyCallsTool, sessionSide,
         speech, memory, clocks
    <3> QED BY <3>1, <3>2, <3>3, <3>4 DEF Simple, ShapesKept, Switches, ListsKept, Counters
  <2>12. Noticed'
    BY <1>1, <1>9, <2>1, <2>2 DEF PlainCall, Noticed, Simple, ShapesKept, Switches, ListsKept,
       Counters, ReplyCallsTool, sessionSide, speech, memory, clocks
  <2>13. HangUpIsAnnounced'
    BY <1>1, <1>9, <2>1, <2>2 DEF PlainCall, HangUpIsAnnounced, Simple, ShapesKept, Switches,
       ListsKept, Counters, ReplyCallsTool, sessionSide, speech, memory, clocks
  <2>14. NoOrphan' /\ (waiting \subseteq excepted)'
    BY <1>1, <1>9, <2>1, <2>2 DEF PlainCall, NoOrphan, Simple, ShapesKept, Switches, ListsKept,
       Counters, Noticed, ReplyCallsTool, sessionSide, speech, memory, clocks
  <2> QED BY <2>11, <2>12, <2>13, <2>14 DEF PlainCall
<1>10. ASSUME NEW t \in DialogueTools, ToolEnds(t) PROVE PlainCall'
  <2>1. AskModel(t) /\ t \in Items
    BY <1>10 DEF ToolEnds, SendToolResult, Items
  <2>11. Simple'
    <3>1. ShapesKept'
      BY <1>10, <2>1, ModelIsAsked DEF PlainCall, Simple, ShapesKept, Links, ReasonsToEnd,
         ToolEnds, speech, memory, clocks
    <3>2. Switches'
      BY <1>10, <2>1, ModelIsAsked DEF PlainCall, Simple, Switches, ToolEnds, speech, memory, clocks
    <3>3. ListsKept'
      BY <1>10, <2>1, ModelIsAsked DEF PlainCall, Simple, ListsKept, ToolEnds, speech, memory,
         clocks
    <3>4. Counters'
      BY <1>10, <2>1, ModelIsAsked DEF PlainCall, Simple, Counters, ToolEnds, speech, memory, clocks
    <3> QED BY <3>1, <3>2, <3>3, <3>4 DEF Simple, ShapesKept, Switches, ListsKept, Counters
  <2>12. Noticed'
    BY <1>10, <2>1, ModelIsAsked DEF PlainCall, Noticed, Simple, ShapesKept, Switches, ListsKept,
       Counters, Excuses, ToolEnds, speech, memory, clocks
  <2>13. HangUpIsAnnounced'
    BY <1>10, <2>1, ModelIsAsked DEF PlainCall, HangUpIsAnnounced, Simple, ShapesKept, Switches,
       ListsKept, Counters, Excuses, ToolEnds, speech, memory, clocks
  <2>14. NoOrphan' /\ (waiting \subseteq excepted)'
    BY <1>10, <2>1, ModelIsAsked DEF PlainCall, NoOrphan, Simple, ShapesKept, Switches,
       ListsKept, Counters, Noticed, Excuses, ToolEnds, speech, memory, clocks
  <2> QED BY <2>11, <2>12, <2>13, <2>14 DEF PlainCall
<1>11. ASSUME NEW spoken \in BOOLEAN, ReplyEnds(spoken) PROVE PlainCall'
  <2>1. stream' \in SessionStream(toolsAsked)
    BY <1>11, StreamGrows DEF ReplyEnds, PlainCall, Simple, ShapesKept, Switches, ListsKept,
       Counters
  <2>2. excepted' \subseteq Excuses \cup Items /\ excepted \subseteq excepted' /\ \A x \in Excuses \ {"late text"} : x \in excepted' <=> x \in excepted
    BY <1>11 DEF ReplyEnds, PlainCall, Simple, ShapesKept, Switches, ListsKept, Counters, Excuses
  <2>11. Simple'
    <3>1. ShapesKept'
      BY <1>11, <2>1, <2>2 DEF PlainCall, Simple, ShapesKept, Links, ReasonsToEnd, ReplyEnds,
         memory, toolSide, clocks
    <3>2. Switches'
      BY <1>11, <2>1, <2>2 DEF PlainCall, Simple, Switches, ReplyEnds, memory, toolSide, clocks
    <3>3. ListsKept'
      BY <1>11, <2>1, <2>2 DEF PlainCall, Simple, ListsKept, ReplyEnds, memory, toolSide, clocks
    <3>4. Counters'
      BY <1>11, <2>1, <2>2 DEF PlainCall, Simple, Counters, ReplyEnds, memory, toolSide, clocks
    <3> QED BY <3>1, <3>2, <3>3, <3>4 DEF Simple, ShapesKept, Switches, ListsKept, Counters
  <2>12. Noticed'
    BY <1>11, <2>1, <2>2 DEF PlainCall, Noticed, Simple, ShapesKept, Switches, ListsKept,
       Counters, Excuses, ReplyEnds, memory, toolSide, clocks
  <2>13. HangUpIsAnnounced'
    BY <1>11, <2>1, <2>2 DEF PlainCall, HangUpIsAnnounced, Simple, ShapesKept, Switches,
       ListsKept, Counters, Excuses, ReplyEnds, memory, toolSide, clocks
  <2>14. NoOrphan' /\ (waiting \subseteq excepted)'
    BY <1>11, <2>1, <2>2 DEF PlainCall, NoOrphan, Simple, ShapesKept, Switches, ListsKept,
       Counters, Noticed, Excuses, ReplyEnds, memory, toolSide, clocks
  <2> QED BY <2>11, <2>12, <2>13, <2>14 DEF PlainCall
<1>12. CASE Deliver
  <2>1. stream' \in SessionStream(toolsAsked)
    <3>1. stream \in SessionStream(toolsAsked) /\ stream # <<>>
      BY <1>12 DEF Deliver, PlainCall, Simple, ShapesKept
    <3>2. stream' \in {Tail(stream), Tail(stream) \o <<"done">>, Tail(stream) \o <<>>}
      BY <1>12 DEF Deliver
    <3>3. Tail(stream) \in SessionStream(toolsAsked) /\ Tail(stream) \o <<"done">> \in SessionStream(toolsAsked)
      BY <3>1, StreamGrows
    <3>4. Tail(stream) \o <<>> = Tail(stream)
      BY <3>1, StreamGrows
    <3> QED BY <1>12, <3>2, <3>3, <3>4 DEF Deliver
  <2>2. /\ mem' \in Memories /\ mem'.stage = mem.stage /\ mem'.wrapped = mem.wrapped
    BY <1>12 DEF Deliver, PlainCall, Simple, ShapesKept, Switches, ListsKept, Counters, Status,
       Memories
  <2>3. generating' \in BOOLEAN /\ misheard' \in BOOLEAN /\ waiting' = waiting /\ talking' = talking /\ uttered' = uttered
    BY <1>12 DEF Deliver, PlainCall, Simple, ShapesKept, Switches, ListsKept, Counters,
       AppendTranscript, sessionSide, speech
  <2>4. running' \subseteq toolsAsked
    <3>1. Head(stream) \in DialogueTools => Head(stream) \in toolsAsked
      BY <1>12, StreamGrows, DialogueAssumption DEF Deliver, PlainCall, Simple, ShapesKept,
         Switches, ListsKept, Counters
    <3> QED BY <1>12, <3>1 DEF Deliver, PlainCall, Simple, ShapesKept, Switches, ListsKept, Counters
  <2>11. Simple'
    <3>1. ShapesKept'
      BY <1>12, <2>1, <2>2, <2>3, <2>4 DEF PlainCall, Simple, ShapesKept, Links, ReasonsToEnd,
         Deliver, clocks
    <3>2. Switches'
      BY <1>12, <2>1, <2>2, <2>3, <2>4 DEF PlainCall, Simple, Switches, Deliver, clocks
    <3>3. ListsKept'
      BY <1>12, <2>1, <2>2, <2>3, <2>4 DEF PlainCall, Simple, ListsKept, Deliver, clocks
    <3>4. Counters'
      BY <1>12, <2>1, <2>2, <2>3, <2>4 DEF PlainCall, Simple, Counters, Deliver, clocks
    <3> QED BY <3>1, <3>2, <3>3, <3>4 DEF Simple, ShapesKept, Switches, ListsKept, Counters
  <2>12. Noticed'
    BY <1>12, <2>1, <2>2, <2>3, <2>4 DEF PlainCall, Noticed, Simple, ShapesKept, Switches,
       ListsKept, Counters, Deliver, clocks
  <2>13. HangUpIsAnnounced'
    BY <1>12, <2>1, <2>2, <2>3, <2>4 DEF PlainCall, HangUpIsAnnounced, Simple, ShapesKept,
       Switches, ListsKept, Counters, Deliver, clocks
  <2>14. NoOrphan' /\ (waiting \subseteq excepted)'
    BY <1>12, <2>1, <2>2, <2>3, <2>4 DEF PlainCall, NoOrphan, Simple, ShapesKept, Switches,
       ListsKept, Counters, Noticed, Deliver, clocks
  <2> QED BY <2>11, <2>12, <2>13, <2>14 DEF PlainCall
<1>13. CASE SettleTurn
  <2>1. mem' \in Memories /\ mem'.stage = mem.stage /\ mem'.wrapped = mem.wrapped
    BY <1>13 DEF SettleTurn, Status, PlainCall, Simple, ShapesKept, Switches, ListsKept,
       Counters, Memories
  <2>2. excepted' \subseteq Excuses \cup Items /\ excepted \subseteq excepted'
    BY <1>13 DEF SettleTurn, PlainCall, Simple, ShapesKept, Switches, ListsKept, Counters, Excuses
  <2>11. Simple'
    <3>1. ShapesKept'
      BY <1>13, <2>1, <2>2 DEF PlainCall, Simple, ShapesKept, Links, ReasonsToEnd, SettleTurn,
         sessionSide, speech, toolSide, clocks
    <3>2. Switches'
      BY <1>13, <2>1, <2>2 DEF PlainCall, Simple, Switches, SettleTurn, sessionSide, speech,
         toolSide, clocks
    <3>3. ListsKept'
      BY <1>13, <2>1, <2>2 DEF PlainCall, Simple, ListsKept, SettleTurn, sessionSide, speech,
         toolSide, clocks
    <3>4. Counters'
      BY <1>13, <2>1, <2>2 DEF PlainCall, Simple, Counters, SettleTurn, sessionSide, speech,
         toolSide, clocks
    <3> QED BY <3>1, <3>2, <3>3, <3>4 DEF Simple, ShapesKept, Switches, ListsKept, Counters
  <2>12. Noticed'
    BY <1>13, <2>1, <2>2 DEF PlainCall, Noticed, Simple, ShapesKept, Switches, ListsKept,
       Counters, SettleTurn, sessionSide, speech, toolSide, clocks
  <2>13. HangUpIsAnnounced'
    BY <1>13, <2>1, <2>2 DEF PlainCall, HangUpIsAnnounced, Simple, ShapesKept, Switches,
       ListsKept, Counters, SettleTurn, sessionSide, speech, toolSide, clocks
  <2>14. NoOrphan' /\ (waiting \subseteq excepted)'
    BY <1>13, <2>1, <2>2 DEF PlainCall, NoOrphan, Simple, ShapesKept, Switches, ListsKept,
       Counters, Noticed, SettleTurn, sessionSide, speech, toolSide, clocks
  <2> QED BY <2>11, <2>12, <2>13, <2>14 DEF PlainCall
<1>14. CASE PushCallerAudio
  <2>1. mem' \in Memories /\ mem'.stage = 0 /\ mem'.wrapped = mem.wrapped
    <3>1. mem \in Memories /\ mem' = [mem EXCEPT !.stage = 0]
      BY <1>14 DEF PushCallerAudio, PlainCall, Simple, ShapesKept
    <3> QED BY <3>1, MemoryChanges
  <2>2. excepted' \subseteq Excuses \cup Items /\ excepted \subseteq excepted' /\ (closer => "called back" \in excepted')
    BY <1>14 DEF PushCallerAudio, PlainCall, Simple, ShapesKept, Switches, ListsKept, Counters,
       Excuses
  <2>11. Simple'
    <3>1. ShapesKept'
      BY <1>14, <2>1, <2>2 DEF PlainCall, Simple, ShapesKept, Links, ReasonsToEnd,
         PushCallerAudio, CallLive, sessionSide, speech, toolSide
    <3>2. Switches'
      BY <1>14, <2>1, <2>2 DEF PlainCall, Simple, Switches, PushCallerAudio, CallLive,
         sessionSide, speech, toolSide
    <3>3. ListsKept'
      BY <1>14, <2>1, <2>2 DEF PlainCall, Simple, ListsKept, PushCallerAudio, CallLive,
         sessionSide, speech, toolSide
    <3>4. Counters'
      <4>1. uttered' = uttered /\ idle' = 0 /\ clock' = clock /\ dialogueFaults' = dialogueFaults
        BY <1>14 DEF PushCallerAudio, sessionSide, speech
      <4> QED BY <4>1 DEF PlainCall, Simple, Counters
    <3> QED BY <3>1, <3>2, <3>3, <3>4 DEF Simple, ShapesKept, Switches, ListsKept, Counters
  <2>12. Noticed'
    <3>1. /\ mem'.stage = 0 /\ mem'.wrapped = mem.wrapped /\ notices' = <<>> /\ closer' = closer /\ clock' = clock
          /\ link' = link /\ over' = over
      BY <1>14, <2>1 DEF PushCallerAudio, CallLive
    <3>2. "missed tick" \in excepted => "missed tick" \in excepted'
      BY <2>2
    <3>3. mem'.stage # 1 /\ mem'.stage # 2
      BY <3>1
    <3>4. /\ clock = 2 => mem.wrapped \/ "missed tick" \in excepted
          /\ link = "late" => over # "no"
      BY Zenon DEF PlainCall, Noticed
    <3>5. clock' = 2 => mem'.wrapped \/ "missed tick" \in excepted'
      BY <3>1, <3>2, <3>4, Zenon
    <3> QED BY <2>2, <3>1, <3>3, <3>4, <3>5, Zenon DEF Noticed
  <2>13. HangUpIsAnnounced'
    BY <1>14, <2>1, <2>2 DEF PlainCall, HangUpIsAnnounced, Simple, ShapesKept, Switches,
       ListsKept, Counters, PushCallerAudio, CallLive, sessionSide, speech, toolSide
  <2>14. NoOrphan' /\ (waiting \subseteq excepted)'
    BY <1>14, <2>1, <2>2 DEF PlainCall, NoOrphan, Simple, ShapesKept, Switches, ListsKept,
       Counters, Noticed, PushCallerAudio, CallLive, sessionSide, speech, toolSide
  <2> QED BY <2>11, <2>12, <2>13, <2>14 DEF PlainCall
<1>15. CASE FramesStop
  <2>11. Simple'
    <3>1. ShapesKept'
      BY <1>1, <1>2, <1>15 DEF PlainCall, Simple, ShapesKept, Links, ReasonsToEnd, FramesStop,
         CallLive, sessionSide, speech, memory, toolSide
    <3>2. Switches'
      BY <1>1, <1>2, <1>15 DEF PlainCall, Simple, Switches, FramesStop, CallLive, sessionSide,
         speech, memory, toolSide
    <3>3. ListsKept'
      BY <1>1, <1>2, <1>15 DEF PlainCall, Simple, ListsKept, FramesStop, CallLive, sessionSide,
         speech, memory, toolSide
    <3>4. Counters'
      BY <1>1, <1>2, <1>15 DEF PlainCall, Simple, Counters, FramesStop, CallLive, sessionSide,
         speech, memory, toolSide
    <3> QED BY <3>1, <3>2, <3>3, <3>4 DEF Simple, ShapesKept, Switches, ListsKept, Counters
  <2>12. Noticed'
    BY <1>1, <1>2, <1>15 DEF PlainCall, Noticed, Simple, ShapesKept, Switches, ListsKept,
       Counters, FramesStop, CallLive, sessionSide, speech, memory, toolSide
  <2>13. HangUpIsAnnounced'
    BY <1>1, <1>2, <1>15 DEF PlainCall, HangUpIsAnnounced, Simple, ShapesKept, Switches,
       ListsKept, Counters, FramesStop, CallLive, sessionSide, speech, memory, toolSide
  <2>14. NoOrphan' /\ (waiting \subseteq excepted)'
    BY <1>1, <1>2, <1>15 DEF PlainCall, NoOrphan, Simple, ShapesKept, Switches, ListsKept,
       Counters, Noticed, FramesStop, CallLive, sessionSide, speech, memory, toolSide
  <2> QED BY <2>11, <2>12, <2>13, <2>14 DEF PlainCall
<1>16. CASE TimePasses
  <2>0. dialogueFaults' \in 0..DialogueFaults
    BY <1>1, <1>2, <1>16, Zenon DEF TimePasses
  <2>1. excepted' \subseteq Excuses \cup Items /\ excepted \subseteq excepted' /\ (clock' = 2 => mem.wrapped \/ "missed tick" \in excepted')
    <3>1. excepted' \subseteq excepted \cup {"missed tick"} /\ excepted \subseteq excepted'
      BY <1>16 DEF TimePasses
    <3>2. clock' = 2 => mem.wrapped \/ "missed tick" \in excepted'
      <4>1. clock' = 2 => clock = 1
        <5>1. clock' = clock + 1
          BY <1>16, Zenon DEF TimePasses
        <5> QED BY <5>1 DEF PlainCall, Simple, Counters
      <4>2. clock = 1 => mem.wrapped \/ excepted' = excepted \cup {"missed tick"}
        BY <1>16 DEF TimePasses
      <4> QED BY <4>1, <4>2
    <3> QED BY <3>1, <3>2 DEF PlainCall, Simple, ListsKept, Excuses
  <2>11. Simple'
    <3>1. ShapesKept'
      BY <1>1, <1>2, <1>16, <2>1 DEF PlainCall, Simple, ShapesKept, Links, ReasonsToEnd,
         TimePasses, CallLive, sessionSide, speech, memory, toolSide
    <3>2. Switches'
      BY <1>1, <1>2, <1>16, <2>1 DEF PlainCall, Simple, Switches, TimePasses, CallLive,
         sessionSide, speech, memory, toolSide
    <3>3. ListsKept'
      BY <1>1, <1>2, <1>16, <2>1 DEF PlainCall, Simple, ListsKept, TimePasses, CallLive,
         sessionSide, speech, memory, toolSide
    <3>4. Counters'
      <4>1. uttered' = uttered /\ idle' = idle /\ clock < 2 /\ clock' = clock + 1
        BY <1>16 DEF TimePasses, sessionSide, speech
      <4> QED BY <2>0, <4>1 DEF PlainCall, Simple, Counters
    <3> QED BY <3>1, <3>2, <3>3, <3>4 DEF Simple, ShapesKept, Switches, ListsKept, Counters
  <2>12. Noticed'
    BY <1>1, <1>2, <1>16, <2>1 DEF PlainCall, Noticed, Simple, ShapesKept, Switches, ListsKept,
       Counters, TimePasses, CallLive, sessionSide, speech, memory, toolSide
  <2>13. HangUpIsAnnounced'
    BY <1>1, <1>2, <1>16, <2>1 DEF PlainCall, HangUpIsAnnounced, Simple, ShapesKept, Switches,
       ListsKept, Counters, TimePasses, CallLive, sessionSide, speech, memory, toolSide
  <2>14. NoOrphan' /\ (waiting \subseteq excepted)'
    BY <1>1, <1>2, <1>16, <2>1 DEF PlainCall, NoOrphan, Simple, ShapesKept, Switches, ListsKept,
       Counters, Noticed, TimePasses, CallLive, sessionSide, speech, memory, toolSide
  <2> QED BY <2>11, <2>12, <2>13, <2>14 DEF PlainCall
<1>17. CASE WrapUp \/ Probe \/ FinalNotice
  <2>1. PICK item \in {"wrapup", "probe", "final"} : AskModel(item)
    BY <1>17 DEF WrapUp, Probe, FinalNotice
  <2>2. /\ generating' = TRUE /\ waiting' \subseteq Items /\ waiting' \subseteq excepted'
        /\ excepted' \subseteq Excuses \cup Items
        /\ \A x \in Excuses : x \in excepted' <=> x \in excepted
    <3>1. item \in Items
      BY DEF Items
    <3> QED BY <2>1, <3>1, ModelIsAsked
  <2>3. mem' \in Memories /\ closer' \in BOOLEAN
    <3>1. mem \in Memories /\ closer \in BOOLEAN
      BY DEF PlainCall, Simple, ShapesKept, Switches
    <3> QED BY <1>17, <3>1, MemoryChanges DEF WrapUp, Probe, FinalNotice
  <2>4. /\ mem'.stage = 0 => notices' = <<>>
        /\ mem'.stage = 1 => notices' = <<"probe">>
        /\ mem'.stage = 2 => notices' = <<"probe", "final">>
        /\ closer' => mem'.stage = 2 \/ "called back" \in excepted
        /\ mem.wrapped => mem'.wrapped
    <3>0. mem \in Memories /\ Noticed
      BY DEF PlainCall, Simple, ShapesKept
    <3>1. CASE WrapUp
      <4>1. mem' = [mem EXCEPT !.wrapped = TRUE] /\ notices' = notices /\ closer' = closer
        BY <3>1 DEF WrapUp
      <4>2. mem'.stage = mem.stage /\ mem'.wrapped
        BY <3>0, <4>1, MemoryChanges
      <4> QED BY <3>0, <4>1, <4>2, Zenon DEF Noticed
    <3>2. CASE Probe
      <4>1. mem' = [mem EXCEPT !.stage = 1] /\ mem.stage = 0 /\ notices' = Append(notices, "probe") /\ closer' = closer
        BY <3>2 DEF Probe
      <4>2. mem'.stage = 1 /\ mem'.wrapped = mem.wrapped
        BY <3>0, <4>1, MemoryChanges
      <4>3. notices = <<>>
        BY <3>0, <4>1, Zenon DEF Noticed
      <4>4. notices' = <<"probe">>
        <5>1. Append(<<>>, "probe") = <<"probe">>
          OBVIOUS
        <5> QED BY <4>1, <4>3, <5>1, Zenon
      <4>5. mem'.stage # 0 /\ mem'.stage # 2 /\ mem.stage # 2
        BY <4>1, <4>2
      <4>6. closer => "called back" \in excepted
        BY <3>0, <4>5, Zenon DEF Noticed
      <4> QED BY <4>1, <4>2, <4>4, <4>5, <4>6, Zenon
    <3>3. CASE FinalNotice
      <4>1. mem' = [mem EXCEPT !.stage = 2] /\ mem.stage = 1 /\ notices' = Append(notices, "final") /\ closer'
        BY <3>3 DEF FinalNotice
      <4>2. mem'.stage = 2 /\ mem'.wrapped = mem.wrapped
        BY <3>0, <4>1, MemoryChanges
      <4>3. notices = <<"probe">>
        BY <3>0, <4>1, Zenon DEF Noticed
      <4>4. notices' = <<"probe", "final">>
        <5>1. Append(<<"probe">>, "final") = <<"probe", "final">>
          <6>1. <<"probe">> \in Seq({"probe", "final"}) /\ Len(<<"probe">>) = 1 /\ <<"probe">>[1] = "probe"
            OBVIOUS
          <6>2. <<"probe", "final">> \in Seq({"probe", "final"}) /\ Len(<<"probe", "final">>) = 2
                /\ <<"probe", "final">>[1] = "probe" /\ <<"probe", "final">>[2] = "final"
            OBVIOUS
          <6> DEFINE a == Append(<<"probe">>, "final")
          <6> DEFINE b == <<"probe", "final">>
          <6>3. a \in Seq({"probe", "final"}) /\ Len(a) = 2 /\ a[1] = "probe" /\ a[2] = "final"
            BY <6>1, AppendProperties
          <6> HIDE DEF a, b
          <6>4. b \in Seq({"probe", "final"}) /\ Len(b) = 2 /\ b[1] = "probe" /\ b[2] = "final"
            BY <6>2 DEF b
          <6>5. \A i \in 1..2 : a[i] = b[i]
            BY <6>3, <6>4
          <6>6. a = b
            BY <6>3, <6>4, <6>5, SeqEqual
          <6> QED BY <6>6 DEF a, b
        <5> QED BY <4>1, <4>3, <5>1, Zenon
      <4>5. mem'.stage # 0 /\ mem'.stage # 1
        BY <4>2
      <4> QED BY <4>1, <4>2, <4>4, <4>5, Zenon
    <3> QED BY <1>17, <3>1, <3>2, <3>3
  <2>11. Simple'
    <3>1. ShapesKept'
      BY <1>17, <2>2, <2>3, <2>4 DEF PlainCall, Simple, ShapesKept, Links, ReasonsToEnd, WrapUp,
         Probe, FinalNotice, CallLive, tickFrame, speech, toolSide
    <3>2. Switches'
      BY <1>17, <2>2, <2>3, <2>4 DEF PlainCall, Simple, Switches, WrapUp, Probe, FinalNotice,
         CallLive, tickFrame, speech, toolSide
    <3>3. ListsKept'
      BY <1>17, <2>2, <2>3, <2>4 DEF PlainCall, Simple, ListsKept, WrapUp, Probe, FinalNotice,
         CallLive, tickFrame, speech, toolSide
    <3>4. Counters'
      BY <1>17, <2>2, <2>3, <2>4 DEF PlainCall, Simple, Counters, WrapUp, Probe, FinalNotice,
         CallLive, tickFrame, speech, toolSide
    <3> QED BY <3>1, <3>2, <3>3, <3>4 DEF Simple, ShapesKept, Switches, ListsKept, Counters
  <2>12. Noticed'
    BY <1>17, <2>2, <2>3, <2>4 DEF PlainCall, Noticed, Simple, ShapesKept, Switches, ListsKept,
       Counters, Excuses, WrapUp, Probe, FinalNotice, CallLive, tickFrame, speech, toolSide
  <2>13. HangUpIsAnnounced'
    BY <1>17, <2>2, <2>3, <2>4 DEF PlainCall, HangUpIsAnnounced, Simple, ShapesKept, Switches,
       ListsKept, Counters, Excuses, WrapUp, Probe, FinalNotice, CallLive, tickFrame, speech,
       toolSide
  <2>14. NoOrphan' /\ (waiting \subseteq excepted)'
    BY <1>17, <2>2, <2>3, <2>4 DEF PlainCall, NoOrphan, Simple, ShapesKept, Switches, ListsKept,
       Counters, Noticed, Excuses, WrapUp, Probe, FinalNotice, CallLive, tickFrame, speech,
       toolSide
  <2> QED BY <2>11, <2>12, <2>13, <2>14 DEF PlainCall
<1> QED BY <1>3, <1>4, <1>5, <1>6, <1>7, <1>8, <1>9, <1>10, <1>11, <1>12, <1>13, <1>14, <1>15,
    <1>16, <1>17 DEF DialogueNext

\* What begins with a sound or a tool of the model is over when the model is done.
Followed(s, busy) ==
  \A k \in 1..Len(s) :
    s[k] \in {"audio"} \cup DialogueTools => busy \/ \E j \in 1..Len(s) : j > k /\ s[j] = "done"

\* A status that is not at rest has a response to wait for, or what is left of one.
Busied ==
  CallLive /\ mem.status \notin {"LISTENING", "ACTIVE"} =>
    generating \/ Contains(stream, "done") \/ "late thought" \in excepted

\* An event that needs no end may follow.
LEMMA Appended ==
  ASSUME NEW S, NEW s \in Seq(S), NEW e \in S, NEW busy \in BOOLEAN, Followed(s, busy),
         e \notin {"audio"} \cup DialogueTools
  PROVE  Followed(Append(s, e), busy) /\ (Contains(s, "done") => Contains(Append(s, e), "done"))
<1> DEFINE t == Append(s, e)
<1>1. Len(s) \in Nat /\ Len(t) = Len(s) + 1 /\ t[Len(s) + 1] = e /\ \A i \in 1..Len(s) : t[i] = s[i]
  BY AppendProperties
<1> HIDE DEF t
<1>2. Followed(t, busy)
  BY <1>1 DEF Followed
<1>3. Contains(s, "done") => Contains(t, "done")
  BY <1>1 DEF Contains
<1> QED BY <1>2, <1>3 DEF t

\* The first event is taken.
LEMMA Taken1 ==
  ASSUME NEW S, NEW s \in Seq(S), s # <<>>, NEW busy \in BOOLEAN, Followed(s, busy)
  PROVE  /\ Followed(Tail(s), busy)
         /\ Head(s) \in {"audio"} \cup DialogueTools => busy \/ Contains(Tail(s), "done")
         /\ Head(s) # "done" /\ Contains(s, "done") => Contains(Tail(s), "done")
<1> DEFINE t == Tail(s)
<1>1. Len(s) \in Nat \ {0} /\ Len(t) = Len(s) - 1 /\ Head(s) = s[1] /\ \A i \in 1..Len(t) : t[i] = s[i + 1]
  BY HeadTailProperties, EmptySeq, LenProperties
<1> HIDE DEF t
<1>2. Followed(t, busy)
  <2> SUFFICES ASSUME NEW k \in 1..Len(t), t[k] \in {"audio"} \cup DialogueTools, ~busy
               PROVE  \E j \in 1..Len(t) : j > k /\ t[j] = "done"
    BY DEF Followed
  <2>1. k + 1 \in 1..Len(s) /\ s[k + 1] = t[k]
    BY <1>1
  <2>2. PICK j \in 1..Len(s) : j > k + 1 /\ s[j] = "done"
    BY <2>1 DEF Followed
  <2>3. j - 1 \in 1..Len(t) /\ j - 1 > k /\ t[j - 1] = s[j]
    BY <1>1, <2>2
  <2> QED BY <2>2, <2>3
<1>3. ASSUME NEW j \in 1..Len(s), s[j] = "done", j > 1 PROVE Contains(t, "done")
  <2>1. j - 1 \in 1..Len(t) /\ t[j - 1] = s[j]
    BY <1>1, <1>3
  <2> QED BY <1>3, <2>1 DEF Contains
<1>4. s[1] \in {"audio"} \cup DialogueTools => busy \/ Contains(t, "done")
  <2> SUFFICES ASSUME s[1] \in {"audio"} \cup DialogueTools, ~busy PROVE Contains(t, "done")
    OBVIOUS
  <2>1. 1 \in 1..Len(s)
    BY <1>1
  <2>2. PICK j \in 1..Len(s) : j > 1 /\ s[j] = "done"
    BY <2>1 DEF Followed
  <2> QED BY <1>3, <2>2
<1>5. s[1] # "done" /\ Contains(s, "done") => Contains(t, "done")
  <2> SUFFICES ASSUME s[1] # "done", Contains(s, "done") PROVE Contains(t, "done")
    OBVIOUS
  <2>1. PICK j \in 1..Len(s) : s[j] = "done"
    BY DEF Contains
  <2>2. j > 1
    BY <2>1, <1>1
  <2> QED BY <1>3, <2>1, <2>2
<1> QED BY <1>1, <1>2, <1>4, <1>5 DEF t

\* The end of a response answers for all before it.
LEMMA DoneIsLast ==
  ASSUME NEW S, NEW s \in Seq(S), "done" \in S, "done" \notin DialogueTools
  PROVE  Followed(s \o <<"done">>, FALSE) /\ Contains(s \o <<"done">>, "done")
<1> DEFINE t == s \o <<"done">>
<1>1. Len(s) \in Nat /\ Len(t) = Len(s) + 1 /\ t[Len(s) + 1] = "done"
  OBVIOUS
<1> HIDE DEF t
<1>2. Followed(t, FALSE)
  BY <1>1 DEF Followed
<1>3. Contains(t, "done")
  BY <1>1 DEF Contains
<1> QED BY <1>2, <1>3 DEF t

StreamInv == Followed(stream, generating) /\ Busied

\* Every step keeps an end for what has begun.
LEMMA StreamStep == PlainCall /\ StreamInv /\ DialogueNext => StreamInv'
<1> SUFFICES ASSUME PlainCall, StreamInv, DialogueNext PROVE StreamInv'
  OBVIOUS
<1> DEFINE S == SessionEvents \cup toolsAsked
<1>0. stream \in Seq(S) /\ SessionEvents \subseteq S /\ generating \in BOOLEAN /\ mem \in Memories
  BY DEF PlainCall, Simple, ShapesKept, Switches, SessionStream
<1>a. SessionEvents \cap DialogueTools = {} /\ {"speech_started", "customer", "done"} \subseteq SessionEvents
      /\ Excuses \cap Items = {}
  BY DialogueAssumption, DialogueConstants DEF SessionEvents
<1> HIDE DEF S
<1>b. generating' = TRUE => Followed(stream', generating') /\ Busied'
  BY DEF Followed, Busied
\* While the status stays and nothing is taken away, what there was to wait for is still there.
<1>c. ASSUME mem'.status = mem.status, generating' = generating, over' = over, link' = link,
             Contains(stream, "done") => Contains(stream', "done"),
             "late thought" \in excepted => "late thought" \in excepted'
      PROVE  Busied'
  BY <1>c DEF StreamInv, Busied, CallLive
<1>1. CASE \E reason \in ReasonsToEnd : EndDialogue(reason) /\ reason # "no"
  <2>1. stream' = <<>> /\ over' # "no"
    BY <1>1 DEF EndDialogue
  <2>2. Len(<<>>) = 0 /\ 1..0 = {}
    OBVIOUS
  <2>3. Followed(stream', generating')
    BY <2>1, <2>2 DEF Followed
  <2> QED BY <2>1, <2>3 DEF StreamInv, Busied, CallLive
<1>2. CASE OpenTooLate \/ CallerHangsUp \/ SocketError("REALTIME_CLOSED") \/ SocketError("REALTIME_ERROR") \/ EndOverlong \/ EndSilent
  BY <1>1, <1>2 DEF OpenTooLate, CallerHangsUp, SocketError, EndOverlong, EndSilent, HangUp,
     ReasonsToEnd
<1>3. CASE OpenInTime \/ CallerStops \/ WrapUp \/ Probe \/ FinalNotice \/ \E t \in DialogueTools : ToolEnds(t)
  <2>1. generating' = TRUE
    BY <1>3 DEF OpenInTime, CallerStops, WrapUp, Probe, FinalNotice, ToolEnds, SendToolResult,
       AskModel
  <2> QED BY <1>b, <2>1 DEF StreamInv
<1>4. CASE LateLinkOpens
  <2>1. stream' = stream /\ generating' = generating /\ over' = over /\ over # "no"
    BY <1>4 DEF LateLinkOpens, sessionSide, PlainCall, Noticed
  <2> QED BY <2>1 DEF StreamInv, Busied, CallLive, Followed
<1>5. CASE CallerStarts \/ Transcribe
  <2>1. PICK e \in {"speech_started", "customer"} : stream' = Append(stream, e)
    BY <1>5 DEF CallerStarts, Transcribe
  <2>2. mem' = mem /\ generating' = generating /\ over' = over /\ link' = link /\ excepted' = excepted
    BY <1>5 DEF CallerStarts, Transcribe, memory
  <2>3. e \in S /\ e \notin {"audio"} \cup DialogueTools
    BY <1>0, <1>a
  <2>4. Followed(Append(stream, e), generating) /\ (Contains(stream, "done") => Contains(Append(stream, e), "done"))
    BY <1>0, <2>3, Appended DEF StreamInv
  <2> QED BY <1>c, <2>1, <2>2, <2>4 DEF StreamInv
<1>6. ASSUME NEW t \in DialogueTools, ReplyCallsTool(t) PROVE StreamInv'
  <2>1. generating' = TRUE
    BY <1>0, <1>6 DEF ReplyCallsTool, sessionSide
  <2> QED BY <1>b, <2>1 DEF StreamInv
<1>7. ASSUME NEW spoken \in BOOLEAN, ReplyEnds(spoken) PROVE StreamInv'
  <2>1. PICK s \in Seq(S) : stream' = s \o <<"done">>
    <3>1. <<"audio", "assistant">> \in Seq(S) /\ <<>> \in Seq(S)
      BY <1>0 DEF SessionEvents
    <3>2. stream \o <<"audio", "assistant">> \in Seq(S) /\ stream \o <<>> \in Seq(S)
      BY <1>0, <3>1
    <3> QED BY <1>7, <3>2 DEF ReplyEnds
  <2>2. generating' = FALSE
    BY <1>7 DEF ReplyEnds
  <2>3. Followed(s \o <<"done">>, FALSE) /\ Contains(s \o <<"done">>, "done")
    BY <1>0, <1>a, DoneIsLast
  <2> QED BY <2>1, <2>2, <2>3 DEF StreamInv, Busied
<1>8. CASE Deliver
  <2>1. stream # <<>> /\ over' = over /\ link' = link /\ excepted' = excepted
    BY <1>8 DEF Deliver
  <2> DEFINE e == Head(stream)
  <2>2. Followed(Tail(stream), generating)
        /\ (e \in {"audio"} \cup DialogueTools => generating \/ Contains(Tail(stream), "done"))
        /\ (e # "done" /\ Contains(stream, "done") => Contains(Tail(stream), "done"))
    BY <1>0, <2>1, Taken1 DEF StreamInv
  <2>3. CASE e \in {"audio"} \cup DialogueTools
    <3>1. stream' = Tail(stream) /\ generating' = generating
      BY <1>8, <1>a, <2>3 DEF Deliver, sessionSide, SessionEvents
    <3> QED BY <2>2, <2>3, <3>1 DEF StreamInv, Busied
  <2>4. CASE e \in {"assistant", "customer"}
    <3>1. stream' = Tail(stream) /\ generating' = generating /\ mem' = mem
      BY <1>8, <1>a, <2>4 DEF Deliver, sessionSide, SessionEvents, AppendTranscript
    <3> QED BY <1>c, <2>1, <2>2, <2>4, <3>1 DEF StreamInv
  <2>5. CASE e \in {"speech_started", "done"}
    <3>1. mem'.status = "LISTENING"
      <4>1. mem' = [mem EXCEPT !.status = "LISTENING"]
        BY <1>8, <1>a, <2>5 DEF Deliver, SessionEvents, Status
      <4> QED BY <1>0, <4>1, MemoryChanges
    <3>2. Followed(stream', generating')
      <4>1. CASE e = "speech_started" /\ generating
        <5>1. Tail(stream) \in Seq(S)
          BY <1>0, <2>1, HeadTailProperties
        <5>2. Followed(Tail(stream) \o <<"done">>, FALSE)
          BY <1>0, <1>a, <5>1, DoneIsLast
        <5>3. stream' = Tail(stream) \o <<"done">> /\ generating' = FALSE
          BY <1>8, <1>a, <4>1 DEF Deliver, SessionEvents
        <5> QED BY <5>2, <5>3
      <4>2. CASE e = "speech_started" /\ ~generating
        <5>1. Tail(stream) \in Seq(S)
          BY <1>0, <2>1, HeadTailProperties
        <5>2. Tail(stream) \o <<>> = Tail(stream)
          BY <5>1
        <5>3. stream' = Tail(stream) \o <<>> /\ generating' = FALSE
          BY <1>8, <1>a, <4>2 DEF Deliver, SessionEvents
        <5> QED BY <1>0, <2>2, <4>2, <5>2, <5>3
      <4>3. CASE e = "done"
        <5>1. stream' = Tail(stream) /\ generating' = generating
          BY <1>8, <1>a, <4>3 DEF Deliver, sessionSide, SessionEvents
        <5> QED BY <2>2, <5>1
      <4> QED BY <2>5, <4>1, <4>2, <4>3
    <3> QED BY <3>1, <3>2 DEF StreamInv, Busied
  <2> QED BY <1>8, <2>3, <2>4, <2>5 DEF Deliver
<1>9. CASE SettleTurn
  <2>1. stream' = stream /\ generating' = generating
    BY <1>9 DEF SettleTurn, sessionSide
  <2>2. generating \/ Contains(stream, "done") \/ "late thought" \in excepted'
    BY <1>9 DEF SettleTurn
  <2> QED BY <2>1, <2>2 DEF StreamInv, Busied
<1>10. CASE PushCallerAudio \/ FramesStop \/ TimePasses
  <2>1. stream' = stream /\ generating' = generating /\ over' = over /\ link' = link /\ excepted \subseteq excepted'
    BY <1>10 DEF PushCallerAudio, FramesStop, TimePasses, sessionSide
  <2>2. mem'.status = mem.status
    <3>1. mem' = mem \/ mem' = [mem EXCEPT !.stage = 0]
      BY <1>10 DEF PushCallerAudio, FramesStop, TimePasses, memory
    <3> QED BY <1>0, <3>1, MemoryChanges
  <2>3. Busied'
    BY <1>c, <2>1, <2>2
  <2> QED BY <2>1, <2>3 DEF StreamInv
<1> QED BY <1>2, <1>3, <1>4, <1>5, <1>6, <1>7, <1>8, <1>9, <1>10 DEF DialogueNext

\* What is removed is the first, where it is at the head.
LEMMA Removed ==
  ASSUME NEW S, NEW s \in Seq(S), NEW e
  PROVE  /\ RemoveFirst(s, e) \in Seq(S)
         /\ s # <<>> /\ Head(s) = e => RemoveFirst(s, e) = Tail(s)
<1> DEFINE I == {i \in 1..Len(s) : s[i] = e}
<1> DEFINE k == CHOOSE x \in I : \A y \in I : x <= y
<1>1. I = {} => RemoveFirst(s, e) = s
  BY DEF RemoveFirst
<1>2. I # {} => RemoveFirst(s, e) = SubSeq(s, 1, k - 1) \o SubSeq(s, k + 1, Len(s))
  BY DEF RemoveFirst, RemoveAt, SelectInSeq, Min
<1>3. I # {} => k \in I /\ \A y \in I : k <= y
  <2> SUFFICES ASSUME I # {} PROVE \E x \in I : \A y \in I : x <= y
    OBVIOUS
  <2>1. I \in SUBSET Nat
    BY LenProperties
  <2> HIDE DEF I
  <2> QED BY <2>1, EarliestOf
<1> HIDE DEF k
<1>4. ASSUME I # {} PROVE RemoveFirst(s, e) \in Seq(S)
  <2>1. k \in 1..Len(s) /\ Len(s) \in Nat /\ \A i \in 1..Len(s) : s[i] \in S
    BY <1>3, <1>4, LenProperties
  <2>2. SubSeq(s, 1, k - 1) \in Seq(S) /\ SubSeq(s, k + 1, Len(s)) \in Seq(S)
    BY <2>1, SubSeqProperties
  <2> QED BY <1>2, <1>4, <2>2, ConcatProperties
<1>5. ASSUME s # <<>>, Head(s) = e PROVE RemoveFirst(s, e) = Tail(s)
  <2>1. Len(s) \in Nat \ {0} /\ s[1] = e /\ 1 \in I
    BY <1>5, EmptySeq, LenProperties
  <2>2. k = 1
    BY <1>3, <2>1
  <2>3. SubSeq(s, 1, 0) = <<>> /\ SubSeq(s, 2, Len(s)) = Tail(s) /\ Tail(s) \in Seq(S)
    BY <1>5, <2>1, SubSeqEmpty, TailIsSubSeq, HeadTailProperties
  <2>4. <<>> \o Tail(s) = Tail(s)
    BY <2>3, ConcatEmptySeq
  <2> QED BY <1>2, <2>1, <2>2, <2>3, <2>4
<1> QED BY <1>1, <1>4, <1>5

-----------------------------------------------------------------------------
\* The customer's transcripts on their way.
Transcripts(s) == {k \in 1..Len(s) : s[k] = "customer"}

\* The transcripts on their way can be counted.
LEMMA TranscriptsFinite ==
  ASSUME NEW S, NEW s \in Seq(S)
  PROVE  IsFiniteSet(Transcripts(s)) /\ Cardinality(Transcripts(s)) \in Nat
<1>1. Transcripts(s) \subseteq 1..Len(s) /\ Len(s) \in Nat
  BY LenProperties DEF Transcripts
<1>2. IsFiniteSet(1..Len(s))
  BY <1>1, FS_Interval
<1>3. IsFiniteSet(Transcripts(s))
  BY <1>1, <1>2, FS_Subset
<1> QED BY <1>3, FS_CardinalityType

\* An event more, and a transcript more if it is one.
LEMMA TranscriptsAppended ==
  ASSUME NEW S, NEW s \in Seq(S), NEW e \in S
  PROVE  /\ e # "customer" => Transcripts(Append(s, e)) = Transcripts(s)
         /\ e = "customer" => Cardinality(Transcripts(Append(s, e))) = Cardinality(Transcripts(s)) + 1
<1> DEFINE t == Append(s, e)
<1>1. Len(s) \in Nat /\ Len(t) = Len(s) + 1 /\ t[Len(s) + 1] = e /\ \A i \in 1..Len(s) : t[i] = s[i]
  BY AppendProperties
<1> HIDE DEF t
<1>2. e # "customer" => Transcripts(t) = Transcripts(s)
  BY <1>1 DEF Transcripts
<1>3. e = "customer" => Transcripts(t) = Transcripts(s) \cup {Len(s) + 1} /\ Len(s) + 1 \notin Transcripts(s)
  BY <1>1 DEF Transcripts
<1> QED BY <1>2, <1>3, TranscriptsFinite, FS_AddElement DEF t

\* Other events add none.
LEMMA TranscriptsConcat ==
  ASSUME NEW S, NEW s \in Seq(S), NEW t \in Seq(S), \A k \in 1..Len(t) : t[k] # "customer"
  PROVE  Transcripts(s \o t) = Transcripts(s)
<1> DEFINE u == s \o t
<1>1. /\ Len(s) \in Nat /\ Len(t) \in Nat /\ Len(u) = Len(s) + Len(t)
      /\ \A i \in 1..Len(u) : u[i] = IF i <= Len(s) THEN s[i] ELSE t[i - Len(s)]
  BY ConcatProperties, LenProperties
<1> HIDE DEF u
<1>2. ASSUME NEW i \in 1..Len(u), i > Len(s) PROVE u[i] # "customer"
  <2>1. i - Len(s) \in 1..Len(t) /\ ~(i <= Len(s))
    BY <1>1, <1>2
  <2> QED BY <1>1, <2>1
<1>3. \A i \in 1..Len(s) : i \in 1..Len(u) /\ u[i] = s[i]
  BY <1>1
<1>4. \A i \in 1..Len(u) : i \in 1..Len(s) \/ i > Len(s)
  BY <1>1
<1>5. Transcripts(u) = Transcripts(s)
  BY <1>2, <1>3, <1>4 DEF Transcripts
<1> QED BY <1>5 DEF u

\* The first event is taken from the count if it is a transcript.
LEMMA TranscriptsTaken ==
  ASSUME NEW S, NEW s \in Seq(S), s # <<>>
  PROVE  /\ Head(s) # "customer" => Cardinality(Transcripts(Tail(s))) = Cardinality(Transcripts(s))
         /\ Head(s) = "customer" => Cardinality(Transcripts(s)) = Cardinality(Transcripts(Tail(s))) + 1
<1> DEFINE t == Tail(s)
<1>1. Len(s) \in Nat \ {0} /\ Len(t) = Len(s) - 1 /\ Head(s) = s[1] /\ \A i \in 1..Len(t) : t[i] = s[i + 1]
  BY HeadTailProperties, EmptySeq, LenProperties
<1>2. t \in Seq(S)
  BY HeadTailProperties
<1> HIDE DEF t
<1> DEFINE later == Transcripts(s) \ {1}
           f == [k \in Transcripts(t) |-> k + 1]
<1>3. f \in Bijection(Transcripts(t), later)
  <2>1. \A k \in Transcripts(t) : k \in Int /\ k + 1 \in later
    BY <1>1 DEF Transcripts
  <2>2. \A k \in later : k - 1 \in Transcripts(t) /\ (k - 1) + 1 = k
    BY <1>1 DEF Transcripts
  <2>3. f \in [Transcripts(t) -> later] /\ \A a, b \in Transcripts(t) : f[a] = f[b] => a = b
    BY <2>1
  <2>4. \A k \in later : \E a \in Transcripts(t) : f[a] = k
    BY <2>2
  <2> HIDE DEF f, later
  <2>5. f \in Injection(Transcripts(t), later)
    BY <2>3, Zenon DEF Injection, IsInjective
  <2>6. f \in Surjection(Transcripts(t), later)
    BY <2>3, <2>4, Zenon DEF Surjection
  <2> QED BY <2>5, <2>6, Zenon DEF Bijection
<1>4. Cardinality(later) = Cardinality(Transcripts(t))
  <2>1. IsFiniteSet(Transcripts(t))
    BY <1>2, TranscriptsFinite
  <2>2. ExistsBijection(Transcripts(t), later)
    BY <1>3 DEF ExistsBijection
  <2> QED BY <2>1, <2>2, FS_Bijection
<1>5. 1 \in Transcripts(s) <=> Head(s) = "customer"
  BY <1>1 DEF Transcripts
<1>6. Head(s) # "customer" => later = Transcripts(s)
  BY <1>5
<1>7. Head(s) = "customer" => Cardinality(later) = Cardinality(Transcripts(s)) - 1
  BY <1>5, TranscriptsFinite, FS_RemoveElement
<1>8. Cardinality(Transcripts(s)) \in Nat /\ Cardinality(Transcripts(t)) \in Nat
  BY <1>2, TranscriptsFinite
<1> HIDE DEF later
<1>9. /\ Head(s) # "customer" => Cardinality(Transcripts(t)) = Cardinality(Transcripts(s))
      /\ Head(s) = "customer" => Cardinality(Transcripts(s)) = Cardinality(Transcripts(t)) + 1
  BY <1>4, <1>6, <1>7, <1>8
<1> QED BY <1>9 DEF t

\* Whatever the caller has said is still being written down, on its way, or being stored.
OnTheirWay == Cardinality(Transcripts(stream))
TalkingNow == IF talking THEN 1 ELSE 0
TurnsCounted ==
  unsettled \in Nat /\ toBeWritten \in Nat /\ unsettled + OnTheirWay + toBeWritten + TalkingNow <= uttered

-----------------------------------------------------------------------------
EventOf(who) == IF who = "CUSTOMER" THEN "customer" ELSE "assistant"

\* The transcripts in s are those of the first n turns of who, in their order.
Told(who, s, n) ==
  \E pos \in [1..n -> 1..Len(s)] :
    /\ \A i, j \in 1..n : i < j => pos[i] < pos[j]
    /\ \A i \in 1..n : s[pos[i]] = EventOf(who[i])
    /\ \A k \in 1..Len(s) : s[k] \in {"assistant", "customer"} => \E i \in 1..n : pos[i] = k

\* Only the first n turns matter.
LEMMA ToldAlike ==
  ASSUME NEW who, NEW more, NEW s, NEW n \in Nat, Told(who, s, n), \A i \in 1..n : more[i] = who[i]
  PROVE  Told(more, s, n)
BY DEF Told

\* Events that tell nothing change nothing.
LEMMA ToldQuiet ==
  ASSUME NEW S, NEW s \in Seq(S), NEW t \in Seq(S), NEW who, NEW n \in Nat, Told(who, s, n),
         \A k \in 1..Len(t) : t[k] \notin {"assistant", "customer"}
  PROVE  Told(who, s \o t, n)
<1> DEFINE u == s \o t
<1>1. /\ Len(s) \in Nat /\ Len(t) \in Nat /\ Len(u) = Len(s) + Len(t)
      /\ \A i \in 1..Len(u) : u[i] = IF i <= Len(s) THEN s[i] ELSE t[i - Len(s)]
  BY ConcatProperties, LenProperties
<1> HIDE DEF u
<1>2. ASSUME NEW i \in 1..Len(u), i > Len(s) PROVE u[i] \notin {"assistant", "customer"}
  <2>1. i - Len(s) \in 1..Len(t) /\ ~(i <= Len(s))
    BY <1>1, <1>2
  <2> QED BY <1>1, <2>1
<1>3. \A i \in 1..Len(s) : i \in 1..Len(u) /\ u[i] = s[i]
  BY <1>1
<1>4. \A i \in 1..Len(u) : i \in 1..Len(s) \/ i > Len(s)
  BY <1>1
<1>5. PICK pos \in [1..n -> 1..Len(s)] :
        /\ \A i, j \in 1..n : i < j => pos[i] < pos[j]
        /\ \A i \in 1..n : s[pos[i]] = EventOf(who[i])
        /\ \A k \in 1..Len(s) : s[k] \in {"assistant", "customer"} => \E i \in 1..n : pos[i] = k
  BY DEF Told
<1>6. pos \in [1..n -> 1..Len(u)]
  BY <1>3, <1>5
<1>7. \A i \in 1..n : u[pos[i]] = EventOf(who[i])
  BY <1>3, <1>5
<1>8. \A k \in 1..Len(u) : u[k] \in {"assistant", "customer"} => \E i \in 1..n : pos[i] = k
  BY <1>2, <1>3, <1>4, <1>5
<1>9. Told(who, u, n)
  BY <1>5, <1>6, <1>7, <1>8 DEF Told
<1> QED BY <1>9 DEF u

\* The transcript of the next turn may follow.
LEMMA ToldNext ==
  ASSUME NEW S, NEW s \in Seq(S), NEW e \in S, NEW who, NEW n \in Nat, Told(who, s, n), e = EventOf(who[n + 1])
  PROVE  Told(who, Append(s, e), n + 1)
<1> DEFINE u == Append(s, e)
<1>1. Len(s) \in Nat /\ Len(u) = Len(s) + 1 /\ u[Len(s) + 1] = e /\ \A i \in 1..Len(s) : u[i] = s[i]
  BY AppendProperties
<1> HIDE DEF u
<1>2. PICK pos \in [1..n -> 1..Len(s)] :
        /\ \A i, j \in 1..n : i < j => pos[i] < pos[j]
        /\ \A i \in 1..n : s[pos[i]] = EventOf(who[i])
        /\ \A k \in 1..Len(s) : s[k] \in {"assistant", "customer"} => \E i \in 1..n : pos[i] = k
  BY DEF Told
<1> DEFINE q == [i \in 1..(n + 1) |-> IF i = n + 1 THEN Len(s) + 1 ELSE pos[i]]
<1>3. \A i \in 1..n : i \in 1..(n + 1) /\ i # n + 1 /\ pos[i] \in 1..Len(s)
  BY <1>2
<1>4. n + 1 \in 1..(n + 1) /\ Len(s) + 1 \in 1..Len(u) /\ \A i \in 1..(n + 1) : i = n + 1 \/ i \in 1..n
  BY <1>1
<1>5. q[n + 1] = Len(s) + 1 /\ \A i \in 1..n : q[i] = pos[i]
  BY <1>3, <1>4
<1>6. q \in [1..(n + 1) -> 1..Len(u)]
  <2>1. 1..Len(s) \subseteq 1..Len(u)
    BY <1>1
  <2> QED BY <1>3, <1>4, <2>1
<1> HIDE DEF q
<1>7. \A i, j \in 1..(n + 1) : i < j => q[i] < q[j]
  <2> SUFFICES ASSUME NEW i \in 1..(n + 1), NEW j \in 1..(n + 1), i < j PROVE q[i] < q[j]
    OBVIOUS
  <2>1. i \in 1..n
    OBVIOUS
  <2>2. CASE j = n + 1
    BY <1>1, <1>3, <1>5, <2>1, <2>2
  <2>3. CASE j \in 1..n
    BY <1>2, <1>5, <2>1, <2>3
  <2> QED BY <1>4, <2>2, <2>3
<1>8. \A i \in 1..(n + 1) : u[q[i]] = EventOf(who[i])
  BY <1>1, <1>2, <1>3, <1>4, <1>5
<1>9. \A k \in 1..Len(u) : u[k] \in {"assistant", "customer"} => \E i \in 1..(n + 1) : q[i] = k
  <2> SUFFICES ASSUME NEW k \in 1..Len(u), u[k] \in {"assistant", "customer"} PROVE \E i \in 1..(n + 1) : q[i] = k
    OBVIOUS
  <2>1. CASE k = Len(s) + 1
    BY <1>4, <1>5, <2>1
  <2>2. CASE k \in 1..Len(s)
    BY <1>1, <1>2, <1>3, <1>5, <2>2
  <2> QED BY <1>1, <2>1, <2>2
<1>10. Told(who, u, n + 1)
  BY <1>6, <1>7, <1>8, <1>9 DEF Told
<1> QED BY <1>10 DEF u

\* An event that tells nothing is taken.
LEMMA ToldPassed ==
  ASSUME NEW S, NEW s \in Seq(S), s # <<>>, NEW who, NEW n \in Nat, Told(who, s, n),
         Head(s) \notin {"assistant", "customer"}
  PROVE  Told(who, Tail(s), n)
<1> DEFINE t == Tail(s)
<1>1. Len(s) \in Nat \ {0} /\ Len(t) = Len(s) - 1 /\ Head(s) = s[1] /\ \A i \in 1..Len(t) : t[i] = s[i + 1]
  BY HeadTailProperties, EmptySeq, LenProperties
<1> HIDE DEF t
<1>2. PICK pos \in [1..n -> 1..Len(s)] :
        /\ \A i, j \in 1..n : i < j => pos[i] < pos[j]
        /\ \A i \in 1..n : s[pos[i]] = EventOf(who[i])
        /\ \A k \in 1..Len(s) : s[k] \in {"assistant", "customer"} => \E i \in 1..n : pos[i] = k
  BY DEF Told
<1> DEFINE q == [i \in 1..n |-> pos[i] - 1]
<1>3. ASSUME NEW i \in 1..n PROVE pos[i] \in Int /\ pos[i] - 1 \in 1..Len(t) /\ t[pos[i] - 1] = s[pos[i]]
  <2>1. pos[i] \in 1..Len(s) /\ s[pos[i]] \in {"assistant", "customer"}
    BY <1>2 DEF EventOf
  <2>2. pos[i] # 1
    BY <1>1, <2>1
  <2> QED BY <1>1, <2>1, <2>2
<1>4. q \in [1..n -> 1..Len(t)]
  BY <1>3
<1>5. \A i, j \in 1..n : i < j => q[i] < q[j]
  BY <1>2, <1>3
<1>6. \A i \in 1..n : t[q[i]] = EventOf(who[i])
  BY <1>2, <1>3
<1>7. \A k \in 1..Len(t) : t[k] \in {"assistant", "customer"} => \E i \in 1..n : q[i] = k
  <2> SUFFICES ASSUME NEW k \in 1..Len(t), t[k] \in {"assistant", "customer"} PROVE \E i \in 1..n : q[i] = k
    OBVIOUS
  <2>1. k + 1 \in 1..Len(s) /\ s[k + 1] = t[k]
    BY <1>1
  <2>2. PICK i \in 1..n : pos[i] = k + 1
    BY <1>2, <2>1
  <2> QED BY <2>2
<1>8. Told(who, t, n)
  BY <1>4, <1>5, <1>6, <1>7 DEF Told
<1> QED BY <1>8 DEF t

\* The first transcript to come is that of the first turn.
LEMMA ToldHeard ==
  ASSUME NEW S, NEW s \in Seq(S), s # <<>>, NEW who \in Seq(Speakers), NEW n \in Nat, n <= Len(who), Told(who, s, n),
         Head(s) \in {"assistant", "customer"}
  PROVE  /\ n > 0 /\ who # <<>> /\ Head(s) = EventOf(Head(who))
         /\ Told(Tail(who), Tail(s), n - 1)
<1> DEFINE t == Tail(s)
           rest == Tail(who)
<1>1. Len(s) \in Nat \ {0} /\ Len(t) = Len(s) - 1 /\ Head(s) = s[1] /\ \A i \in 1..Len(t) : t[i] = s[i + 1]
  BY HeadTailProperties, EmptySeq, LenProperties
<1>2. PICK pos \in [1..n -> 1..Len(s)] :
        /\ \A i, j \in 1..n : i < j => pos[i] < pos[j]
        /\ \A i \in 1..n : s[pos[i]] = EventOf(who[i])
        /\ \A k \in 1..Len(s) : s[k] \in {"assistant", "customer"} => \E i \in 1..n : pos[i] = k
  BY DEF Told
<1>3. 1 \in 1..Len(s)
  BY <1>1
<1>4. PICK first \in 1..n : pos[first] = 1
  BY <1>1, <1>2, <1>3
<1>5. n > 0 /\ 1 \in 1..n
  BY <1>4
<1>6. first = 1
  <2> SUFFICES ASSUME first # 1 PROVE FALSE
    OBVIOUS
  <2>1. 1 < first
    BY <1>4
  <2>2. pos[1] < 1 /\ pos[1] \in 1..Len(s)
    BY <1>2, <1>4, <1>5, <2>1
  <2> QED BY <1>1, <2>2
<1>7. Len(who) \in Nat \ {0} /\ who # <<>> /\ Head(who) = who[1]
  BY <1>5, LenProperties, EmptySeq
<1>8. Len(rest) = Len(who) - 1 /\ \A i \in 1..Len(rest) : rest[i] = who[i + 1]
  BY <1>7, HeadTailProperties
<1> HIDE DEF t, rest
<1> DEFINE q == [i \in 1..(n - 1) |-> pos[i + 1] - 1]
<1>9. ASSUME NEW i \in 1..(n - 1)
      PROVE  i + 1 \in 1..n /\ pos[i + 1] \in Int /\ pos[i + 1] - 1 \in 1..Len(t) /\ t[pos[i + 1] - 1] = s[pos[i + 1]] /\ rest[i] = who[i + 1]
  <2>1. i + 1 \in 1..n /\ 1 < i + 1
    BY <1>5
  <2>2. pos[i + 1] \in 1..Len(s) /\ pos[1] < pos[i + 1]
    BY <1>2, <1>5, <2>1
  <2>3. pos[i + 1] # 1
    BY <1>4, <1>6, <2>2
  <2>4. i \in 1..Len(rest)
    BY <1>7, <1>8
  <2> QED BY <1>1, <1>8, <2>1, <2>2, <2>3, <2>4
<1>10. q \in [1..(n - 1) -> 1..Len(t)]
  BY <1>9
<1>11. \A i, j \in 1..(n - 1) : i < j => q[i] < q[j]
  <2> SUFFICES ASSUME NEW i \in 1..(n - 1), NEW j \in 1..(n - 1), i < j PROVE q[i] < q[j]
    OBVIOUS
  <2>1. i + 1 < j + 1
    OBVIOUS
  <2>2. pos[i + 1] < pos[j + 1]
    BY <1>2, <1>9, <2>1
  <2> QED BY <1>9, <2>2
<1>q. \A i \in 1..(n - 1) : q[i] = pos[i + 1] - 1
  OBVIOUS
<1> HIDE DEF q
<1>12. ASSUME NEW i \in 1..(n - 1) PROVE t[q[i]] = EventOf(rest[i])
  <2>1. q[i] = pos[i + 1] - 1 /\ i + 1 \in 1..n
    BY <1>q, <1>9
  <2>2. s[pos[i + 1]] = EventOf(who[i + 1])
    BY <1>2, <2>1
  <2> QED BY <1>9, <2>1, <2>2
<1>13. \A k \in 1..Len(t) : t[k] \in {"assistant", "customer"} => \E i \in 1..(n - 1) : q[i] = k
  <2> SUFFICES ASSUME NEW k \in 1..Len(t), t[k] \in {"assistant", "customer"} PROVE \E i \in 1..(n - 1) : q[i] = k
    OBVIOUS
  <2>1. k + 1 \in 1..Len(s) /\ s[k + 1] = t[k] /\ k + 1 # 1
    BY <1>1
  <2>2. PICK i \in 1..n : pos[i] = k + 1
    BY <1>2, <2>1
  <2>3. i # 1
    BY <1>4, <1>6, <2>1, <2>2
  <2>4. i - 1 \in 1..(n - 1) /\ (i - 1) + 1 = i
    BY <2>3
  <2>5. q[i - 1] = pos[i] - 1
    BY <1>q, <2>4
  <2>6. q[i - 1] = k
    BY <2>2, <2>5
  <2> QED BY <2>4, <2>6
<1>14. Told(rest, t, n - 1)
  BY <1>10, <1>11, <1>12, <1>13 DEF Told
<1>15. Head(s) = EventOf(Head(who))
  BY <1>1, <1>2, <1>4, <1>5, <1>6, <1>7
<1> QED BY <1>5, <1>7, <1>14, <1>15 DEF t, rest

\* Nothing is on its way.
LEMMA NoTranscripts ==
  Transcripts(<<>>) = {} /\ Cardinality(Transcripts(<<>>)) = 0
<1>1. Len(<<>>) = 0 /\ 1..0 = {}
  OBVIOUS
<1>2. Transcripts(<<>>) = {}
  BY <1>1 DEF Transcripts
<1> QED BY <1>2, FS_EmptySet

\* What every step leaves to count on.
LEMMA StreamShape ==
  ASSUME PlainCall
  PROVE  /\ stream \in Seq(SessionEvents \cup DialogueTools) /\ OnTheirWay \in Nat
         /\ "customer" \notin DialogueTools /\ "assistant" \notin DialogueTools
         /\ uttered \in Nat /\ TalkingNow \in {0, 1}
         /\ \A t \in DialogueTools : t \notin {"assistant", "customer", "done", "audio", "speech_started"}
<1>1. stream \in Seq(SessionEvents \cup DialogueTools)
  <2>1. stream \in SessionStream(toolsAsked) /\ toolsAsked \subseteq DialogueTools
    BY DEF PlainCall, Simple, ShapesKept, ListsKept
  <2> QED BY <2>1, StreamWidens DEF SessionStream
<1>2. OnTheirWay \in Nat
  BY <1>1, TranscriptsFinite DEF OnTheirWay
<1>3. \A t \in DialogueTools : t \notin SessionEvents
  BY DialogueAssumption
<1>4. uttered \in Nat /\ TalkingNow \in {0, 1}
  BY DialogueConstants DEF PlainCall, Simple, Counters, TalkingNow
<1> QED BY <1>1, <1>2, <1>3, <1>4 DEF SessionEvents

Quietly == UNCHANGED <<speech, stream, misheard>>

\* The steps that neither speak nor carry what was said.
QuietNext ==
  \/ OpenInTime \/ LateLinkOpens \/ SettleTurn \/ PushCallerAudio \/ FramesStop \/ TimePasses
  \/ WrapUp \/ Probe \/ FinalNotice \/ \E t \in DialogueTools : ToolEnds(t)

\* The steps that end the call.
EndNext ==
  \/ OpenTooLate \/ CallerHangsUp \/ SocketError("REALTIME_CLOSED") \/ SocketError("REALTIME_ERROR")
  \/ EndOverlong \/ EndSilent

\* What those steps leave alone.
LEMMA QuietSteps ==
  ASSUME QuietNext
  PROVE  Quietly /\ (~SettleTurn => unsettled' = unsettled)
BY DEF QuietNext, Quietly, OpenInTime, LateLinkOpens, SettleTurn, PushCallerAudio, FramesStop,
   TimePasses,
       WrapUp, Probe, FinalNotice, ToolEnds, sessionSide, speech, memory, tickFrame

\* What an end leaves.
LEMMA EndSteps ==
  ASSUME EndNext
  PROVE  /\ stream' = <<>> /\ said' = <<>> /\ toBeWritten' = 0 /\ unsettled' = 0 /\ talking' = FALSE
         /\ uttered' = uttered /\ misheard' = misheard /\ excepted' = excepted
BY DEF EndNext, OpenTooLate, CallerHangsUp, SocketError, EndOverlong, EndSilent, HangUp, EndDialogue

\* The steps, by what they do to what is said.
LEMMA DialogueSteps ==
  ASSUME DialogueNext
  PROVE  \/ QuietNext \/ EndNext \/ CallerStarts \/ CallerStops \/ Transcribe \/ Deliver
         \/ \E t \in DialogueTools : ReplyCallsTool(t)
         \/ \E spoken \in BOOLEAN : ReplyEnds(spoken)
BY DEF DialogueNext, QuietNext, EndNext

\* A sum that moves from one place to another stays within its limit.
LEMMA SumShrinks ==
  ASSUME NEW u \in Nat, NEW w \in Nat, NEW b \in Nat, NEW n \in {0, 1}, NEW top \in Nat, u + w + b + n <= top,
         NEW v \in Nat, NEW x \in Nat, v + x <= u + w
  PROVE  v + x + b + n <= top
OBVIOUS

\* A transcript moves on, or is gone.
LEMMA SumsBelow ==
  \A u, w, v, x \in Nat : (v <= u /\ x = w) \/ (v = u + 1 /\ w = x + 1) => v + x <= u + w
OBVIOUS

\* Every step keeps the turns counted.
LEMMA TurnsStep == PlainCall /\ TurnsCounted /\ DialogueNext => TurnsCounted'
<1> SUFFICES ASSUME PlainCall, TurnsCounted, DialogueNext PROVE TurnsCounted'
  OBVIOUS
<1> DEFINE S == SessionEvents \cup DialogueTools
<1>0. /\ stream \in Seq(S) /\ OnTheirWay \in Nat /\ uttered \in Nat /\ TalkingNow \in {0, 1}
      /\ unsettled \in Nat /\ toBeWritten \in Nat
      /\ unsettled + OnTheirWay + toBeWritten + TalkingNow <= uttered
  BY StreamShape DEF TurnsCounted
<1>a. SessionEvents \subseteq S /\ DialogueTools \subseteq S /\ \A t \in DialogueTools : t # "customer"
  BY StreamShape
<1>b. {"audio", "speech_started", "assistant", "customer", "done"} = SessionEvents
  BY DEF SessionEvents
<1> HIDE DEF S
<1>1. CASE QuietNext
  <2>1. OnTheirWay' = OnTheirWay /\ TalkingNow' = TalkingNow /\ toBeWritten' = toBeWritten /\ uttered' = uttered
    BY <1>1, QuietSteps DEF Quietly, speech, OnTheirWay, TalkingNow
  <2>2. unsettled' \in Nat /\ unsettled' <= unsettled
    <3>1. CASE SettleTurn
      <4>1. unsettled > 0 /\ unsettled' = unsettled - 1
        BY <3>1 DEF SettleTurn
      <4> QED BY <1>0, <4>1
    <3>2. CASE ~SettleTurn
      <4>1. unsettled' = unsettled
        BY <1>1, <3>2, QuietSteps
      <4> QED BY <1>0, <4>1
    <3> QED BY <3>1, <3>2
  <2>3. unsettled' + OnTheirWay' <= unsettled + OnTheirWay
    <3>1. OnTheirWay' \in Nat
      BY <1>0, <2>1
    <3> QED BY <1>0, <2>1, <2>2, <3>1, SumsBelow, Zenon
  <2>4. unsettled' + OnTheirWay' + toBeWritten + TalkingNow <= uttered
    BY <1>0, <2>1, <2>2, <2>3, SumShrinks
  <2> QED BY <1>0, <2>1, <2>2, <2>4 DEF TurnsCounted
<1>2. CASE EndNext
  <2>1. OnTheirWay' = 0 /\ TalkingNow' = 0 /\ toBeWritten' = 0 /\ uttered' = uttered /\ unsettled' = 0
    BY <1>2, EndSteps, NoTranscripts DEF OnTheirWay, TalkingNow
  <2> QED BY <1>0, <2>1 DEF TurnsCounted
<1>3. CASE CallerStarts
  <2>1. TalkingNow = 0 /\ TalkingNow' = 1 /\ toBeWritten' = toBeWritten /\ unsettled' = unsettled /\ uttered' = uttered + 1
    BY <1>3 DEF CallerStarts, TalkingNow, memory
  <2>2. OnTheirWay' = OnTheirWay
    BY <1>0, <1>a, <1>b, <1>3, TranscriptsAppended DEF CallerStarts, OnTheirWay
  <2> QED BY <1>0, <2>1, <2>2 DEF TurnsCounted
<1>4. CASE CallerStops
  <2>1. TalkingNow = 1 /\ TalkingNow' = 0 /\ toBeWritten' = toBeWritten + 1 /\ unsettled' = unsettled /\ uttered' = uttered
        /\ OnTheirWay' = OnTheirWay
    BY <1>4 DEF CallerStops, TalkingNow, memory, OnTheirWay
  <2> QED BY <1>0, <2>1 DEF TurnsCounted
<1>5. CASE Transcribe
  <2>1. TalkingNow' = TalkingNow /\ toBeWritten > 0 /\ toBeWritten' = toBeWritten - 1 /\ unsettled' = unsettled /\ uttered' = uttered
    BY <1>5 DEF Transcribe, TalkingNow, memory
  <2>2. OnTheirWay' = OnTheirWay + 1
    BY <1>0, <1>a, <1>b, <1>5, TranscriptsAppended DEF Transcribe, OnTheirWay
  <2> QED BY <1>0, <2>1, <2>2 DEF TurnsCounted
<1>6. ASSUME NEW t \in DialogueTools, ReplyCallsTool(t) PROVE TurnsCounted'
  <2>1. TalkingNow' = TalkingNow /\ toBeWritten' = toBeWritten /\ unsettled' = unsettled /\ uttered' = uttered
    BY <1>6 DEF ReplyCallsTool, TalkingNow, memory, sessionSide, speech
  <2>2. OnTheirWay' = OnTheirWay
    BY <1>0, <1>a, <1>6, TranscriptsAppended DEF ReplyCallsTool, OnTheirWay
  <2> QED BY <1>0, <2>1, <2>2 DEF TurnsCounted
<1>7. ASSUME NEW spoken \in BOOLEAN, ReplyEnds(spoken) PROVE TurnsCounted'
  <2>1. TalkingNow' = TalkingNow /\ toBeWritten' = toBeWritten /\ unsettled' = unsettled /\ uttered' = uttered
    BY <1>7 DEF ReplyEnds, TalkingNow, memory
  <2>2. PICK r \in {<<"audio", "assistant">>, <<>>} : stream' = stream \o r \o <<"done">>
    BY <1>7 DEF ReplyEnds
  <2>3. r \in Seq(S) /\ \A k \in 1..Len(r) : r[k] # "customer"
    <3>1. {"audio", "assistant"} \subseteq S
      BY <1>a, <1>b
    <3>2. CASE r = <<>>
      BY <3>2
    <3>3. CASE r = <<"audio", "assistant">>
      BY <3>1, <3>3
    <3> QED BY <3>2, <3>3
  <2>4. <<"done">> \in Seq(S) /\ \A k \in 1..Len(<<"done">>) : <<"done">>[k] # "customer"
    BY <1>a, <1>b
  <2>5. stream \o r \in Seq(S) /\ Transcripts(stream \o r) = Transcripts(stream)
    BY <1>0, <2>3, TranscriptsConcat, ConcatProperties
  <2>6. Transcripts(stream') = Transcripts(stream)
    BY <2>2, <2>4, <2>5, TranscriptsConcat
  <2>7. OnTheirWay' = OnTheirWay
    BY <2>6 DEF OnTheirWay
  <2> QED BY <1>0, <2>1, <2>7 DEF TurnsCounted
<1>8. CASE Deliver
  <2> DEFINE e == Head(stream)
  <2>1. TalkingNow' = TalkingNow /\ toBeWritten' = toBeWritten /\ uttered' = uttered /\ stream # <<>>
    BY <1>8 DEF Deliver, TalkingNow, sessionSide, speech, AppendTranscript
  <2>2. Tail(stream) \in Seq(S)
    BY <1>0, <2>1, HeadTailProperties
  <2>3. Transcripts(stream') = Transcripts(Tail(stream))
    <3>1. stream' = Tail(stream) \/ stream' = Tail(stream) \o <<"done">> \/ stream' = Tail(stream) \o <<>>
      BY <1>8 DEF Deliver
    <3>2. <<"done">> \in Seq(S) /\ \A k \in 1..Len(<<"done">>) : <<"done">>[k] # "customer"
      BY <1>a, <1>b
    <3>3. Tail(stream) \o <<>> = Tail(stream)
      BY <2>2, ConcatEmptySeq
    <3> QED BY <2>2, <3>1, <3>2, <3>3, TranscriptsConcat
  <2>4. CASE e = "customer"
    <3>1. unsettled' = unsettled + 1
      BY <1>8, <1>a, <2>4 DEF Deliver
    <3>2. OnTheirWay = OnTheirWay' + 1
      BY <1>0, <2>1, <2>3, <2>4, TranscriptsTaken DEF OnTheirWay
    <3>3. OnTheirWay' \in Nat
      BY <2>2, <2>3, TranscriptsFinite DEF OnTheirWay
    <3>4. unsettled' \in Nat /\ unsettled' + OnTheirWay' <= unsettled + OnTheirWay
      <4>1. unsettled' \in Nat
        BY <1>0, <3>1
      <4> QED BY <1>0, <3>1, <3>2, <3>3, <4>1, SumsBelow, Zenon
    <3>5. unsettled' + OnTheirWay' + toBeWritten + TalkingNow <= uttered
      BY <1>0, <3>3, <3>4, SumShrinks
    <3> QED BY <1>0, <2>1, <3>4, <3>5 DEF TurnsCounted
  <2>5. CASE e # "customer"
    <3>1. unsettled' = unsettled
      BY <1>8, <2>5 DEF Deliver
    <3>2. OnTheirWay = OnTheirWay'
      BY <1>0, <2>1, <2>3, <2>5, TranscriptsTaken DEF OnTheirWay
    <3> QED BY <1>0, <2>1, <3>1, <3>2 DEF TurnsCounted
  <2> QED BY <2>4, <2>5
<1> QED BY <1>1, <1>2, <1>3, <1>4, <1>5, <1>6, <1>7, <1>8, DialogueSteps

-----------------------------------------------------------------------------
\* Of who has spoken, the first n are on their way in their order; the others are the caller, and
\* their text is not done.
Lined(n, late, who, s) ==
  /\ n + late = Len(who)
  /\ \A i \in (n + 1)..Len(who) : who[i] = "CUSTOMER"
  /\ Told(who, s, n)

TextIsLate == "late text" \in excepted

InLine == ~misheard /\ \E n \in Nat : Lined(n, toBeWritten, said, stream)
SaidTyped == said \in Seq(Speakers)
Ordered == SaidTyped /\ (TextIsLate \/ InLine)

\* Nothing said is nothing told.
LEMMA ToldNothing == Told(<<>>, <<>>, 0)
<1>1. 1..0 = {} /\ Len(<<>>) = 0
  OBVIOUS
<1>2. \E pos \in [1..0 -> 1..0] : TRUE
  <2>1. [i \in 1..0 |-> i] \in [1..0 -> 1..0]
    BY <1>1
  <2> QED BY <2>1
<1> QED BY <1>1, <1>2 DEF Told

\* The excuse of a late transcription stays.
LEMMA StillLate ==
  ASSUME PlainCall, DialogueNext, TextIsLate
  PROVE  TextIsLate'
<1>0. "late text" \notin Items
  BY DialogueConstants DEF Excuses
<1>1. ASSUME NEW item, AskModel(item) PROVE TextIsLate'
  BY <1>0, <1>1 DEF AskModel, TextIsLate
<1>2. CASE OpenInTime \/ CallerStops \/ WrapUp \/ Probe \/ FinalNotice \/ \E t \in DialogueTools : ToolEnds(t)
  BY <1>1, <1>2 DEF OpenInTime, CallerStops, WrapUp, Probe, FinalNotice, ToolEnds, SendToolResult
<1>3. CASE EndNext
  BY <1>3, EndSteps DEF TextIsLate
<1>4. ASSUME NEW spoken \in BOOLEAN, ReplyEnds(spoken) PROVE TextIsLate'
  BY <1>4 DEF ReplyEnds, TextIsLate
<1>5. ASSUME NEW t \in DialogueTools, ReplyCallsTool(t) PROVE TextIsLate'
  BY <1>5 DEF ReplyCallsTool, TextIsLate
<1>6. CASE CallerStarts \/ Transcribe \/ Deliver \/ LateLinkOpens \/ SettleTurn
  BY <1>6 DEF CallerStarts, Transcribe, Deliver, LateLinkOpens, SettleTurn, TextIsLate
<1>7. CASE PushCallerAudio \/ FramesStop \/ TimePasses
  BY <1>7 DEF PushCallerAudio, FramesStop, TimePasses, TextIsLate
<1> QED BY <1>2, <1>3, <1>4, <1>5, <1>6, <1>7, DialogueSteps DEF QuietNext

\* Every step keeps who has spoken.
LEMMA SaidStep == PlainCall /\ said \in Seq(Speakers) /\ DialogueNext => said' \in Seq(Speakers)
<1> SUFFICES ASSUME PlainCall, said \in Seq(Speakers), DialogueNext PROVE said' \in Seq(Speakers)
  OBVIOUS
<1>1. CASE QuietNext
  BY <1>1, QuietSteps DEF Quietly, speech
<1>2. CASE EndNext
  BY <1>2, EndSteps, EmptySeq
<1>3. "CUSTOMER" \in Speakers /\ "AGENT" \in Speakers
  BY DEF Speakers
<1>4. CASE CallerStarts \/ Transcribe
  BY <1>4 DEF CallerStarts, Transcribe
<1>5. CASE CallerStops
  BY <1>3, <1>5, AppendProperties DEF CallerStops
<1>6. ASSUME NEW t \in DialogueTools, ReplyCallsTool(t) PROVE said' \in Seq(Speakers)
  BY <1>6 DEF ReplyCallsTool, sessionSide, speech
<1>7. ASSUME NEW spoken \in BOOLEAN, ReplyEnds(spoken) PROVE said' \in Seq(Speakers)
  BY <1>3, <1>7, AppendProperties DEF ReplyEnds
<1>8. CASE Deliver
  <2>1. said' = said \/ \E who : said' = RemoveFirst(said, who)
    BY <1>8 DEF Deliver, sessionSide, speech, AppendTranscript
  <2> QED BY <2>1, Removed
<1> QED BY <1>1, <1>2, <1>4, <1>5, <1>6, <1>7, <1>8, DialogueSteps

\* While no transcription was late the turns stay in line.
LEMMA LinedStep ==
  ASSUME PlainCall, said \in Seq(Speakers), toBeWritten \in Nat, NEW n \in Nat, Lined(n, toBeWritten, said, stream), ~misheard, DialogueNext,
         ~TextIsLate'
  PROVE  ~misheard' /\ \E k \in Nat : Lined(k, toBeWritten', said', stream')
<1> DEFINE S == SessionEvents \cup DialogueTools
<1>0. stream \in Seq(S) /\ Len(said) \in Nat /\ n <= Len(said)
  BY StreamShape, LenProperties DEF Lined
<1>a. SessionEvents \subseteq S /\ DialogueTools \subseteq S /\ \A t \in DialogueTools : t \notin {"assistant", "customer"}
  BY StreamShape
<1>b. {"audio", "speech_started", "assistant", "customer", "done"} = SessionEvents
  BY DEF SessionEvents
<1>c. "CUSTOMER" \in Speakers /\ "AGENT" \in Speakers
  BY DEF Speakers
<1> HIDE DEF S
<1>1. CASE QuietNext
  BY <1>1, QuietSteps DEF Quietly, speech, Lined
<1>2. CASE EndNext
  <2>1. stream' = <<>> /\ said' = <<>> /\ toBeWritten' = 0 /\ misheard' = misheard
    BY <1>2, EndSteps
  <2>2. Len(<<>>) = 0 /\ 0 + 0 = 0 /\ (0 + 1)..0 = {} /\ 0 \in Nat
    OBVIOUS
  <2>3. Told(said', stream', 0)
    BY <2>1, ToldNothing
  <2>4. Lined(0, toBeWritten', said', stream')
    BY <2>1, <2>2, <2>3 DEF Lined
  <2> QED BY <2>1, <2>2, <2>4
<1>3. CASE CallerStarts
  <2>1. toBeWritten' = toBeWritten /\ said' = said /\ misheard' = misheard /\ stream' = Append(stream, "speech_started")
    BY <1>3 DEF CallerStarts, memory
  <2>2. Append(stream, "speech_started") = stream \o <<"speech_started">>
    BY <1>0, <1>a, <1>b, AppendIsConcat
  <2>3. <<"speech_started">> \in Seq(S) /\ \A k \in 1..Len(<<"speech_started">>) : <<"speech_started">>[k] \notin {"assistant", "customer"}
    BY <1>a, <1>b
  <2>4. Told(said, stream', n)
    BY <1>0, <2>1, <2>2, <2>3, ToldQuiet DEF Lined
  <2> QED BY <2>1, <2>4 DEF Lined
<1>4. CASE CallerStops
  <2>1. toBeWritten' = toBeWritten + 1 /\ said' = Append(said, "CUSTOMER") /\ misheard' = misheard /\ stream' = stream
    BY <1>4 DEF CallerStops, memory
  <2>2. Len(said') = Len(said) + 1 /\ said'[Len(said) + 1] = "CUSTOMER" /\ \A i \in 1..Len(said) : said'[i] = said[i]
    BY <1>c, <2>1, AppendProperties
  <2>3. \A i \in (n + 1)..Len(said') : said'[i] = "CUSTOMER"
    <3> SUFFICES ASSUME NEW i \in (n + 1)..Len(said') PROVE said'[i] = "CUSTOMER"
      OBVIOUS
    <3>1. i = Len(said) + 1 \/ i \in (n + 1)..Len(said)
      BY <1>0, <2>2
    <3>2. i \in (n + 1)..Len(said) => i \in 1..Len(said)
      BY <1>0
    <3> QED BY <2>2, <3>1, <3>2 DEF Lined
  <2>4. \A i \in 1..n : said'[i] = said[i]
    BY <1>0, <2>2
  <2>5. Told(said', stream', n)
    BY <2>1, <2>4, ToldAlike DEF Lined
  <2>6. n + toBeWritten' = Len(said')
    BY <1>0, <2>1, <2>2 DEF Lined
  <2> QED BY <2>1, <2>3, <2>5, <2>6 DEF Lined
<1>5. CASE Transcribe
  <2>1. toBeWritten > 0 /\ toBeWritten' = toBeWritten - 1 /\ said' = said /\ misheard' = misheard /\ stream' = Append(stream, "customer")
    BY <1>5 DEF Transcribe, memory
  <2>2. n + 1 \in (n + 1)..Len(said)
    BY <1>0, <2>1 DEF Lined
  <2>3. EventOf(said[n + 1]) = "customer"
    BY <2>2 DEF Lined, EventOf
  <2>4. Told(said', stream', n + 1)
    BY <1>0, <1>a, <1>b, <2>1, <2>3, ToldNext DEF Lined
  <2>5. (n + 1) + toBeWritten' = Len(said')
    BY <1>0, <2>1 DEF Lined
  <2>6. \A i \in ((n + 1) + 1)..Len(said') : said'[i] = "CUSTOMER"
    BY <1>0, <2>1 DEF Lined
  <2>7. Lined(n + 1, toBeWritten', said', stream')
    BY <2>4, <2>5, <2>6 DEF Lined
  <2> QED BY <2>1, <2>7
<1>6. ASSUME NEW t \in DialogueTools, ReplyCallsTool(t) PROVE ~misheard' /\ \E k \in Nat : Lined(k, toBeWritten', said', stream')
  <2>1. toBeWritten' = toBeWritten /\ said' = said /\ misheard' = misheard /\ stream' = Append(stream, t)
    BY <1>6 DEF ReplyCallsTool, memory, sessionSide, speech
  <2>2. Append(stream, t) = stream \o <<t>>
    BY <1>0, <1>a, AppendIsConcat
  <2>3. <<t>> \in Seq(S) /\ \A k \in 1..Len(<<t>>) : <<t>>[k] \notin {"assistant", "customer"}
    BY <1>a
  <2>4. Told(said, stream', n)
    BY <1>0, <2>1, <2>2, <2>3, ToldQuiet DEF Lined
  <2> QED BY <2>1, <2>4 DEF Lined
<1>7. ASSUME NEW spoken \in BOOLEAN, ReplyEnds(spoken) PROVE ~misheard' /\ \E k \in Nat : Lined(k, toBeWritten', said', stream')
  <2>0. toBeWritten' = toBeWritten /\ misheard' = misheard
    BY <1>7 DEF ReplyEnds, memory
  <2>1. <<"done">> \in Seq(S) /\ \A k \in 1..Len(<<"done">>) : <<"done">>[k] \notin {"assistant", "customer"}
    BY <1>a, <1>b
  <2>2. CASE ~spoken
    <3>1. said' = said /\ stream' = stream \o <<>> \o <<"done">>
      BY <1>7, <2>2 DEF ReplyEnds
    <3>2. stream \o <<>> = stream
      BY <1>0, ConcatEmptySeq
    <3>3. Told(said', stream', n)
      BY <1>0, <2>1, <3>1, <3>2, ToldQuiet DEF Lined
    <3> QED BY <2>0, <3>1, <3>3 DEF Lined
  <2>3. CASE spoken
    <3>1. said' = Append(said, "AGENT") /\ stream' = stream \o <<"audio", "assistant">> \o <<"done">>
      BY <1>7, <2>3 DEF ReplyEnds
    <3>2. toBeWritten = 0
      <4>1. toBeWritten > 0 => TextIsLate'
        BY <1>7, <2>3 DEF ReplyEnds, TextIsLate
      <4> QED BY <4>1
    <3>3. n = Len(said)
      BY <1>0, <3>2 DEF Lined
    <3>4. Len(said') = n + 1 /\ said'[n + 1] = "AGENT" /\ \A i \in 1..n : said'[i] = said[i]
      BY <1>c, <3>1, <3>3, AppendProperties
    <3>5. Told(said', stream, n)
      BY <3>4, ToldAlike DEF Lined
    <3>6. stream \o <<"audio", "assistant">> = Append(Append(stream, "audio"), "assistant")
          /\ Append(stream, "audio") = stream \o <<"audio">>
      <4>1. {"audio", "assistant"} \subseteq S
        BY <1>a, <1>b
      <4> QED BY <1>0, <4>1
    <3>7. <<"audio">> \in Seq(S) /\ (\A k \in 1..Len(<<"audio">>) : <<"audio">>[k] \notin {"assistant", "customer"})
          /\ Append(stream, "audio") \in Seq(S) /\ "assistant" \in S /\ Append(Append(stream, "audio"), "assistant") \in Seq(S)
      BY <1>0, <1>a, <1>b
    <3>8. Told(said', Append(stream, "audio"), n)
      BY <1>0, <3>5, <3>6, <3>7, ToldQuiet
    <3>9. EventOf(said'[n + 1]) = "assistant"
      BY <3>4 DEF EventOf
    <3>10. Told(said', Append(Append(stream, "audio"), "assistant"), n + 1)
      BY <3>7, <3>8, <3>9, ToldNext
    <3>11. n + 1 \in Nat
      OBVIOUS
    <3>12. Told(said', stream', n + 1)
      BY <2>1, <3>1, <3>6, <3>7, <3>10, <3>11, ToldQuiet
    <3>13. (n + 1) + toBeWritten' = Len(said') /\ ((n + 1) + 1)..Len(said') = {}
      BY <2>0, <3>2, <3>4
    <3>14. Lined(n + 1, toBeWritten', said', stream')
      BY <3>12, <3>13 DEF Lined
    <3> QED BY <2>0, <3>11, <3>14
  <2> QED BY <2>2, <2>3
<1>8. CASE Deliver
  <2> DEFINE e == Head(stream)
  <2>1. toBeWritten' = toBeWritten /\ stream # <<>>
    BY <1>8 DEF Deliver, sessionSide, speech, AppendTranscript
  <2>2. Tail(stream) \in Seq(S)
    BY <1>0, <2>1, HeadTailProperties
  <2>3. CASE e \notin {"assistant", "customer"}
    <3>1. said' = said /\ misheard' = misheard /\ stream' \in {Tail(stream), Tail(stream) \o <<"done">>, Tail(stream) \o <<>>}
      BY <1>8, <2>3 DEF Deliver, sessionSide, speech
    <3>2. Told(said, Tail(stream), n)
      BY <1>0, <2>1, <2>3, ToldPassed DEF Lined
    <3>3. <<"done">> \in Seq(S) /\ \A k \in 1..Len(<<"done">>) : <<"done">>[k] \notin {"assistant", "customer"}
      BY <1>a, <1>b
    <3>4. Tail(stream) \o <<>> = Tail(stream)
      BY <2>2, ConcatEmptySeq
    <3>5. Told(said, stream', n)
      BY <2>2, <3>1, <3>2, <3>3, <3>4, ToldQuiet
    <3> QED BY <2>1, <3>1, <3>5 DEF Lined
  <2>4. CASE e \in {"assistant", "customer"}
    <3>1. PICK who \in Speakers : e = EventOf(who) /\ AppendTranscript(who) /\ stream' = Tail(stream)
      BY <1>8, <1>a, <1>c, <2>4 DEF Deliver, EventOf
    <3>2. /\ n > 0 /\ said # <<>> /\ e = EventOf(Head(said)) /\ Told(Tail(said), Tail(stream), n - 1)
      BY <1>0, <2>1, <2>4, ToldHeard DEF Lined
    <3>3. Head(said) \in Speakers
      BY <3>2, HeadTailProperties
    <3>4. Head(said) = who
      BY <3>1, <3>2, <3>3 DEF EventOf, Speakers
    <3>5. said' = Tail(said) /\ ~misheard'
      BY <3>1, <3>2, <3>4, Removed DEF AppendTranscript
    <3>6. Len(said') = Len(said) - 1 /\ \A i \in 1..Len(said') : said'[i] = said[i + 1]
      BY <3>2, <3>5, HeadTailProperties
    <3>7. n - 1 \in Nat /\ (n - 1) + toBeWritten' = Len(said')
      BY <1>0, <2>1, <3>2, <3>6 DEF Lined
    <3>8. \A i \in ((n - 1) + 1)..Len(said') : said'[i] = "CUSTOMER"
      <4> SUFFICES ASSUME NEW i \in ((n - 1) + 1)..Len(said') PROVE said'[i] = "CUSTOMER"
        OBVIOUS
      <4>1. i \in 1..Len(said') /\ i + 1 \in (n + 1)..Len(said)
        BY <1>0, <3>2, <3>6
      <4> QED BY <3>6, <4>1 DEF Lined
    <3>9. Told(said', stream', n - 1)
      BY <3>1, <3>2, <3>5
    <3>10. Lined(n - 1, toBeWritten', said', stream')
      BY <3>7, <3>8, <3>9 DEF Lined
    <3> QED BY <3>5, <3>7, <3>10
  <2> QED BY <2>3, <2>4
<1> QED BY <1>1, <1>2, <1>3, <1>4, <1>5, <1>6, <1>7, <1>8, DialogueSteps

\* Every step keeps the order, or its excuse.
LEMMA OrderedStep == PlainCall /\ toBeWritten \in Nat /\ Ordered /\ DialogueNext => Ordered'
<1> SUFFICES ASSUME PlainCall, toBeWritten \in Nat, Ordered, DialogueNext PROVE Ordered'
  OBVIOUS
<1>1. SaidTyped'
  BY SaidStep DEF Ordered, SaidTyped
<1>2. TextIsLate => TextIsLate'
  BY StillLate
<1>3. ASSUME InLine, ~TextIsLate' PROVE InLine'
  <2>1. PICK n \in Nat : Lined(n, toBeWritten, said, stream)
    BY <1>3 DEF InLine
  <2>2. ~misheard /\ said \in Seq(Speakers)
    BY <1>3 DEF InLine, Ordered, SaidTyped
  <2>3. ~misheard' /\ \E k \in Nat : Lined(k, toBeWritten', said', stream')
    BY <1>3, <2>1, <2>2, LinedStep
  <2> QED BY <2>3 DEF InLine
<1> QED BY <1>1, <1>2, <1>3 DEF Ordered

-----------------------------------------------------------------------------
DialogueInv == PlainCall /\ StreamInv /\ TurnsCounted /\ Ordered

\* The invariant holds at first.
LEMMA DialogueStart == DialogueInit => DialogueInv
<1> SUFFICES ASSUME DialogueInit PROVE DialogueInv
  OBVIOUS
<1>1. PlainCall
  BY PlainStart
<1>2. /\ stream = <<>> /\ said = <<>> /\ unsettled = 0 /\ toBeWritten = 0 /\ uttered = 0
      /\ talking = FALSE /\ misheard = FALSE /\ mem.status = "ACTIVE"
  BY DEF DialogueInit, Fresh
<1>3. Len(<<>>) = 0 /\ 1..0 = {} /\ (0 + 1)..0 = {} /\ 0 + 0 = 0 /\ 0 \in Nat
  OBVIOUS
<1>4. StreamInv
  BY <1>2, <1>3 DEF StreamInv, Followed, Busied
<1>5. TurnsCounted
  <2>1. OnTheirWay = 0 /\ TalkingNow = 0
    BY <1>2, NoTranscripts DEF OnTheirWay, TalkingNow
  <2> QED BY <1>2, <2>1 DEF TurnsCounted
<1>6. Ordered
  <2>1. Lined(0, toBeWritten, said, stream)
    BY <1>2, <1>3, ToldNothing DEF Lined
  <2>2. SaidTyped
    BY <1>2, EmptySeq DEF SaidTyped
  <2>3. InLine
    BY <1>2, <1>3, <2>1 DEF InLine
  <2> QED BY <2>2, <2>3 DEF Ordered
<1> QED BY <1>1, <1>4, <1>5, <1>6 DEF DialogueInv

\* Every step keeps the invariant.
LEMMA DialogueStep == DialogueInv /\ [DialogueNext]_dialogueVars => DialogueInv'
<1> SUFFICES ASSUME DialogueInv, [DialogueNext]_dialogueVars PROVE DialogueInv'
  OBVIOUS
<1>1. CASE DialogueNext
  <2>1. toBeWritten \in Nat
    BY DEF DialogueInv, TurnsCounted
  <2> QED BY <1>1, <2>1, PlainStep, StreamStep, TurnsStep, OrderedStep DEF DialogueInv
<1>2. CASE UNCHANGED dialogueVars
  <2>0. /\ link' = link /\ over' = over /\ generating' = generating /\ waiting' = waiting /\ talking' = talking
        /\ toBeWritten' = toBeWritten /\ uttered' = uttered /\ said' = said /\ stream' = stream /\ misheard' = misheard
        /\ mem' = mem /\ unsettled' = unsettled /\ running' = running /\ toolsAsked' = toolsAsked /\ idle' = idle
        /\ clock' = clock /\ closer' = closer /\ notices' = notices /\ excepted' = excepted
        /\ dialogueFaults' = dialogueFaults
    BY <1>2 DEF dialogueVars, sessionSide, speech, memory, toolSide, clocks
  <2>1. Simple'
    BY <2>0 DEF DialogueInv, PlainCall, Simple, ShapesKept, Switches, ListsKept, Counters
  <2>2. Noticed'
    BY <2>0, Zenon DEF DialogueInv, PlainCall, Noticed
  <2>3. (waiting \subseteq excepted)' /\ HangUpIsAnnounced' /\ NoOrphan'
    BY <2>0, Zenon DEF DialogueInv, PlainCall, HangUpIsAnnounced, NoOrphan
  <2>4. StreamInv'
    BY <2>0, Zenon DEF DialogueInv, StreamInv, Busied, CallLive
  <2>5. TurnsCounted'
    BY <2>0, Zenon DEF DialogueInv, TurnsCounted, OnTheirWay, TalkingNow
  <2>6. SaidTyped' /\ (InLine => InLine') /\ (TextIsLate => TextIsLate')
    BY <2>0, Zenon DEF DialogueInv, Ordered, SaidTyped, InLine, TextIsLate
  <2>7. Ordered'
    BY <2>6 DEF DialogueInv, Ordered
  <2> QED BY <2>1, <2>2, <2>3, <2>4, <2>5, <2>7 DEF DialogueInv, PlainCall
<1> QED BY <1>1, <1>2

\* The invariant gives the types and the properties.
LEMMA DialogueMeans == DialogueInv => DialogueTypeOK /\ DialogueHolds
<1> SUFFICES ASSUME DialogueInv PROVE DialogueTypeOK /\ DialogueHolds
  OBVIOUS
<1>1. toBeWritten \in 0..Utterances /\ unsettled \in 0..Utterances
  <2>1. OnTheirWay \in Nat /\ TalkingNow \in {0, 1}
    BY StreamShape DEF DialogueInv
  <2>2. unsettled \in Nat /\ toBeWritten \in Nat /\ unsettled + OnTheirWay + toBeWritten + TalkingNow <= uttered
    BY DEF DialogueInv, TurnsCounted
  <2>3. Utterances \in Nat /\ uttered \in 0..Utterances
    BY DialogueConstants DEF DialogueInv, PlainCall, Simple, Counters
  <2>4. uttered \in Nat /\ uttered <= Utterances
    BY <2>3
  <2> HIDE DEF OnTheirWay, TalkingNow
  <2> QED BY <2>1, <2>2, <2>3, <2>4
<1>2. DialogueTypeOK
  <2>1. ShapesKept /\ Switches /\ ListsKept /\ Counters /\ SaidTyped
    BY DEF DialogueInv, PlainCall, Simple, Ordered
  <2>2. mem.status \in {"ACTIVE", "LISTENING", "THINKING", "SPEAKING", "TOOL_EXECUTION"} /\ mem.stage \in 0..2
    BY <2>1 DEF ShapesKept, Memories
  <2> QED BY <1>1, <2>1, <2>2 DEF DialogueTypeOK, ShapesKept, Switches, ListsKept, Counters,
      SaidTyped, Links, ReasonsToEnd
<1>3. AskedIsAnswered /\ HangUpIsAnnounced /\ NoOrphan
  BY DEF DialogueInv, PlainCall, AskedIsAnswered
<1>4. TranscriptInOrder
  BY Zenon DEF DialogueInv, Ordered, InLine, TextIsLate, TranscriptInOrder
<1>5. StatusIsTrue
  <2>1. ~Contains(<<>>, "done")
    BY DEF Contains
  <2> QED BY <2>1, Zenon DEF DialogueInv, StreamInv, Busied, StatusIsTrue, AtRest
<1> QED BY <1>2, <1>3, <1>4, <1>5 DEF DialogueHolds

\* The session, its socket, the timers and the handlers stay well formed: no counter of turns
\* passes what the caller has said.
THEOREM DialogueTypeCorrect == DialogueSpec => []DialogueTypeOK
<1>1. DialogueInit => DialogueInv
  BY DialogueStart
<1>2. DialogueInv /\ [DialogueNext]_dialogueVars => DialogueInv'
  BY DialogueStep
<1>3. DialogueInv => DialogueTypeOK
  BY DialogueMeans
<1> QED BY <1>1, <1>2, <1>3, PTL DEF DialogueSpec

\* What is put into a conversation is answered, a call that ends for silence or its length was
\* told so before, the transcript is what was said in its order, the session's status is true at
\* rest, and no socket outlives its call; each but for what the history excepts.
THEOREM DialogueCorrect == DialogueSpec => []DialogueHolds
<1>1. DialogueInit => DialogueInv
  BY DialogueStart
<1>2. DialogueInv /\ [DialogueNext]_dialogueVars => DialogueInv'
  BY DialogueStep
<1>3. DialogueInv => DialogueHolds
  BY DialogueMeans
<1> QED BY <1>1, <1>2, <1>3, PTL DEF DialogueSpec

-----------------------------------------------------------------------------
(* The tools of a call *)

ToolSteps == {"idle", "authorize", "previous", "run", "succeed", "fail", "deny", "done"}
ToolRecords == [at : ToolSteps, kind : Kinds, late : BOOLEAN]
Executions == [by : ToolCalls, kind : Kinds, status : {"SUCCEEDED", "FAILED", "DENIED"}]
Answers == {"nothing", "ok", "failed", "denied"}
ToolUnderWay == {"authorize", "previous", "run", "succeed", "fail", "deny"}

ToolsTyped ==
  /\ tool \in [ToolCalls -> ToolRecords] /\ told \in [ToolCalls -> Answers]
  /\ carriedOut \subseteq ToolCalls /\ exempt \subseteq ToolCalls
  /\ executions \subseteq Executions /\ IsFiniteSet(executions)
  /\ toolFaults \in 0..ToolFaults

\* What is known of one call of a tool, by the step it is at.
Known(t) ==
  /\ tool[t].at \in {"idle", "authorize", "previous", "run", "deny"} => t \notin carriedOut
  /\ tool[t].late => tool[t].at \in {"fail", "done"} /\ t \in exempt
  /\ tool[t].at = "succeed" => t \in carriedOut
  /\ tool[t].at = "fail" /\ t \in carriedOut => t \in exempt
  /\ told[t] # "nothing" => tool[t].at = "done"
  /\ told[t] = "ok" => \E u \in carriedOut : tool[u].kind = tool[t].kind
  /\ tool[t].at = "done" /\ t \in carriedOut \ exempt =>
       told[t] = "ok" /\ [by |-> t, kind |-> tool[t].kind, status |-> "SUCCEEDED"] \in executions

\* A call that is not excepted runs alone among those of its kind.
Alone(t) ==
  tool[t].at \in ToolUnderWay /\ t \notin exempt =>
    \A u \in ToolCalls \ {t} : tool[u].kind = tool[t].kind => tool[u].at \notin ToolUnderWay

\* And what it was allowed by has not changed since.
StillAllowed(t) ==
  /\ tool[t].at \in {"previous", "run"} /\ t \notin exempt => Cardinality(SoFar(tool[t].kind)) < ToolLimit
  /\ tool[t].at = "run" /\ t \notin exempt /\ tool[t].kind \in Idempotent => Previous(t) = {}

\* Every success that was recorded is one.
SuccessesAre ==
  \A e \in executions : e.status = "SUCCEEDED" => e.by \in carriedOut /\ tool[e.by].kind = e.kind

MostOf(kind) == IF kind \in Idempotent THEN 1 ELSE ToolLimit
WithinLimit(kind) == IsFiniteSet(Plain(kind)) /\ Cardinality(Plain(kind)) <= MostOf(kind)

ToolInv ==
  /\ ToolsTyped /\ SuccessesAre
  /\ \A t \in ToolCalls : Known(t) /\ Alone(t) /\ StillAllowed(t)
  /\ \A kind \in Kinds : WithinLimit(kind)

\* One call of a tool moves.
Moves(t) ==
  /\ tool' \in [ToolCalls -> ToolRecords] /\ told' \in [ToolCalls -> Answers]
  /\ \A u \in ToolCalls \ {t} : tool'[u] = tool[u] /\ told'[u] = told[u]
  /\ carriedOut' \in {carriedOut, carriedOut \cup {t}} /\ exempt \subseteq exempt' /\ exempt' \subseteq ToolCalls
  /\ \/ executions' = executions
     \/ \E s \in {"SUCCEEDED", "FAILED", "DENIED"} :
          /\ executions' = executions \cup {[by |-> t, kind |-> tool[t].kind, status |-> s]}
          /\ tool[t].at \in ToolUnderWay /\ (s = "SUCCEEDED" => t \in carriedOut')
  /\ toolFaults' \in 0..ToolFaults

\* It is under way already, or over, and stays what it is.
Continues(t) ==
  /\ tool[t].at # "idle" /\ tool'[t].kind = tool[t].kind
  /\ tool'[t].at \in ToolUnderWay => tool[t].at \in ToolUnderWay

Begins(t) ==
  /\ tool[t].at = "idle" /\ tool'[t].at = "authorize" /\ ~tool'[t].late
  /\ carriedOut' = carriedOut /\ executions' = executions /\ told' = told
  /\ exempt' = IF Running(tool'[t].kind) = {} THEN exempt ELSE exempt \cup Running(tool'[t].kind) \cup {t}

\* A call of a tool that moves keeps the types.
LEMMA MovesKeepTypes ==
  ASSUME ToolInv, NEW t \in ToolCalls, Moves(t)
  PROVE  ToolsTyped'
<1>1. executions' \subseteq Executions /\ IsFiniteSet(executions')
  <2>1. CASE executions' = executions
    BY <2>1 DEF ToolInv, ToolsTyped
  <2>2. ASSUME NEW s \in {"SUCCEEDED", "FAILED", "DENIED"},
               executions' = executions \cup {[by |-> t, kind |-> tool[t].kind, status |-> s]}
        PROVE  executions' \subseteq Executions /\ IsFiniteSet(executions')
    <3>1. [by |-> t, kind |-> tool[t].kind, status |-> s] \in Executions
      BY DEF ToolInv, ToolsTyped, ToolRecords, Executions
    <3> QED BY <2>2, <3>1, FS_AddElement DEF ToolInv, ToolsTyped
  <2> QED BY <2>1, <2>2 DEF Moves
<1> QED BY <1>1 DEF ToolInv, ToolsTyped, Moves

\* And what was recorded.
LEMMA MovesKeepRecorded ==
  ASSUME ToolInv, NEW t \in ToolCalls, Moves(t), Continues(t) \/ Begins(t)
  PROVE  SuccessesAre'
<1> SUFFICES ASSUME NEW e \in executions', e.status = "SUCCEEDED"
             PROVE  e.by \in carriedOut' /\ tool'[e.by].kind = e.kind
  BY DEF SuccessesAre
<1>1. CASE e \in executions
  <2>1. e.by \in carriedOut /\ tool[e.by].kind = e.kind /\ e.by \in ToolCalls
    BY <1>1 DEF ToolInv, SuccessesAre, ToolsTyped
  <2>2. tool[e.by].at # "idle"
    BY <2>1 DEF ToolInv, Known
  <2> QED BY <2>1, <2>2 DEF Moves, Continues, Begins
<1>2. CASE e \notin executions
  <2>1. e.by = t /\ e.kind = tool[t].kind /\ t \in carriedOut' /\ tool[t].at \in ToolUnderWay
    BY <1>2 DEF Moves
  <2> QED BY <2>1 DEF Continues, Begins, ToolUnderWay
<1> QED BY <1>1, <1>2

\* What is known of the other calls stays so.
LEMMA OthersKnown ==
  ASSUME ToolInv, NEW t \in ToolCalls, Moves(t), Continues(t) \/ Begins(t), NEW u \in ToolCalls, u # t
  PROVE  Known(u)'
<1>1. /\ tool'[u] = tool[u] /\ told'[u] = told[u] /\ (u \in carriedOut' <=> u \in carriedOut)
      /\ exempt \subseteq exempt' /\ executions \subseteq executions'
  BY DEF Moves
<1>2. ASSUME NEW v \in carriedOut PROVE v \in carriedOut' /\ tool'[v].kind = tool[v].kind
  <2>1. tool[v].at # "idle" /\ v \in ToolCalls
    BY DEF ToolInv, ToolsTyped, Known
  <2> QED BY <2>1 DEF Moves, Continues, Begins
<1>3. Known(u)
  BY DEF ToolInv
<1>4. told'[u] = "ok" => \E v \in carriedOut' : tool'[v].kind = tool'[u].kind
  BY <1>1, <1>2, <1>3 DEF Known
<1> QED BY <1>1, <1>3, <1>4 DEF Known

\* What runs alone of its kind still does.
LEMMA MovesKeepAlone ==
  ASSUME ToolInv, NEW t \in ToolCalls, Moves(t), Continues(t) \/ Begins(t), NEW u \in ToolCalls
  PROVE  Alone(u)'
<1> SUFFICES ASSUME tool'[u].at \in ToolUnderWay, u \notin exempt', NEW v \in ToolCalls \ {u}, tool'[v].kind = tool'[u].kind,
                    tool'[v].at \in ToolUnderWay
             PROVE  FALSE
  BY DEF Alone
<1>0. u \notin exempt /\ Alone(u)
  BY DEF Moves, ToolInv
<1>1. CASE Continues(t)
  <2>1. \A w \in ToolCalls : tool'[w].kind = tool[w].kind /\ (tool'[w].at \in ToolUnderWay => tool[w].at \in ToolUnderWay)
    BY <1>1 DEF Moves, Continues
  <2> QED BY <1>0, <2>1 DEF Alone
<1>2. CASE Begins(t)
  <2>1. Running(tool'[t].kind) # {} => t \in exempt' /\ Running(tool'[t].kind) \subseteq exempt'
    BY <1>2 DEF Begins
  <2>2. \A w \in ToolCalls \ {t} : tool'[w] = tool[w]
    BY DEF Moves
  <2>3. \A w \in ToolCalls \ {t} : tool'[w].at \in ToolUnderWay /\ tool'[w].kind = tool'[t].kind => w \in Running(tool'[t].kind)
    BY <2>2 DEF Running, ToolUnderWay
  <2>4. CASE u = t
    BY <2>1, <2>3, <2>4
  <2>5. CASE v = t
    BY <2>1, <2>3, <2>5
  <2>6. CASE u # t /\ v # t
    BY <1>0, <2>2, <2>6 DEF Alone
  <2> QED BY <2>4, <2>5, <2>6
<1> QED BY <1>1, <1>2

\* What another call does leaves the executions of a kind that runs alone.
LEMMA OthersStillAllowed ==
  ASSUME ToolInv, NEW t \in ToolCalls, Moves(t), NEW u \in ToolCalls, u # t
  PROVE  StillAllowed(u)'
<1>1. tool'[u] = tool[u] /\ exempt \subseteq exempt' /\ Alone(u) /\ StillAllowed(u)
  BY DEF Moves, ToolInv
<1>2. ASSUME tool[u].at \in {"previous", "run"}, u \notin exempt
      PROVE  SoFar(tool[u].kind)' = SoFar(tool[u].kind) /\ Previous(u)' = Previous(u)
  <2>1. \A e \in executions' \ executions : e.kind # tool[u].kind
    BY <1>1, <1>2 DEF Moves, Alone, ToolUnderWay
  <2>2. executions \subseteq executions'
    BY DEF Moves
  <2> QED BY <1>1, <2>1, <2>2 DEF SoFar, Previous
<1>3. CASE tool[u].at \in {"previous", "run"} /\ u \notin exempt
  <2>1. SoFar(tool[u].kind)' = SoFar(tool[u].kind) /\ Previous(u)' = Previous(u)
    BY <1>2, <1>3
  <2> QED BY <1>1, <1>3, <2>1 DEF StillAllowed
<1>4. CASE ~(tool[u].at \in {"previous", "run"} /\ u \notin exempt)
  BY <1>1, <1>4 DEF StillAllowed
<1> QED BY <1>3, <1>4

\* What was carried out as planned was recorded as a success.
LEMMA PlainRecorded ==
  ASSUME ToolInv, NEW t \in ToolCalls, tool[t].at = "run", t \notin exempt, NEW u \in Plain(tool[t].kind)
  PROVE  [by |-> u, kind |-> tool[t].kind, status |-> "SUCCEEDED"] \in executions
<1>1. u \in carriedOut \ exempt /\ tool[u].kind = tool[t].kind /\ u \in ToolCalls
  BY DEF Plain, ToolInv, ToolsTyped
<1>2. Known(u) /\ Known(t) /\ Alone(t)
  BY <1>1 DEF ToolInv
<1>3. u # t
  BY <1>1, <1>2 DEF Known
<1>4. tool[u].at \notin ToolUnderWay
  BY <1>1, <1>2, <1>3 DEF Alone, ToolUnderWay
<1>5. tool[u].at \in ToolSteps
  BY <1>1 DEF ToolInv, ToolsTyped, ToolRecords
<1>6. tool[u].at = "done"
  BY <1>1, <1>2, <1>4, <1>5 DEF Known, ToolUnderWay, ToolSteps
<1> QED BY <1>1, <1>2, <1>6 DEF Known

\* Where a call may be carried out there is room for one more.
LEMMA RoomForOne ==
  ASSUME ToolInv, NEW t \in ToolCalls, tool[t].at = "run", t \notin exempt
  PROVE  /\ IsFiniteSet(Plain(tool[t].kind)) /\ t \notin Plain(tool[t].kind)
         /\ Cardinality(Plain(tool[t].kind)) + 1 <= MostOf(tool[t].kind)
<1> DEFINE kind == tool[t].kind
           P == Plain(kind)
           row == [u \in P |-> [by |-> u, kind |-> kind, status |-> "SUCCEEDED"]]
<1>1. kind \in Kinds /\ Known(t) /\ StillAllowed(t) /\ IsFiniteSet(executions)
  BY DEF ToolInv, ToolsTyped, ToolRecords
<1>2. IsFiniteSet(P) /\ Cardinality(P) \in Nat
  BY <1>1, FS_CardinalityType DEF ToolInv, WithinLimit
<1>3. t \notin P
  BY <1>1 DEF Known, Plain
<1>4. \A u \in P : row[u] \in SoFar(kind)
  BY PlainRecorded DEF SoFar
<1>5. Cardinality(P) <= Cardinality(SoFar(kind)) /\ Cardinality(SoFar(kind)) \in Nat
  <2>1. IsFiniteSet(SoFar(kind))
    BY <1>1, FS_Subset DEF SoFar
  <2>2. \A u, v \in P : row[u] = row[v] => u = v
    <3> SUFFICES ASSUME NEW u \in P, NEW v \in P, row[u] = row[v] PROVE u = v
      OBVIOUS
    <3>1. row[u].by = u /\ row[v].by = v
      OBVIOUS
    <3> QED BY <3>1
  <2>3. row \in [P -> SoFar(kind)]
    BY <1>4
  <2> HIDE DEF row, P
  <2>4. row \in Injection(P, SoFar(kind))
    BY <2>2, <2>3, Zenon DEF Injection, IsInjective
  <2>5. Cardinality(P) <= Cardinality(SoFar(kind))
    BY <2>1, <2>4, FS_Injection
  <2>6. Cardinality(SoFar(kind)) \in Nat
    BY <2>1, FS_CardinalityType
  <2> QED BY <2>5, <2>6
<1>6. CASE kind \in Idempotent
  <2>1. Previous(t) = {}
    BY <1>1, <1>6 DEF StillAllowed
  <2>2. P = {}
    <3> SUFFICES ASSUME NEW u \in P PROVE FALSE
      OBVIOUS
    <3>1. [by |-> u, kind |-> kind, status |-> "SUCCEEDED"] \in executions
      BY PlainRecorded
    <3> QED BY <2>1, <3>1 DEF Previous
  <2> QED BY <1>2, <1>3, <1>6, <2>2, FS_EmptySet DEF MostOf
<1>7. CASE kind \notin Idempotent
  <2>1. Cardinality(SoFar(kind)) < ToolLimit
    BY <1>1 DEF StillAllowed
  <2>2. ToolLimit \in Nat
    BY ConversationAssumption
  <2> HIDE DEF P, kind
  <2>3. Cardinality(P) + 1 <= ToolLimit
    BY <1>2, <1>5, <2>1, <2>2 DEF kind
  <2>4. MostOf(kind) = ToolLimit
    BY <1>7 DEF MostOf
  <2> QED BY <1>2, <1>3, <2>3, <2>4 DEF P, kind
<1> QED BY <1>6, <1>7

\* The limit holds when one more is carried out.
LEMMA MovesKeepLimit ==
  ASSUME ToolInv, NEW t \in ToolCalls, Moves(t), Continues(t) \/ Begins(t),
         t \in carriedOut' \ carriedOut /\ t \notin exempt' => tool[t].at = "run", NEW kind \in Kinds
  PROVE  WithinLimit(kind)'
<1> DEFINE P == Plain(kind)
<1>0. IsFiniteSet(P) /\ Cardinality(P) <= MostOf(kind) /\ Cardinality(P) \in Nat /\ MostOf(kind) \in Nat
  <2>1. MostOf(kind) \in Nat
    BY ConversationAssumption DEF MostOf
  <2> QED BY <2>1, FS_CardinalityType DEF ToolInv, WithinLimit
<1>1. \A u \in carriedOut : u \in ToolCalls /\ tool'[u].kind = tool[u].kind
  <2> SUFFICES ASSUME NEW u \in carriedOut PROVE u \in ToolCalls /\ tool'[u].kind = tool[u].kind
    OBVIOUS
  <2>1. u \in ToolCalls /\ tool[u].at # "idle"
    BY DEF ToolInv, ToolsTyped, Known
  <2> QED BY <2>1 DEF Moves, Continues, Begins
<1>2. Plain(kind)' = {u \in carriedOut' \ exempt' : tool'[u].kind = kind}
  BY DEF Plain
<1>3. ASSUME NEW Q, Q \subseteq P PROVE IsFiniteSet(Q) /\ Cardinality(Q) <= MostOf(kind)
  <2>1. IsFiniteSet(Q) /\ Cardinality(Q) <= Cardinality(P) /\ Cardinality(Q) \in Nat
    BY <1>0, <1>3, FS_Subset, FS_CardinalityType
  <2> HIDE DEF P
  <2> QED BY <1>0, <2>1
<1>4. CASE t \in carriedOut' \ carriedOut /\ t \notin exempt' /\ tool'[t].kind = kind
  <2>1. tool[t].at = "run" /\ t \notin exempt /\ tool[t].kind = kind
    BY <1>4 DEF Moves, Continues, Begins
  <2>2. IsFiniteSet(P) /\ t \notin P /\ Cardinality(P) + 1 <= MostOf(kind)
    BY <2>1, RoomForOne
  <2>3. IsFiniteSet(P \cup {t}) /\ Cardinality(P \cup {t}) = Cardinality(P) + 1
    BY <2>2, FS_AddElement
  <2>4. Plain(kind)' \subseteq P \cup {t}
    BY <1>1, <1>2 DEF Moves, Plain
  <2>5. IsFiniteSet(Plain(kind)') /\ Cardinality(Plain(kind)') <= Cardinality(P \cup {t}) /\ Cardinality(Plain(kind)') \in Nat
        /\ Cardinality(P \cup {t}) \in Nat
    BY <2>3, <2>4, FS_Subset, FS_CardinalityType
  <2> HIDE DEF P
  <2>6. Cardinality(Plain(kind)') <= MostOf(kind)
    BY <1>0, <2>2, <2>3, <2>5
  <2> QED BY <2>5, <2>6 DEF WithinLimit, MostOf
<1>5. CASE ~(t \in carriedOut' \ carriedOut /\ t \notin exempt' /\ tool'[t].kind = kind)
  <2>1. Plain(kind)' \subseteq P
    BY <1>1, <1>2, <1>5 DEF Moves, Plain
  <2>2. IsFiniteSet(Plain(kind)') /\ Cardinality(Plain(kind)') <= MostOf(kind)
    BY <1>3, <2>1
  <2> QED BY <2>2 DEF WithinLimit, MostOf
<1> QED BY <1>4, <1>5

\* So a call that moves leaves the invariant to what is known of it.
LEMMA MoveStep ==
  ASSUME ToolInv, NEW t \in ToolCalls, Moves(t), Continues(t) \/ Begins(t),
         t \in carriedOut' \ carriedOut /\ t \notin exempt' => tool[t].at = "run",
         Known(t)', StillAllowed(t)'
  PROVE  ToolInv'
<1>1. \A u \in ToolCalls : Known(u)' /\ Alone(u)' /\ StillAllowed(u)'
  BY OthersKnown, MovesKeepAlone, OthersStillAllowed
<1> QED BY <1>1, MovesKeepTypes, MovesKeepRecorded, MovesKeepLimit DEF ToolInv

-----------------------------------------------------------------------------
\* The steps of one call.
LEMMA ToolChanges ==
  ASSUME tool \in [ToolCalls -> ToolRecords], NEW t \in ToolCalls, NEW x \in ToolRecords, tool' = [tool EXCEPT ![t] = x]
  PROVE  tool' \in [ToolCalls -> ToolRecords] /\ tool'[t] = x /\ \A u \in ToolCalls \ {t} : tool'[u] = tool[u]
OBVIOUS

\* A call goes to its next statement.
LEMMA Going ==
  ASSUME ToolInv, NEW t \in ToolCalls, NEW from \in ToolSteps, NEW to \in ToolSteps, Goes(t, from, to)
  PROVE  /\ tool[t].at = from /\ tool'[t].at = to /\ tool'[t].kind = tool[t].kind /\ tool'[t].late = tool[t].late
         /\ tool' \in [ToolCalls -> ToolRecords] /\ \A u \in ToolCalls \ {t} : tool'[u] = tool[u]
<1> DEFINE x == [tool[t] EXCEPT !.at = to]
<1>1. tool[t] \in ToolRecords /\ tool \in [ToolCalls -> ToolRecords]
  BY DEF ToolInv, ToolsTyped
<1>2. x \in ToolRecords /\ x.at = to /\ x.kind = tool[t].kind /\ x.late = tool[t].late
  BY <1>1 DEF ToolRecords
<1>3. tool' = [tool EXCEPT ![t] = x] /\ tool[t].at = from
  BY DEF Goes
<1> QED BY <1>1, <1>2, <1>3, ToolChanges

\* Each call is at one of the statements.
LEMMA SomeAreTyped ==
  ASSUME ToolInv
  PROVE  /\ carriedOut \subseteq ToolCalls /\ exempt \subseteq ToolCalls /\ told \in [ToolCalls -> Answers]
         /\ toolFaults \in 0..ToolFaults /\ tool \in [ToolCalls -> ToolRecords]
         /\ ToolFault => toolFaults' \in 0..ToolFaults
<1>1. toolFaults \in 0..ToolFaults
  BY DEF ToolInv, ToolsTyped
<1>2. ToolFault => toolFaults' \in 0..ToolFaults
  BY <1>1, ConversationAssumption DEF ToolFault
<1> QED BY <1>1, <1>2 DEF ToolInv, ToolsTyped

\* One answer is told.
LEMMA ToldOne ==
  ASSUME ToolInv, NEW t \in ToolCalls, NEW a \in Answers, told' = [told EXCEPT ![t] = a]
  PROVE  told' \in [ToolCalls -> Answers] /\ told'[t] = a /\ \A u \in ToolCalls \ {t} : told'[u] = told[u]
BY SomeAreTyped

\* The model asks for a tool.
LEMMA ToolCallStep ==
  ASSUME ToolInv, NEW t \in ToolCalls, NEW kind \in Kinds, ToolCall(t, kind)
  PROVE  ToolInv'
<1> DEFINE x == [at |-> "authorize", kind |-> kind, late |-> FALSE]
<1>1. x \in ToolRecords
  BY DEF ToolRecords, ToolSteps
<1>2. tool' \in [ToolCalls -> ToolRecords] /\ tool'[t] = x /\ \A u \in ToolCalls \ {t} : tool'[u] = tool[u]
  BY <1>1, SomeAreTyped, ToolChanges DEF ToolCall
<1>3. Moves(t)
  BY <1>2, SomeAreTyped DEF Moves, ToolCall, Running
<1>4. Begins(t)
  BY <1>2 DEF Begins, ToolCall
<1>5. Known(t)' /\ StillAllowed(t)'
  <2>1. Known(t)
    BY DEF ToolInv
  <2> QED BY <1>2, <2>1 DEF ToolCall, Known, StillAllowed
<1> QED BY <1>3, <1>4, <1>5, MoveStep DEF ToolCall

\* The call is authorized, or denied.
LEMMA AuthorizeStep ==
  ASSUME ToolInv, NEW t \in ToolCalls, Authorize(t)
  PROVE  ToolInv'
<1>1. PICK to \in {"deny", "previous"} :
        Goes(t, "authorize", to) /\ (to = "previous" => Cardinality(SoFar(tool[t].kind)) < ToolLimit)
  BY DEF Authorize
<1>2. /\ tool[t].at = "authorize" /\ tool'[t].at = to /\ tool'[t].kind = tool[t].kind /\ tool'[t].late = tool[t].late
      /\ tool' \in [ToolCalls -> ToolRecords] /\ \A u \in ToolCalls \ {t} : tool'[u] = tool[u]
  BY <1>1, Going DEF ToolSteps
<1>3. /\ carriedOut' = carriedOut /\ executions' = executions /\ told' = told /\ exempt' = exempt /\ toolFaults' = toolFaults
  BY DEF Authorize
<1>4. Moves(t) /\ Continues(t)
  BY <1>2, <1>3, SomeAreTyped DEF Moves, Continues, ToolUnderWay
<1>5. Known(t)'
  <2>1. Known(t)
    BY DEF ToolInv
  <2> QED BY <1>2, <1>3, <2>1 DEF Known
<1>6. StillAllowed(t)'
  <2>1. tool'[t].at # "run" /\ SoFar(tool[t].kind)' = SoFar(tool[t].kind)
    BY <1>2, <1>3 DEF SoFar
  <2> QED BY <1>1, <1>2, <2>1 DEF StillAllowed
<1> QED BY <1>3, <1>4, <1>5, <1>6, MoveStep

\* A success of the same kind is looked for.
LEMMA FindPreviousStep ==
  ASSUME ToolInv, NEW t \in ToolCalls, FindPrevious(t)
  PROVE  ToolInv'
<1>0. carriedOut' = carriedOut /\ executions' = executions /\ exempt' = exempt /\ toolFaults' = toolFaults
  BY DEF FindPrevious
<1>k. Known(t) /\ StillAllowed(t)
  BY DEF ToolInv
<1>1. CASE tool[t].kind \in Idempotent /\ Previous(t) # {}
  <2>1. Goes(t, "previous", "done") /\ told' = [told EXCEPT ![t] = "ok"]
    BY <1>1 DEF FindPrevious
  <2>2. /\ tool[t].at = "previous" /\ tool'[t].at = "done" /\ tool'[t].kind = tool[t].kind /\ tool'[t].late = tool[t].late
        /\ tool' \in [ToolCalls -> ToolRecords] /\ \A u \in ToolCalls \ {t} : tool'[u] = tool[u]
    BY <2>1, Going DEF ToolSteps
  <2>3. told' \in [ToolCalls -> Answers] /\ told'[t] = "ok" /\ \A u \in ToolCalls \ {t} : told'[u] = told[u]
    BY <2>1, ToldOne DEF Answers
  <2>4. Moves(t) /\ Continues(t)
    BY <1>0, <2>2, <2>3, SomeAreTyped DEF Moves, Continues, ToolUnderWay
  <2>5. PICK e \in executions : e.kind = tool[t].kind /\ e.status = "SUCCEEDED"
    BY <1>1 DEF Previous
  <2>6. e.by \in carriedOut /\ tool[e.by].kind = tool[t].kind
    BY <2>5 DEF ToolInv, SuccessesAre
  <2>7. tool'[e.by].kind = tool'[t].kind
    BY <2>2, <2>6, SomeAreTyped
  <2>8. t \notin carriedOut'
    BY <1>0, <1>k, <2>2 DEF Known
  <2>9. Known(t)'
    BY <1>0, <1>k, <2>2, <2>6, <2>7, <2>8 DEF Known
  <2>10. StillAllowed(t)'
    BY <2>2 DEF StillAllowed
  <2> QED BY <1>0, <2>4, <2>9, <2>10, MoveStep
<1>2. CASE ~(tool[t].kind \in Idempotent /\ Previous(t) # {})
  <2>1. Goes(t, "previous", "run") /\ told' = told
    BY <1>2 DEF FindPrevious
  <2>2. /\ tool[t].at = "previous" /\ tool'[t].at = "run" /\ tool'[t].kind = tool[t].kind /\ tool'[t].late = tool[t].late
        /\ tool' \in [ToolCalls -> ToolRecords] /\ \A u \in ToolCalls \ {t} : tool'[u] = tool[u]
    BY <2>1, Going DEF ToolSteps
  <2>4. Moves(t) /\ Continues(t)
    BY <1>0, <2>1, <2>2, SomeAreTyped DEF Moves, Continues, ToolUnderWay
  <2>5. Known(t)'
    BY <1>0, <1>k, <2>1, <2>2 DEF Known
  <2>6. SoFar(tool[t].kind)' = SoFar(tool[t].kind) /\ Previous(t)' = Previous(t)
    BY <1>0, <2>2 DEF SoFar, Previous
  <2>7. StillAllowed(t)'
    BY <1>0, <1>2, <1>k, <2>2, <2>6 DEF StillAllowed
  <2> QED BY <1>0, <2>4, <2>5, <2>7, MoveStep
<1> QED BY <1>1, <1>2

\* The tool acts.
LEMMA CarryOutStep ==
  ASSUME ToolInv, NEW t \in ToolCalls, CarryOut(t)
  PROVE  ToolInv'
<1>0. carriedOut' = carriedOut \cup {t} /\ executions' = executions /\ told' = told /\ toolFaults' = toolFaults
      /\ exempt \subseteq exempt' /\ exempt' \subseteq exempt \cup {t}
  BY DEF CarryOut
<1>k. Known(t) /\ StillAllowed(t)
  BY DEF ToolInv
<1>1. CASE Goes(t, "run", "succeed")
  <2>2. /\ tool[t].at = "run" /\ tool'[t].at = "succeed" /\ tool'[t].kind = tool[t].kind /\ tool'[t].late = tool[t].late
        /\ tool' \in [ToolCalls -> ToolRecords] /\ \A u \in ToolCalls \ {t} : tool'[u] = tool[u]
    BY <1>1, Going DEF ToolSteps
  <2>4. Moves(t) /\ Continues(t)
    BY <1>0, <2>2, SomeAreTyped DEF Moves, Continues, ToolUnderWay
  <2>5. Known(t)'
    BY <1>0, <1>k, <2>2 DEF Known
  <2>6. StillAllowed(t)'
    BY <2>2 DEF StillAllowed
  <2> QED BY <2>2, <2>4, <2>5, <2>6, MoveStep
<1>2. CASE tool[t].late /\ t \notin carriedOut /\ UNCHANGED tool
  <2>1. tool[t].at \in {"fail", "done"} /\ t \in exempt
    BY <1>2, <1>k DEF Known
  <2>2. Moves(t) /\ Continues(t)
    BY <1>0, <1>2, <2>1, SomeAreTyped DEF Moves, Continues
  <2>3. Known(t)'
    BY <1>0, <1>2, <1>k, <2>1 DEF Known
  <2>4. StillAllowed(t)'
    BY <1>2, <2>1 DEF StillAllowed
  <2> QED BY <1>0, <2>1, <2>2, <2>3, <2>4, MoveStep
<1> QED BY <1>1, <1>2 DEF CarryOut

\* A tool that failed is recorded so.
LEMMA ReportFailureStep ==
  ASSUME ToolInv, NEW t \in ToolCalls, ReportFailure(t)
  PROVE  ToolInv'
<1>0. carriedOut' = carriedOut /\ executions' = executions /\ told' = told /\ toolFaults' = toolFaults /\ exempt' = exempt
  BY DEF ReportFailure
<1>2. /\ tool[t].at = "run" /\ tool'[t].at = "fail" /\ tool'[t].kind = tool[t].kind /\ tool'[t].late = tool[t].late
      /\ tool' \in [ToolCalls -> ToolRecords] /\ \A u \in ToolCalls \ {t} : tool'[u] = tool[u]
  BY Going DEF ToolSteps, ReportFailure
<1>4. Moves(t) /\ Continues(t)
  BY <1>0, <1>2, SomeAreTyped DEF Moves, Continues, ToolUnderWay
<1>5. Known(t)'
  <2>1. Known(t)
    BY DEF ToolInv
  <2> QED BY <1>0, <1>2, <2>1 DEF Known
<1>6. StillAllowed(t)'
  BY <1>2 DEF StillAllowed
<1> QED BY <1>0, <1>4, <1>5, <1>6, MoveStep

\* A tool fails after it has acted, which is an exception.
LEMMA FailHalfwayStep ==
  ASSUME ToolInv, NEW t \in ToolCalls, FailHalfway(t)
  PROVE  ToolInv'
<1>0. carriedOut' = carriedOut /\ executions' = executions /\ told' = told /\ exempt' = exempt \cup {t}
  BY DEF FailHalfway
<1>1. toolFaults' \in 0..ToolFaults
  BY SomeAreTyped DEF FailHalfway
<1>2. /\ tool[t].at \in {"succeed", "run"} /\ tool'[t].at = "fail" /\ tool'[t].kind = tool[t].kind
      /\ tool' \in [ToolCalls -> ToolRecords] /\ \A u \in ToolCalls \ {t} : tool'[u] = tool[u]
  <2>1. CASE Goes(t, "succeed", "fail")
    BY <2>1, Going DEF ToolSteps
  <2>2. CASE tool[t].at = "run" /\ tool' = [tool EXCEPT ![t].at = "fail", ![t].late = TRUE]
    <3> DEFINE x == [tool[t] EXCEPT !.at = "fail", !.late = TRUE]
    <3>1. tool[t] \in ToolRecords /\ tool \in [ToolCalls -> ToolRecords]
      BY DEF ToolInv, ToolsTyped
    <3>2. x \in ToolRecords /\ x.at = "fail" /\ x.kind = tool[t].kind
      BY <3>1 DEF ToolRecords, ToolSteps
    <3>3. tool' = [tool EXCEPT ![t] = x]
      BY <2>2, <3>1 DEF ToolRecords
    <3> QED BY <2>2, <3>1, <3>2, <3>3, ToolChanges
  <2> QED BY <2>1, <2>2 DEF FailHalfway
<1>4. Moves(t) /\ Continues(t)
  BY <1>0, <1>1, <1>2, SomeAreTyped DEF Moves, Continues, ToolUnderWay
<1>5. Known(t)'
  <2>1. Known(t)
    BY DEF ToolInv
  <2> QED BY <1>0, <1>2, <2>1 DEF Known
<1>6. StillAllowed(t)'
  BY <1>2 DEF StillAllowed
<1> QED BY <1>0, <1>4, <1>5, <1>6, MoveStep

\* The answer does not come in time.
LEMMA UnansweredStep ==
  ASSUME ToolInv, NEW t \in ToolCalls, Unanswered(t)
  PROVE  ToolInv'
<1>0. carriedOut' = carriedOut /\ executions' = executions /\ told' = told /\ exempt' = exempt
      /\ tool[t].at \in {"authorize", "previous"} /\ Goes(t, tool[t].at, "done")
  BY DEF Unanswered, Goes
<1>1. toolFaults' \in 0..ToolFaults
  BY SomeAreTyped DEF Unanswered
<1>2. /\ tool'[t].at = "done" /\ tool'[t].kind = tool[t].kind /\ tool'[t].late = tool[t].late
      /\ tool' \in [ToolCalls -> ToolRecords] /\ \A u \in ToolCalls \ {t} : tool'[u] = tool[u]
  BY <1>0, Going DEF ToolSteps
<1>4. Moves(t) /\ Continues(t)
  BY <1>0, <1>1, <1>2, SomeAreTyped DEF Moves, Continues, ToolUnderWay
<1>5. Known(t)'
  <2>1. Known(t)
    BY DEF ToolInv
  <2> QED BY <1>0, <1>2, <2>1 DEF Known
<1>6. StillAllowed(t)'
  BY <1>2 DEF StillAllowed
<1> QED BY <1>0, <1>4, <1>5, <1>6, MoveStep

\* The answer goes to the model.
LEMMA TellStep ==
  ASSUME ToolInv, NEW t \in ToolCalls, Tell(t)
  PROVE  ToolInv'
<1> DEFINE at == tool[t].at
           kind == tool[t].kind
<1>0. carriedOut' = carriedOut /\ at \in {"succeed", "fail", "deny"} /\ Goes(t, at, "done") /\ told' = [told EXCEPT ![t] = AnswerOf[at]]
  BY DEF Tell, Goes, StatusOf
<1>1. toolFaults' \in 0..ToolFaults /\ exempt \subseteq exempt' /\ exempt' \subseteq ToolCalls
  BY SomeAreTyped DEF Tell
<1>2. /\ tool'[t].at = "done" /\ tool'[t].kind = kind /\ tool'[t].late = tool[t].late
      /\ tool' \in [ToolCalls -> ToolRecords] /\ \A u \in ToolCalls \ {t} : tool'[u] = tool[u]
  BY <1>0, Going DEF ToolSteps
<1>3. AnswerOf[at] \in Answers /\ (AnswerOf[at] = "ok" <=> at = "succeed")
      /\ StatusOf[at] \in {"SUCCEEDED", "FAILED", "DENIED"} /\ (StatusOf[at] = "SUCCEEDED" <=> at = "succeed")
  BY <1>0 DEF AnswerOf, StatusOf, Answers
<1>4. told' \in [ToolCalls -> Answers] /\ told'[t] = AnswerOf[at] /\ \A u \in ToolCalls \ {t} : told'[u] = told[u]
  BY <1>0, <1>3, ToldOne
<1>k. Known(t)
  BY DEF ToolInv
<1>5. \/ executions' = executions \cup {[by |-> t, kind |-> kind, status |-> StatusOf[at]]}
      \/ executions' = executions /\ t \in exempt'
  BY DEF Tell
<1>6. Moves(t)
  <2>1. StatusOf[at] = "SUCCEEDED" => t \in carriedOut'
    BY <1>0, <1>3, <1>k DEF Known
  <2>2. at \in ToolUnderWay
    BY <1>0 DEF ToolUnderWay
  <2>3. \/ executions' = executions
        \/ \E s \in {"SUCCEEDED", "FAILED", "DENIED"} :
             /\ executions' = executions \cup {[by |-> t, kind |-> kind, status |-> s]}
             /\ at \in ToolUnderWay /\ (s = "SUCCEEDED" => t \in carriedOut')
    BY <1>3, <1>5, <2>1, <2>2
  <2> QED BY <1>0, <1>1, <1>2, <1>4, <2>3 DEF Moves
<1>7. Continues(t)
  BY <1>0, <1>2 DEF Continues, ToolUnderWay
<1>8. Known(t)'
  <2>1. told'[t] = "ok" => t \in carriedOut'
    BY <1>0, <1>3, <1>4, <1>k DEF Known
  <2>2. t \in carriedOut' \ exempt' => at = "succeed"
    BY <1>0, <1>1, <1>k DEF Known
  <2>3. t \in carriedOut' \ exempt' => told'[t] = "ok" /\ [by |-> t, kind |-> kind, status |-> "SUCCEEDED"] \in executions'
    BY <1>3, <1>4, <1>5, <2>2
  <2>4. tool'[t].late => t \in exempt'
    BY <1>1, <1>2, <1>k DEF Known
  <2> QED BY <1>2, <2>1, <2>3, <2>4 DEF Known
<1>9. StillAllowed(t)'
  BY <1>2 DEF StillAllowed
<1> QED BY <1>0, <1>6, <1>7, <1>8, <1>9, MoveStep

-----------------------------------------------------------------------------
\* The session in memory and the work after the call.
TalkRecords == [ending : BOOLEAN, said : BOOLEAN, stage : 0..2, closing : BOOLEAN, followups : Nat, failures : 0..(MaxFailures - 1)]
AfterCalls == [at : {"idle", "usage", "summary", "lead", "done"}, asked : BOOLEAN]

\* The calls whose answer was that it is done.
Hits == {t \in ToolCalls : told[t] = "ok"}

TalkInv ==
  /\ talk \in TalkRecords /\ afterCall \in AfterCalls
  /\ talk.followups <= Cardinality(Hits)
  /\ usage \subseteq 0..Cardinality(ToolCalls)
  /\ socketOpen \in BOOLEAN /\ supportAsked \in BOOLEAN /\ lead \in {"others", "tool", "outcome"}

\* A request for support is on the call, and in what the work after the call has read of it.
SupportKept ==
  /\ ~talk.ending => afterCall.at = "idle"
  /\ \A t \in carriedOut \ exempt :
       tool[t].kind \in AsksSupport => supportAsked /\ (afterCall.at # "idle" => afterCall.asked)

\* What the other steps do to the talk.
LEMMA TalkChanges ==
  ASSUME NEW m \in TalkRecords
  PROVE  /\ \A n : n = [m EXCEPT !.stage = 0] => n \in TalkRecords /\ n.ending = m.ending /\ n.followups = m.followups
         /\ \A n : n = [m EXCEPT !.said = TRUE] => n \in TalkRecords /\ n.ending = m.ending /\ n.followups = m.followups
         /\ \A n, c : n = [m EXCEPT !.stage = @ + 1, !.closing = c] /\ m.stage < 2 /\ c \in BOOLEAN =>
              n \in TalkRecords /\ n.ending = m.ending /\ n.followups = m.followups
         /\ \A n : n = [m EXCEPT !.ending = TRUE, !.stage = 0, !.closing = FALSE] =>
              n \in TalkRecords /\ n.ending /\ n.followups = m.followups
         /\ \A n, f, c : n = [m EXCEPT !.failures = f, !.followups = c] /\ f \in 0..(MaxFailures - 1) /\ c \in Nat =>
              n \in TalkRecords /\ n.ending = m.ending /\ n.followups = c
<1>1. m.stage \in 0..2 /\ m.followups \in Nat /\ m.ending \in BOOLEAN /\ m.failures \in 0..(MaxFailures - 1)
  BY DEF TalkRecords
<1>2. 0 \in 0..2 /\ (m.stage < 2 => m.stage + 1 \in 0..2)
  BY <1>1
<1>3. ASSUME NEW n, n = [m EXCEPT !.stage = 0] PROVE n \in TalkRecords /\ n.ending = m.ending /\ n.followups = m.followups
  BY <1>2, <1>3 DEF TalkRecords
<1>4. ASSUME NEW n, n = [m EXCEPT !.said = TRUE] PROVE n \in TalkRecords /\ n.ending = m.ending /\ n.followups = m.followups
  BY <1>4 DEF TalkRecords
<1>5. ASSUME NEW n, NEW c \in BOOLEAN, n = [m EXCEPT !.stage = @ + 1, !.closing = c], m.stage < 2
      PROVE  n \in TalkRecords /\ n.ending = m.ending /\ n.followups = m.followups
  BY <1>2, <1>5 DEF TalkRecords
<1>6. ASSUME NEW n, n = [m EXCEPT !.ending = TRUE, !.stage = 0, !.closing = FALSE]
      PROVE  n \in TalkRecords /\ n.ending /\ n.followups = m.followups
  BY <1>2, <1>6 DEF TalkRecords
<1>7. ASSUME NEW n, NEW f \in 0..(MaxFailures - 1), NEW c \in Nat, n = [m EXCEPT !.failures = f, !.followups = c]
      PROVE  n \in TalkRecords /\ n.ending = m.ending /\ n.followups = c
  BY <1>7 DEF TalkRecords
<1>8. \A n, c : n = [m EXCEPT !.stage = @ + 1, !.closing = c] /\ m.stage < 2 /\ c \in BOOLEAN =>
        n \in TalkRecords /\ n.ending = m.ending /\ n.followups = m.followups
  BY <1>5
<1>9. \A n, f, c : n = [m EXCEPT !.failures = f, !.followups = c] /\ f \in 0..(MaxFailures - 1) /\ c \in Nat =>
        n \in TalkRecords /\ n.ending = m.ending /\ n.followups = c
  BY <1>7
<1> QED BY <1>3, <1>4, <1>6, <1>8, <1>9

\* The successes that were told can be counted.
LEMMA HitsAreCounted ==
  IsFiniteSet(ToolCalls) /\ IsFiniteSet(Hits) /\ Cardinality(Hits) \in Nat /\ Cardinality(ToolCalls) \in Nat
  /\ Cardinality(Hits) <= Cardinality(ToolCalls)
<1>1. IsFiniteSet(ToolCalls) /\ Hits \subseteq ToolCalls
  BY ConversationAssumption DEF Hits
<1> QED BY <1>1, FS_Subset, FS_CardinalityType

\* An answer adds to the follow-ups one at most.
LEMMA AnswerCounts ==
  ASSUME talk \in TalkRecords, NEW t \in ToolCalls, NEW ok \in BOOLEAN, CountAnswer(t, ok)
  PROVE  /\ talk' \in TalkRecords /\ talk'.ending = talk.ending
         /\ talk'.followups = talk.followups \/ (ok /\ talk'.followups = talk.followups + 1)
<1>1. talk.followups \in Nat /\ talk.failures \in 0..(MaxFailures - 1) /\ MaxFailures \in Nat \ {0}
  BY ConversationAssumption DEF TalkRecords
<1>2. PICK f, c : /\ talk' = [talk EXCEPT !.failures = f, !.followups = c]
                  /\ f = (IF ok \/ talk.failures + 1 >= MaxFailures THEN 0 ELSE talk.failures + 1)
                  /\ c = (IF ok /\ tool[t].kind = "followup" THEN talk.followups + 1 ELSE talk.followups)
  BY DEF CountAnswer
<1>3. f \in 0..(MaxFailures - 1)
  BY <1>1, <1>2
<1>4. c = talk.followups \/ (ok /\ c = talk.followups + 1)
  <2>1. CASE ok /\ tool[t].kind = "followup"
    <3>1. c = talk.followups + 1
      BY <1>2, <2>1
    <3> QED BY <2>1, <3>1
  <2>2. CASE ~(ok /\ tool[t].kind = "followup")
    <3>1. c = talk.followups
      BY <1>2, <2>2
    <3> QED BY <3>1
  <2> QED BY <2>1, <2>2
<1>5. c \in Nat
  BY <1>1, <1>4
<1>6. talk' \in TalkRecords /\ talk'.ending = talk.ending /\ talk'.followups = c
  <2>1. talk' = [talk EXCEPT !.failures = f, !.followups = c]
    BY <1>2
  <2> HIDE <1>2
  <2> QED BY <1>3, <1>5, <2>1 DEF TalkRecords
<1> QED BY <1>4, <1>6

\* No tool was asked for yet.
LEMMA ConversationStart == ConversationInit => ToolInv /\ TalkInv /\ SupportKept
<1> SUFFICES ASSUME ConversationInit PROVE ToolInv /\ TalkInv /\ SupportKept
  OBVIOUS
<1>0. MaxFailures \in Nat \ {0} /\ ToolLimit \in Nat \ {0} /\ ToolFaults \in Nat
  BY ConversationAssumption
<1>1. ToolsTyped
  <2>1. 0 \in 0..ToolFaults
    BY <1>0
  <2> QED BY <2>1, FS_EmptySet DEF ConversationInit, ToolsTyped, ToolRecords, ToolSteps, Kinds,
      Answers
<1>2. \A t \in ToolCalls : Known(t) /\ Alone(t) /\ StillAllowed(t)
  BY DEF ConversationInit, Known, Alone, StillAllowed, ToolUnderWay
<1>3. ASSUME NEW kind \in Kinds PROVE WithinLimit(kind)
  <2>1. Plain(kind) = {} /\ MostOf(kind) \in Nat
    BY <1>0 DEF ConversationInit, Plain, MostOf
  <2>2. IsFiniteSet(Plain(kind)) /\ Cardinality(Plain(kind)) = 0
    BY <2>1, FS_EmptySet
  <2> QED BY <2>1, <2>2 DEF WithinLimit
<1>4. ToolInv
  BY <1>1, <1>2, <1>3 DEF ToolInv, SuccessesAre, ConversationInit
<1>5. talk \in TalkRecords /\ afterCall \in AfterCalls
  BY <1>0 DEF ConversationInit, TalkRecords, AfterCalls
<1>6. TalkInv
  <2>1. talk.followups = 0
    BY DEF ConversationInit
  <2>2. talk.followups <= Cardinality(Hits)
    BY <2>1, HitsAreCounted
  <2> QED BY <1>5, <2>2 DEF TalkInv, ConversationInit
<1>7. SupportKept
  BY DEF SupportKept, ConversationInit
<1> QED BY <1>4, <1>6, <1>7

\* Every step keeps the invariant of the tools.
LEMMA ToolInvStep ==
  ASSUME ToolInv, ConversationNext
  PROVE  ToolInv'
<1>1. ASSUME NEW t \in ToolCalls, NEW kind \in ToolKinds, ToolCall(t, kind) PROVE ToolInv'
  BY <1>1, ToolCallStep, ConversationAssumption
<1>2. ASSUME NEW t \in ToolCalls,
             \/ Authorize(t) \/ FindPrevious(t) \/ CarryOut(t) \/ ReportFailure(t)
             \/ FailHalfway(t) \/ Unanswered(t) \/ Tell(t)
      PROVE  ToolInv'
  BY <1>2, AuthorizeStep, FindPreviousStep, CarryOutStep, ReportFailureStep, FailHalfwayStep,
     UnansweredStep, TellStep
<1>3. CASE UNCHANGED toolVars
  <2>1. /\ tool' = tool /\ carriedOut' = carriedOut /\ executions' = executions
        /\ told' = told /\ toolFaults' = toolFaults /\ exempt' = exempt
    BY <1>3 DEF toolVars
  <2>2. ToolsTyped' /\ SuccessesAre'
    BY <2>1 DEF ToolInv, ToolsTyped, SuccessesAre
  <2>3. \A t \in ToolCalls : Known(t)' /\ Alone(t)'
    BY <2>1 DEF ToolInv, Known, Alone
  <2>4. \A t \in ToolCalls : StillAllowed(t)'
    BY <2>1 DEF ToolInv, StillAllowed, SoFar, Previous
  <2>5. \A kind \in Kinds : WithinLimit(kind)'
    BY <2>1 DEF ToolInv, WithinLimit, Plain
  <2> QED BY <2>2, <2>3, <2>4, <2>5 DEF ToolInv
<1>4. CASE Hear \/ Speak \/ SilenceStage \/ SocketGone \/ RecordUsage \/ Summarize \/ SettleLead \/ FinalizeFails
           \/ \E reason : End(reason)
  BY <1>3, <1>4 DEF Hear, Speak, SilenceStage, SocketGone, RecordUsage, Summarize, SettleLead,
     FinalizeFails, End
<1> QED BY <1>1, <1>2, <1>4 DEF ConversationNext

\* And that of the talk.
LEMMA TalkStep ==
  ASSUME ToolInv, TalkInv, ConversationNext
  PROVE  TalkInv'
<1>0. /\ talk \in TalkRecords /\ talk.followups \in Nat /\ talk.followups <= Cardinality(Hits)
      /\ afterCall \in AfterCalls
  BY DEF TalkInv, TalkRecords
<1>1. CASE told' = told /\ talk' = talk /\ UNCHANGED <<afterCall, usage, socketOpen>> /\ lead' \in {lead, "tool"}
           /\ supportAsked' \in BOOLEAN
  BY <1>1 DEF TalkInv, Hits
<1>2. ASSUME NEW t \in ToolCalls,
             (\E kind \in ToolKinds : ToolCall(t, kind))
               \/ Authorize(t) \/ CarryOut(t) \/ ReportFailure(t) \/ FailHalfway(t) \/ Unanswered(t)
      PROVE  TalkInv'
  <2>1. told' = told /\ talk' = talk /\ UNCHANGED <<afterCall, usage, socketOpen>>
    BY <1>2 DEF ToolCall, Authorize, CarryOut, ReportFailure, FailHalfway, Unanswered, callVars
  <2>2. lead' \in {lead, "tool"} /\ supportAsked' \in BOOLEAN
    BY <1>2 DEF ToolCall, Authorize, CarryOut, ReportFailure, FailHalfway, Unanswered, callVars,
       TalkInv
  <2> QED BY <1>1, <2>1, <2>2
\* An answer counts once, as it is given once.
<1>3. ASSUME NEW t \in ToolCalls, NEW ok \in BOOLEAN, NEW a \in Answers, ok <=> a = "ok", tool[t].at # "done",
             CountAnswer(t, ok), told' = [told EXCEPT ![t] = a], UNCHANGED <<socketOpen, callVars>>
      PROVE  TalkInv'
  <2>1. told[t] = "nothing" /\ told \in [ToolCalls -> Answers]
    <3>1. Known(t)
      BY DEF ToolInv
    <3> QED BY <1>3, <3>1, SomeAreTyped DEF Known
  <2>2. Hits' = IF ok THEN Hits \cup {t} ELSE Hits
    BY <1>3, <2>1 DEF Hits
  <2>3. t \notin Hits
    BY <2>1 DEF Hits
  <2>4. Cardinality(Hits') = (IF ok THEN Cardinality(Hits) + 1 ELSE Cardinality(Hits))
    BY <2>2, <2>3, HitsAreCounted, FS_AddElement
  <2>5. talk' \in TalkRecords /\ (talk'.followups = talk.followups \/ (ok /\ talk'.followups = talk.followups + 1))
    BY <1>0, <1>3, AnswerCounts
  <2>6. talk'.followups <= Cardinality(Hits')
    BY <1>0, <2>4, <2>5, HitsAreCounted
  <2>7. Cardinality(Hits)' = Cardinality(Hits')
    OBVIOUS
  <2>8. UNCHANGED <<afterCall, usage, socketOpen, supportAsked, lead>>
    BY <1>3 DEF callVars
  <2> QED BY <2>5, <2>6, <2>7, <2>8 DEF TalkInv
<1>4. ASSUME NEW t \in ToolCalls, FindPrevious(t) PROVE TalkInv'
  <2>1. tool[t].at = "previous" /\ UNCHANGED <<socketOpen, callVars>>
    BY <1>4 DEF FindPrevious, Goes
  <2>2. CASE told' = [told EXCEPT ![t] = "ok"] /\ CountAnswer(t, TRUE)
    <3>1. TRUE \in BOOLEAN /\ "ok" \in Answers
      BY DEF Answers
    <3> QED BY <1>3, <2>1, <2>2, <3>1
  <2>3. CASE UNCHANGED <<talk, told>>
    BY <1>1, <2>1, <2>3 DEF callVars, TalkInv
  <2> QED BY <1>4, <2>2, <2>3 DEF FindPrevious
<1>5. ASSUME NEW t \in ToolCalls, Tell(t) PROVE TalkInv'
  <2>1. tool[t].at \in {"succeed", "fail", "deny"} /\ told' = [told EXCEPT ![t] = AnswerOf[tool[t].at]]
        /\ CountAnswer(t, tool[t].at = "succeed") /\ UNCHANGED <<socketOpen, callVars>>
    BY <1>5 DEF Tell, StatusOf
  <2>2. AnswerOf[tool[t].at] \in Answers /\ (tool[t].at = "succeed" <=> AnswerOf[tool[t].at] = "ok")
    BY <2>1 DEF AnswerOf, Answers
  <2>3. (tool[t].at = "succeed") \in BOOLEAN /\ tool[t].at # "done"
    BY <2>1
  <2> QED BY <1>3, <2>1, <2>2, <2>3
<1>6. ASSUME talk' \in TalkRecords, talk'.followups = talk.followups, UNCHANGED <<told, usage, supportAsked, lead>>,
             afterCall' \in AfterCalls, socketOpen' \in BOOLEAN
      PROVE  TalkInv'
  BY <1>6 DEF TalkInv, Hits
<1>7. CASE Hear \/ Speak \/ SilenceStage \/ SocketGone
  <2>1. UNCHANGED <<told, usage, supportAsked, lead, afterCall>> /\ socketOpen' \in BOOLEAN
    BY <1>7 DEF Hear, Speak, SilenceStage, SocketGone, toolVars, callVars, TalkInv
  <2>2. talk' \in TalkRecords /\ talk'.followups = talk.followups
    <3>1. CASE SilenceStage
      <4>1. PICK c \in BOOLEAN : talk' = [talk EXCEPT !.stage = @ + 1, !.closing = c] /\ talk.stage < 2
        <5>1. talk.closing \in BOOLEAN
          BY <1>0 DEF TalkRecords
        <5> QED BY <3>1, <5>1 DEF SilenceStage
      <4> QED BY <1>0, <4>1, TalkChanges, Zenon
    <3>2. CASE ~SilenceStage
      <4>1. talk' = talk \/ talk' = [talk EXCEPT !.stage = 0] \/ talk' = [talk EXCEPT !.said = TRUE]
        BY <1>7, <3>2 DEF Hear, Speak, SocketGone
      <4> QED BY <1>0, <4>1, TalkChanges, Zenon
    <3> QED BY <3>1, <3>2
  <2> QED BY <1>0, <1>6, <2>1, <2>2
<1>8. ASSUME NEW reason, End(reason) PROVE TalkInv'
  <2>1. UNCHANGED <<told, usage, supportAsked, lead, socketOpen>> /\ talk' = [talk EXCEPT !.ending = TRUE, !.stage = 0, !.closing = FALSE]
    BY <1>8 DEF End, toolVars
  <2>2. talk' \in TalkRecords /\ talk'.followups = talk.followups
    BY <1>0, <2>1, TalkChanges, Zenon
  <2>3. afterCall' \in AfterCalls /\ socketOpen' \in BOOLEAN
    BY <1>8 DEF End, AfterCalls, TalkInv
  <2> QED BY <1>6, <2>1, <2>2, <2>3
<1>9. CASE RecordUsage
  <2>1. UNCHANGED <<talk, told, supportAsked, lead, socketOpen>> /\ usage' = usage \cup {talk.followups}
    BY <1>9 DEF RecordUsage, toolVars
  <2>2. afterCall' \in AfterCalls
    BY <1>0, <1>9 DEF RecordUsage, AfterCalls
  <2>3. talk.followups \in 0..Cardinality(ToolCalls)
    BY <1>0, HitsAreCounted
  <2> QED BY <2>1, <2>2, <2>3 DEF TalkInv, Hits
<1>10. CASE Summarize \/ SettleLead \/ FinalizeFails
  <2>1. UNCHANGED <<talk, told, usage, socketOpen>>
    BY <1>10 DEF Summarize, SettleLead, FinalizeFails, toolVars
  <2>2. afterCall' \in AfterCalls /\ supportAsked' \in BOOLEAN /\ lead' \in {"others", "tool", "outcome"}
    <3>1. afterCall.asked \in BOOLEAN
      BY <1>0 DEF AfterCalls
    <3>2. CASE Summarize
      <4>1. PICK summary \in Summaries :
              /\ afterCall' = [afterCall EXCEPT !.at = IF summary.ok THEN "lead" ELSE "done"]
              /\ supportAsked' = IF summary.ok THEN afterCall.asked \/ summary.support ELSE supportAsked
        BY <3>2 DEF Summarize
      <4>2. summary.ok \in BOOLEAN /\ summary.support \in BOOLEAN
        <5>1. CASE summary = [ok |-> FALSE, support |-> FALSE]
          BY <5>1
        <5>2. CASE summary \in [ok : {TRUE}, support : BOOLEAN]
          BY <5>2
        <5> QED BY <5>1, <5>2 DEF Summaries
      <4>3. lead' = lead
        BY <3>2 DEF Summarize
      <4>4. supportAsked' \in BOOLEAN
        BY <3>1, <4>1, <4>2 DEF TalkInv
      <4> QED BY <1>0, <4>1, <4>3, <4>4 DEF TalkInv, AfterCalls
    <3>3. CASE SettleLead \/ FinalizeFails
      BY <1>0, <3>3 DEF SettleLead, FinalizeFails, TalkInv, AfterCalls
    <3> QED BY <1>10, <3>2, <3>3
  <2> QED BY <2>1, <2>2 DEF TalkInv, Hits
<1> QED BY <1>2, <1>4, <1>5, <1>7, <1>8, <1>9, <1>10 DEF ConversationNext

\* The support that was asked for is not forgotten.
LEMMA SupportStep ==
  ASSUME ToolInv, TalkInv, SupportKept, ConversationNext
  PROVE  SupportKept'
<1>0. talk.ending \in BOOLEAN /\ talk \in TalkRecords
  BY DEF TalkInv, TalkRecords
\* What is not newly carried out keeps its request.
<1>1. ASSUME NEW t \in ToolCalls,
             (\E kind \in ToolKinds : ToolCall(t, kind))
               \/ Authorize(t) \/ FindPrevious(t) \/ ReportFailure(t) \/ FailHalfway(t) \/ Unanswered(t) \/ Tell(t)
      PROVE  SupportKept'
  <2>1. UNCHANGED <<supportAsked, afterCall, carriedOut>> /\ exempt \subseteq exempt'
    BY <1>1 DEF ToolCall, Authorize, FindPrevious, ReportFailure, FailHalfway, Unanswered, Tell,
       callVars
  <2>2. talk'.ending = talk.ending
    <3>1. CASE FindPrevious(t)
      <4>1. talk' = talk \/ CountAnswer(t, TRUE)
        BY <3>1 DEF FindPrevious
      <4>2. TRUE \in BOOLEAN
        OBVIOUS
      <4> QED BY <1>0, <4>1, <4>2, AnswerCounts
    <3>2. CASE Tell(t)
      <4>1. CountAnswer(t, tool[t].at = "succeed") /\ (tool[t].at = "succeed") \in BOOLEAN
        BY <3>2 DEF Tell
      <4> QED BY <1>0, <4>1, AnswerCounts
    <3>3. CASE ~FindPrevious(t) /\ ~Tell(t)
      BY <1>1, <3>3 DEF ToolCall, Authorize, ReportFailure, FailHalfway, Unanswered
    <3> QED BY <3>1, <3>2, <3>3
  <2>3. \A u \in carriedOut : tool'[u].kind = tool[u].kind
    <3> SUFFICES ASSUME NEW u \in carriedOut PROVE tool'[u].kind = tool[u].kind
      OBVIOUS
    <3>1. u \in ToolCalls /\ tool[u].at # "idle"
      BY DEF ToolInv, ToolsTyped, Known
    <3>2. CASE \E kind \in ToolKinds : ToolCall(t, kind)
      BY <3>1, <3>2, SomeAreTyped DEF ToolCall
    <3>3. CASE ~\E kind \in ToolKinds : ToolCall(t, kind)
      <4>1. CASE tool' = [tool EXCEPT ![t].at = "fail", ![t].late = TRUE]
        BY <3>1, <4>1, SomeAreTyped DEF ToolRecords
      <4>2. CASE \E to : tool' = [tool EXCEPT ![t].at = to]
        BY <3>1, <4>2, SomeAreTyped DEF ToolRecords
      <4> QED BY <1>1, <3>3, <4>1, <4>2 DEF Authorize, FindPrevious, ReportFailure, FailHalfway,
          Unanswered, Tell, Goes
    <3> QED BY <3>2, <3>3
  <2> QED BY <2>1, <2>2, <2>3 DEF SupportKept
<1>2. ASSUME NEW t \in ToolCalls, CarryOut(t) PROVE SupportKept'
  <2>1. UNCHANGED <<talk, afterCall>> /\ carriedOut' = carriedOut \cup {t}
        /\ exempt' = (IF afterCall.at = "idle" THEN exempt ELSE exempt \cup {t})
        /\ supportAsked' = (supportAsked \/ tool[t].kind \in AsksSupport)
    BY <1>2 DEF CarryOut
  <2>2. \A u \in ToolCalls : tool'[u].kind = tool[u].kind
    BY <1>2, SomeAreTyped DEF CarryOut, Goes, ToolRecords
  <2> QED BY <2>1, <2>2, SomeAreTyped DEF SupportKept
<1>3. ASSUME talk'.ending = talk.ending, UNCHANGED <<tool, carriedOut, exempt, afterCall, supportAsked>>
      PROVE  SupportKept'
  BY <1>3 DEF SupportKept
<1>4. CASE Hear \/ Speak \/ SilenceStage \/ SocketGone
  <2>1. UNCHANGED <<tool, carriedOut, exempt, afterCall, supportAsked>>
    BY <1>4 DEF Hear, Speak, SilenceStage, SocketGone, toolVars, callVars
  <2>2. talk'.ending = talk.ending
    BY <1>0, <1>4 DEF Hear, Speak, SilenceStage, SocketGone, TalkRecords
  <2> QED BY <1>3, <2>1, <2>2
<1>5. ASSUME NEW reason, End(reason) PROVE SupportKept'
  <2>1. UNCHANGED <<tool, carriedOut, exempt, supportAsked>> /\ afterCall' = [at |-> "usage", asked |-> supportAsked]
    BY <1>5 DEF End, toolVars
  <2>2. talk'.ending = TRUE
    BY <1>0, <1>5 DEF End, TalkRecords
  <2> QED BY <2>1, <2>2 DEF SupportKept
<1>6. CASE RecordUsage \/ Summarize \/ SettleLead \/ FinalizeFails
  <2>1. UNCHANGED <<talk, tool, carriedOut, exempt>> /\ afterCall.at # "idle"
    BY <1>6 DEF RecordUsage, Summarize, SettleLead, FinalizeFails, toolVars
  <2>2. afterCall'.asked = afterCall.asked /\ afterCall'.at # "idle"
    BY <1>6 DEF RecordUsage, Summarize, SettleLead, FinalizeFails, TalkInv, AfterCalls
  <2>3. afterCall.asked /\ supportAsked => supportAsked'
    BY <1>6 DEF RecordUsage, Summarize, SettleLead, FinalizeFails
  <2> QED BY <1>0, <2>1, <2>2, <2>3 DEF SupportKept
<1> QED BY <1>1, <1>2, <1>4, <1>5, <1>6 DEF ConversationNext

ConversationInv == ToolInv /\ TalkInv /\ SupportKept

\* Every step keeps the invariant.
LEMMA ConversationStep == ConversationInv /\ [ConversationNext]_convVars => ConversationInv'
<1> SUFFICES ASSUME ConversationInv, [ConversationNext]_convVars PROVE ConversationInv'
  OBVIOUS
<1>1. CASE ConversationNext
  BY <1>1, ToolInvStep, TalkStep, SupportStep DEF ConversationInv
<1>2. CASE UNCHANGED convVars
  <2>1. /\ talk' = talk /\ socketOpen' = socketOpen /\ tool' = tool /\ carriedOut' = carriedOut /\ executions' = executions
        /\ told' = told /\ lead' = lead /\ supportAsked' = supportAsked /\ usage' = usage /\ afterCall' = afterCall
        /\ toolFaults' = toolFaults /\ exempt' = exempt
    BY <1>2 DEF convVars
  <2>2. ToolInv'
    <3>1. ToolsTyped' /\ SuccessesAre'
      BY <2>1 DEF ConversationInv, ToolInv, ToolsTyped, SuccessesAre
    <3>2. \A t \in ToolCalls : Known(t)' /\ Alone(t)'
      BY <2>1 DEF ConversationInv, ToolInv, Known, Alone
    <3>3. \A t \in ToolCalls : StillAllowed(t)'
      BY <2>1 DEF ConversationInv, ToolInv, StillAllowed, SoFar, Previous
    <3>4. \A kind \in Kinds : WithinLimit(kind)'
      BY <2>1 DEF ConversationInv, ToolInv, WithinLimit, Plain
    <3> QED BY <3>1, <3>2, <3>3, <3>4 DEF ToolInv
  <2>3. TalkInv' /\ SupportKept'
    BY <2>1 DEF ConversationInv, TalkInv, Hits, SupportKept
  <2> QED BY <2>2, <2>3 DEF ConversationInv
<1> QED BY <1>1, <1>2

\* The invariant gives the types and the property.
LEMMA ConversationMeans == ConversationInv => ConversationTypeOK /\ ToldTruly
<1> SUFFICES ASSUME ConversationInv PROVE ConversationTypeOK /\ ToldTruly
  OBVIOUS
<1>1. ConversationTypeOK
  <2>1. talk \in TalkRecords /\ talk.followups <= Cardinality(Hits) /\ talk.followups \in Nat
    BY DEF ConversationInv, TalkInv, TalkRecords
  <2>2. talk.followups \in 0..Cardinality(ToolCalls)
    BY <2>1, HitsAreCounted
  <2>3. talk \in [ending : BOOLEAN, said : BOOLEAN, stage : 0..2, closing : BOOLEAN,
                  followups : 0..Cardinality(ToolCalls), failures : 0..(MaxFailures - 1)]
    BY <2>1, <2>2 DEF TalkRecords
  <2> QED BY <2>3 DEF ConversationInv, ConversationTypeOK, TalkInv, ToolInv, ToolsTyped,
      ToolRecords, ToolSteps, Answers, AfterCalls,
                      Executions
<1>2. ASSUME NEW t \in ToolCalls
      PROVE  /\ told[t] = "ok" => \E u \in carriedOut : tool[u].kind = tool[t].kind
             /\ told[t] \in {"failed", "denied"} /\ t \in carriedOut => t \in exempt
             /\ t \in carriedOut \ exempt /\ tool[t].kind \in AsksSupport => supportAsked
  BY DEF ConversationInv, ToolInv, Known, SupportKept
<1>3. ASSUME NEW kind \in Kinds PROVE Cardinality(Plain(kind)) <= IF kind \in Idempotent THEN 1 ELSE ToolLimit
  BY DEF ConversationInv, ToolInv, WithinLimit, MostOf
<1> QED BY <1>1, <1>2, <1>3 DEF ToldTruly

\* The talk, the tools and what comes after the call are what the code can store (call-orchestrator.service.ts, voice-tool-executor.service.ts).
THEOREM ConversationTypeCorrect == ConversationSpec => []ConversationTypeOK
<1>1. ConversationInit => ConversationInv
  BY ConversationStart DEF ConversationInv
<1>2. ConversationInv => ConversationTypeOK
  BY ConversationMeans
<1> QED BY <1>1, <1>2, ConversationStep, PTL DEF ConversationSpec

\* What the model is told of a tool is so, within the limit of each kind, but for exceptions that are named (voice-tool-executor.service.ts).
THEOREM ConversationCorrect == ConversationSpec => []ToldTruly
<1>1. ConversationInit => ConversationInv
  BY ConversationStart DEF ConversationInv
<1>2. ConversationInv => ToldTruly
  BY ConversationMeans
<1> QED BY <1>1, <1>2, ConversationStep, PTL DEF ConversationSpec
=============================================================================
