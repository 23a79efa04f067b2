--------------------------- MODULE CampaignProofs ---------------------------
(***************************************************************************)
(* What holds of Campaign for any number of recipients, of dispatch and    *)
(* preparation loops, and for any bounds on the events around them.        *)
(***************************************************************************)
EXTENDS Campaign, FiniteSetTheorems, TLAPS

-----------------------------------------------------------------------------
(* What the helpers of the dispatch loop do to a dispatcher's own state *)

\* A step inside sendToRecipient, or outside it, keeps the dispatcher's types.
LEMMA StepType ==
  ASSUME DispatchTypes, NEW d \in Dispatchers, NEW from \in Steps, NEW to \in Steps,
         Step(d, from, to), from \in Unassigned <=> to \in Unassigned
  PROVE  DispatchTypes'
BY DEF DispatchTypes, Step, Goto

\* So does the end of a recipient ...
LEMMA ReturnType ==
  ASSUME DispatchTypes, NEW d \in Dispatchers, Return(d)
  PROVE  DispatchTypes'
BY DEF DispatchTypes, Return, Goto, Steps, Unassigned

\* ... and of the loop.
LEMMA LeaveType ==
  ASSUME DispatchTypes, NEW d \in Dispatchers, Leave(d)
  PROVE  DispatchTypes'
BY DEF DispatchTypes, Leave, Goto, Steps, Unassigned

\* Moving a row keeps it a row.
LEMMA MoveType ==
  ASSUME status \in [Rows -> RowStatus], NEW r \in Rows, NEW from, NEW to \in RowStatus,
         Move(r, from, to)
  PROVE  status' \in [Rows -> RowStatus]
BY DEF Move

\* A dispatcher inside sendToRecipient has a recipient at hand.
LEMMA RecInRows ==
  ASSUME DispatchTypes, NEW d \in Dispatchers, pc[d] \notin Unassigned
  PROVE  rec[d] \in Recipients /\ rec[d] \in Rows
BY DEF DispatchTypes, Rows

\* Spending an event keeps the budget's record a record.
LEMMA SpendType ==
  ASSUME spent \in [Events -> Nat], NEW e \in Events, Spend(e)
  PROVE  spent' \in [Events -> Nat]
BY DEF Spend

-----------------------------------------------------------------------------
(* Type correctness *)

\* A step of the loop that sends a campaign keeps the types.
LEMMA DispatchTypeOK ==
  ASSUME TypeOK, NEW d \in Dispatchers, Dispatch(d)
  PROVE  TypeOK'
<1> USE DEF TypeOK, campaignVars, rowVars, worldVars, dispatchVars, handlerVars,
            Dispatch, Start, Requeue, ReadBatch, Exhaust, NextRecipient, Check, MarkSkipped,
            Claim, Recheck, Revert, Gate, Link, Create, Send, Finish, CountSent, ReadLead,
            WriteLead, Throw, Fail, CountFailed, Abort, CountQueued, CountSending, Complete
<1>1. CampaignTypes'
  BY DEF CampaignTypes, StopAs, CampaignStatus
<1>2. RowTypes'
  <2>1. CASE UNCHANGED rowVars
    BY <2>1 DEF RowTypes
  <2>2. CASE Requeue(d)
    BY <2>2 DEF RowTypes, RowStatus
  <2>3. CASE Claim(d)
    BY <2>3, RecInRows, MoveType DEF RowTypes, RowStatus, Unassigned
  <2>4. CASE Finish(d)
    BY <2>4, RecInRows, MoveType DEF RowTypes, RowStatus, Unassigned, Step
  <2>5. CASE MarkSkipped(d) \/ Revert(d) \/ Fail(d)
    BY <2>5, RecInRows, MoveType DEF RowTypes, RowStatus, Unassigned, Step
  <2> QED BY <2>1, <2>2, <2>3, <2>4, <2>5
<1>3. WorldTypes'
  BY RecInRows DEF WorldTypes, Step, Unassigned
<1>4. DispatchTypes'
  <2> USE DEF Steps, Unassigned
  <2>1. CASE \E from, to \in Steps :
               Step(d, from, to) /\ (from \in Unassigned <=> to \in Unassigned)
    BY <2>1, StepType
  <2>2. CASE Return(d)
    BY <2>2, ReturnType
  <2>3. CASE Leave(d)
    BY <2>3, LeaveType
  <2>4. CASE ReadBatch(d)
    BY <2>4, LeaveType DEF DispatchTypes, Batches, RowsWith, Goto
  <2>5. CASE NextRecipient(d)
    <3>1. CASE pc'[d] = "countQueued"
      BY <2>5, <3>1 DEF DispatchTypes, Goto
    <3>2. ASSUME NEW r \in batch[d], rec' = [rec EXCEPT ![d] = r],
                 batch' = [batch EXCEPT ![d] = @ \ {r}],
                 saw' = [saw EXCEPT ![d] = pers[r] = "READY"], Goto(d, "checks")
          PROVE  DispatchTypes'
      <4>1. r \in Recipients /\ r # NoRow
        BY CampaignAssumption DEF DispatchTypes, Rows
      <4> QED BY <3>2, <4>1 DEF DispatchTypes, Goto
    <3> QED BY <2>5, <3>1, <3>2 DEF DispatchTypes, Goto
  <2>6. CASE Goto(d, "countQueued") /\ rec' = [rec EXCEPT ![d] = NoRow]
             /\ batch' = [batch EXCEPT ![d] = {}] /\ saw' = [saw EXCEPT ![d] = FALSE]
    BY <2>6 DEF DispatchTypes, Goto
  <2>7. CASE Check(d)
    <3>1. \/ Step(d, "checks", "drop") \/ Step(d, "checks", "claim") \/ Return(d)
          \/ Goto(d, "countQueued") /\ rec' = [rec EXCEPT ![d] = NoRow]
             /\ batch' = [batch EXCEPT ![d] = {}] /\ saw' = [saw EXCEPT ![d] = FALSE]
      BY <2>7
    <3> QED BY <3>1, <2>1, <2>2, <2>6
  <2>8. CASE CountQueued(d) \/ CountSending(d)
    BY <2>8 DEF DispatchTypes, Goto
  <2> QED BY <2>1, <2>2, <2>3, <2>4, <2>5, <2>7, <2>8 DEF TryBlock
<1>5. HandlerTypes'
  BY DEF HandlerTypes
<1>6. calls' \in [Recipients -> Nat]
  BY RecInRows DEF Step, Unassigned
<1>7. spent' \in [Events -> Nat]
  BY DEF Spend, Events
<1> QED BY <1>1, <1>2, <1>3, <1>4, <1>5, <1>6, <1>7

\* A step that prepares texts keeps the types.
LEMMA PreparationTypeOK ==
  ASSUME TypeOK, NEW p \in Preparers, Preparation(p)
  PROVE  TypeOK'
<1> USE DEF TypeOK, campaignVars, rowVars, worldVars, dispatchVars,
            Preparation, Prepare, Regenerate, RegenCampaign, PrepRead, OverBudget, Personalize,
            PrepCount, PrepFlip, AbortPrep
<1>1. CampaignTypes'
  BY DEF CampaignTypes, StopAs, CampaignStatus
<1>2. WorldTypes' /\ DispatchTypes' /\ calls' \in [Recipients -> Nat]
  BY DEF WorldTypes, DispatchTypes
<1>3. spent' \in [Events -> Nat]
  <2>1. spent' = spent \/ \E e \in Events : Spend(e)
    BY DEF Events
  <2> QED BY <2>1, SpendType
<1>4. PICK step \in PrepSteps, todo \in SUBSET Recipients, seen \in BOOLEAN :
             SetPrep(p, step, todo, seen)
  <2>1. CASE PrepRead(p)
    BY <2>1 DEF PrepSteps, Batches, Unprepared
  <2>2. CASE Personalize(p)
    BY <2>2 DEF PrepSteps, HandlerTypes
  <2>3. CASE PrepCount(p)
    BY <2>3 DEF PrepSteps
  <2> QED BY <2>1, <2>2, <2>3 DEF PrepSteps
<1>5. HandlerTypes'
  BY <1>4 DEF HandlerTypes, SetPrep
<1>6. RowTypes'
  <2>1. CASE Personalize(p)
    <3>1. PICK r \in prep[p].todo, outcome \in {"READY", "FAILED"} :
                 pers' = [pers EXCEPT ![r] = outcome]
      BY <2>1
    <3>2. r \in Recipients
      BY DEF HandlerTypes
    <3> QED BY <2>1, <3>1, <3>2 DEF RowTypes
  <2> QED BY <2>1 DEF RowTypes
<1> QED BY <1>1, <1>2, <1>3, <1>5, <1>6

\* What operators do, and what happens around them, keeps the types.
LEMMA WorldTypeOK ==
  ASSUME TypeOK, Operator \/ World
  PROVE  TypeOK'
<1> USE DEF TypeOK, campaignVars, rowVars, worldVars, dispatchVars, handlerVars, Operator, World,
            Pause, Cancel, CancelRows, ToggleKill, TestStart, TestFinish, Disconnect,
            DisconnectPause, Reconnect, WindowElapses, Crash, AddDnc, DncLead, DncRows, Reply
<1>1. CampaignTypes'
  BY DEF CampaignTypes, StopAs, CampaignStatus
<1>2. RowTypes'
  <2>1. CASE \E r \in Recipients : DncRows(r) \/ Reply(r)
    BY <2>1, MoveType DEF RowTypes, RowStatus, Rows
  <2> QED BY <2>1 DEF RowTypes, RowStatus, Rows
<1>3. WorldTypes'
  <2>1. CASE Disconnect \/ Reconnect \/ ToggleKill
    BY <2>1 DEF WorldTypes
  <2>2. ASSUME NEW r \in Recipients, AddDnc(r)
        PROVE  WorldTypes'
    BY <2>2 DEF WorldTypes
  <2>3. ASSUME NEW r \in Recipients, DncLead(r) \/ DncRows(r) \/ Reply(r)
        PROVE  WorldTypes'
    BY <2>3 DEF WorldTypes
  <2>4. CASE WindowElapses
    BY <2>4 DEF WorldTypes
  <2>5. CASE UNCHANGED worldVars
    BY <2>5 DEF WorldTypes
  <2> QED BY <2>1, <2>2, <2>3, <2>4, <2>5
<1>4. DispatchTypes'
  BY DEF DispatchTypes, Steps, Unassigned
<1>5. HandlerTypes'
  <2>1. CASE Crash
    BY <2>1 DEF HandlerTypes, PrepSteps
  <2>2. ASSUME NEW r \in Recipients, AddDnc(r) \/ DncLead(r) \/ DncRows(r)
        PROVE  HandlerTypes'
    BY <2>2 DEF HandlerTypes
  <2>3. CASE TestStart \/ TestFinish \/ Cancel \/ CancelRows \/ DisconnectPause
    BY <2>3 DEF HandlerTypes
  <2>5. CASE Disconnect
    <3>1. pauseDue' \in BOOLEAN
      BY <2>5, CampaignAssumption, Zenon
    <3> QED BY <2>5, <3>1 DEF HandlerTypes
  <2>4. CASE UNCHANGED handlerVars
    BY <2>4 DEF HandlerTypes
  <2> QED BY <2>1, <2>2, <2>3, <2>4, <2>5
<1>6. calls' \in [Recipients -> Nat] /\ spent' \in [Events -> Nat]
  <2>1. spent' = spent \/ \E e \in Events : Spend(e)
    BY DEF Events
  <2> QED BY <2>1, SpendType
<1> QED BY <1>1, <1>2, <1>3, <1>4, <1>5, <1>6

\* A step of the reaper keeps the types.
LEMMA ReapingTypeOK ==
  ASSUME TypeOK, Reaping
  PROVE  TypeOK'
<1> USE DEF TypeOK, campaignVars, rowVars, worldVars, dispatchVars, handlerVars,
            Reaping, ReapRead, ReapCount, Age, ReapRow
<1>1. CampaignTypes'
  BY DEF CampaignTypes, HandlerTypes
<1>2. RowTypes'
  <2>1. ASSUME NEW r \in Rows, ReapRow(r)
        PROVE  RowTypes'
    <3>1. Verdict(r) \in RowStatus
      BY DEF Verdict, RowStatus
    <3> QED BY <2>1, <3>1, MoveType DEF RowTypes
  <2> QED BY <2>1 DEF RowTypes
<1>3. HandlerTypes'
  <2>1. \A r \in Rows : Verdict(r) \in {"SENT", "FAILED", "QUEUED"}
    BY DEF Verdict
  <2> QED BY <2>1 DEF HandlerTypes, Stranded
<1>4. WorldTypes' /\ DispatchTypes' /\ calls' \in [Recipients -> Nat] /\ spent' \in [Events -> Nat]
  BY DEF WorldTypes, DispatchTypes
<1> QED BY <1>1, <1>2, <1>3, <1>4

\* Every variable keeps its type, whatever the loops, the handlers and the reaper do.
THEOREM TypeCorrect == Spec => []TypeOK
<1>1. Init => TypeOK
  <2> SUFFICES ASSUME Init PROVE TypeOK
    OBVIOUS
  <2>1. CampaignTypes
    BY DEF Init, CampaignTypes, CampaignStatus
  <2>2. RowTypes
    BY DEF Init, RowTypes, RowStatus, Rows
  <2>3. WorldTypes
    BY DEF Init, WorldTypes
  <2>4. DispatchTypes
    BY DEF Init, DispatchTypes, Steps, Unassigned
  <2>5. HandlerTypes
    BY DEF Init, HandlerTypes, PrepSteps
  <2>6. calls \in [Recipients -> Nat] /\ spent \in [Events -> Nat]
    BY DEF Init
  <2> QED BY <2>1, <2>2, <2>3, <2>4, <2>5, <2>6 DEF TypeOK
<1>2. TypeOK /\ [Next]_vars => TypeOK'
  <2> SUFFICES ASSUME TypeOK, [Next]_vars PROVE TypeOK'
    OBVIOUS
  <2>1. CASE Next
    BY <2>1, DispatchTypeOK, PreparationTypeOK, WorldTypeOK, ReapingTypeOK DEF Next
  <2>2. CASE UNCHANGED vars
    BY <2>2 DEF vars, campaignVars, rowVars, worldVars, dispatchVars, handlerVars, TypeOK,
               CampaignTypes, RowTypes, WorldTypes, DispatchTypes, HandlerTypes
  <2> QED BY <2>1, <2>2
<1> QED BY <1>1, <1>2, PTL DEF Spec

-----------------------------------------------------------------------------
(* The claim is exclusive *)

\* No dispatcher comes to hold a recipient in this step.
NobodyClaims ==
  \A e \in Dispatchers : pc'[e] \in Holding => pc[e] \in Holding /\ rec'[e] = rec[e]

\* This step takes no recipient back into the queue or into SENDING.
NobodyReturns ==
  \A r \in Recipients : status'[r] \in {"PENDING", "QUEUED", "SENDING"} => status'[r] = status[r]

\* Such a step keeps the invariant as long as the clock and the reaper stand still.
LEMMA QuietStep ==
  ASSUME TypeOK, ClaimInv, NobodyClaims, NobodyReturns,
         \A r \in Recipients : last'[r] = last[r], reaper'.rows \subseteq reaper.rows
  PROVE  ClaimInv'
<1>1. \A e \in Dispatchers : pc[e] \in Holding => rec[e] \in Recipients
  BY RecInRows DEF TypeOK, Holding, Unassigned
<1> QED BY <1>1 DEF ClaimInv, ClaimHeld, SnapshotOld, ClaimExclusive, NobodyClaims, NobodyReturns

\* Every step of a dispatch loop but a successful claim leaves its holders fewer.
LEMMA LoopKeepsHolders ==
  ASSUME TypeOK, NEW d \in Dispatchers, Dispatch(d), ~(Claim(d) /\ status[rec[d]] = "QUEUED")
  PROVE  NobodyClaims
BY DEF NobodyClaims, Holding, TypeOK, DispatchTypes, Step, Goto, Leave, Return, TryBlock, worldVars,
       Dispatch, Start, Requeue, ReadBatch, Exhaust, NextRecipient, Check, MarkSkipped,
       Claim, Recheck, Revert, Gate, Link, Create, Send, Finish, CountSent, ReadLead,
       WriteLead, Throw, Fail, CountFailed, Abort, CountQueued, CountSending, Complete

\* A claim that succeeds is exclusive.
LEMMA ClaimKeepsInv ==
  ASSUME TypeOK, ClaimInv, NEW d \in Dispatchers, Claim(d), status[rec[d]] = "QUEUED"
  PROVE  ClaimInv'
<1> DEFINE r == rec[d]
<1>1. r \in Recipients /\ r \in Rows
  BY RecInRows DEF TypeOK, Claim, Unassigned
<1>2. /\ status' = [status EXCEPT ![r] = "SENDING"] /\ last' = [last EXCEPT ![r] = "recent"]
      /\ pc' = [pc EXCEPT ![d] = "recheck"] /\ rec' = rec /\ reaper' = reaper
  BY DEF Claim, Move, Step, Goto, handlerVars
<1>3. r \notin reaper.rows
  BY <1>1 DEF ClaimInv, SnapshotOld
<1>4. \A e \in Dispatchers : pc[e] \in Holding => rec[e] # r
  BY DEF ClaimInv, ClaimHeld
<1>5. ClaimHeld'
  BY <1>1, <1>2, <1>4 DEF ClaimInv, ClaimHeld, TypeOK, RowTypes, DispatchTypes
<1>6. SnapshotOld'
  BY <1>1, <1>2, <1>3 DEF ClaimInv, SnapshotOld, TypeOK, RowTypes
<1>7. ClaimExclusive'
  BY <1>2, <1>4 DEF ClaimInv, ClaimExclusive, TypeOK, DispatchTypes
<1> QED BY <1>5, <1>6, <1>7 DEF ClaimInv

\* A claim that is given back is nobody's.
LEMMA RevertKeepsInv ==
  ASSUME TypeOK, ClaimInv, NEW d \in Dispatchers, Revert(d)
  PROVE  ClaimInv'
<1> DEFINE r == rec[d]
<1>1. r \in Recipients /\ r \in Rows /\ pc[d] \in Holding
  BY RecInRows DEF TypeOK, Revert, Unassigned, Holding
<1>2. /\ status' = [status EXCEPT ![r] = IF @ = "SENDING" THEN "QUEUED" ELSE @] /\ last' = last
      /\ pc' = [pc EXCEPT ![d] = "next"] /\ rec' = [rec EXCEPT ![d] = NoRow] /\ reaper' = reaper
  BY DEF Revert, Move, Return, Goto, handlerVars
<1>3. \A e \in Dispatchers : pc'[e] \in Holding => e # d /\ pc[e] \in Holding /\ rec'[e] = rec[e] /\ rec[e] # r
  BY <1>1, <1>2 DEF ClaimInv, ClaimExclusive, Holding, TypeOK, DispatchTypes
<1>4. status[r] = "SENDING" => r \notin reaper.rows
  BY <1>1 DEF ClaimInv, ClaimHeld, SnapshotOld
<1>5. ClaimHeld'
  BY <1>1, <1>2, <1>3 DEF ClaimInv, ClaimHeld, TypeOK, RowTypes
<1>6. SnapshotOld'
  BY <1>1, <1>2, <1>4 DEF ClaimInv, SnapshotOld, TypeOK, RowTypes
<1>7. ClaimExclusive'
  BY <1>3 DEF ClaimInv, ClaimExclusive
<1> QED BY <1>5, <1>6, <1>7 DEF ClaimInv

\* A run that starts again holds nothing.
LEMMA RequeueKeepsInv ==
  ASSUME TypeOK, ClaimInv, NEW d \in Dispatchers, Requeue(d)
  PROVE  ClaimInv'
<1>1. NobodyClaims
  BY LoopKeepsHolders DEF Dispatch, Requeue, Claim, Step
<1>2. last' = last /\ reaper' = reaper
  BY DEF Requeue, handlerVars
<1>3. \A r \in Recipients : status[r] # "PENDING" => status'[r] = status[r]
  BY DEF Requeue, RowsWith, Rows
<1>4. \A e \in Dispatchers : pc[e] \in Holding => rec[e] \in Recipients
  BY RecInRows DEF TypeOK, Holding, Unassigned
<1> QED BY <1>1, <1>2, <1>3, <1>4 DEF ClaimInv, ClaimHeld, SnapshotOld, ClaimExclusive, NobodyClaims

\* Every step of the loop keeps the claims.
LEMMA LoopKeepsClaimInv ==
  ASSUME TypeOK, ClaimInv, NEW d \in Dispatchers, Dispatch(d)
  PROVE  ClaimInv'
<1>1. CASE Claim(d) /\ status[rec[d]] = "QUEUED"
  BY <1>1, ClaimKeepsInv
<1>2. CASE Revert(d)
  BY <1>2, RevertKeepsInv
<1>3. CASE Requeue(d)
  BY <1>3, RequeueKeepsInv
<1>4. CASE ~(Claim(d) /\ status[rec[d]] = "QUEUED") /\ ~Revert(d) /\ ~Requeue(d)
  <2>1. NobodyClaims
    BY <1>4, LoopKeepsHolders
  <2>2. last' = last /\ reaper' = reaper
    BY <1>4 DEF rowVars, handlerVars,
       Dispatch, Start, Requeue, ReadBatch, Exhaust, NextRecipient, Check, MarkSkipped,
       Claim, Recheck, Revert, Gate, Link, Create, Send, Finish, CountSent, ReadLead,
       WriteLead, Throw, Fail, CountFailed, Abort, CountQueued, CountSending, Complete
  <2>3. status' = status \/ \E from : \E to \in {"SKIPPED", "SENT", "FAILED"} : Move(rec[d], from, to)
    BY <1>4 DEF rowVars,
       Dispatch, Start, ReadBatch, Exhaust, NextRecipient, Check, MarkSkipped,
       Claim, Recheck, Gate, Link, Create, Send, Finish, CountSent, ReadLead,
       WriteLead, Throw, Fail, CountFailed, Abort, CountQueued, CountSending, Complete
  <2>4. NobodyReturns
    BY <2>3 DEF NobodyReturns, Move, TypeOK, RowTypes, Rows
  <2> QED BY <2>1, <2>2, <2>4, QuietStep
<1> QED BY <1>1, <1>2, <1>3, <1>4

\* What happens around the loop keeps the claims.
LEMMA WorldKeepsClaimInv ==
  ASSUME TypeOK, ClaimInv, Operator \/ World
  PROVE  ClaimInv'
<1> USE DEF campaignVars, rowVars, worldVars, dispatchVars, handlerVars, Operator, World,
            Pause, Cancel, CancelRows, ToggleKill, TestStart, TestFinish, Disconnect,
            DisconnectPause, Reconnect, WindowElapses, Crash, AddDnc, DncLead, DncRows, Reply
<1>1. NobodyClaims
  BY DEF NobodyClaims, Holding, TypeOK, DispatchTypes
<1>2. reaper'.rows \subseteq reaper.rows
  <2>1. CASE Crash
    BY <2>1
  <2>2. CASE reaper' = reaper
    BY <2>2
  <2> QED BY <2>1, <2>2
<1>3. \A r \in Recipients : last'[r] = last[r] /\ r # TestRow
  BY CampaignAssumption DEF TypeOK, RowTypes, Rows
<1>4. NobodyReturns
  <2>1. ASSUME NEW r \in Recipients, DncRows(r) \/ Reply(r)
        PROVE  NobodyReturns
    BY <2>1 DEF NobodyReturns, Move, TypeOK, RowTypes, Rows
  <2>2. CASE CancelRows
    BY <2>2 DEF NobodyReturns, Rows, RowsWith
  <2>3. CASE TestStart \/ TestFinish
    BY <2>3, <1>3 DEF NobodyReturns, TypeOK, RowTypes, Rows
  <2>4. CASE status' = status
    BY <2>4 DEF NobodyReturns
  <2> QED BY <2>1, <2>2, <2>3, <2>4
<1> QED BY <1>1, <1>2, <1>3, <1>4, QuietStep

\* Preparation has nothing to do with claims.
LEMMA PreparationKeepsClaimInv ==
  ASSUME TypeOK, ClaimInv, NEW p \in Preparers, Preparation(p)
  PROVE  ClaimInv'
<1>1. status' = status /\ last' = last /\ reaper' = reaper /\ pc' = pc /\ rec' = rec
  BY DEF rowVars, dispatchVars,
         Preparation, Prepare, Regenerate, RegenCampaign, PrepRead, OverBudget, Personalize,
         PrepCount, PrepFlip, AbortPrep
<1> QED BY <1>1, QuietStep DEF NobodyClaims, NobodyReturns

\* The reaper takes away only what was old when it looked.
LEMMA ReapingKeepsClaimInv ==
  ASSUME TypeOK, ClaimInv, Reaping
  PROVE  ClaimInv'
<1>1. pc' = pc /\ rec' = rec
  BY DEF dispatchVars, Reaping, ReapRead, ReapCount, Age, ReapRow
<1>2. \A d \in Dispatchers : pc[d] \in Holding => rec[d] \in Recipients /\ rec[d] \in Rows
  BY RecInRows DEF TypeOK, Holding, Unassigned
<1>3. ClaimExclusive'
  BY <1>1 DEF ClaimInv, ClaimExclusive
<1>4. CASE ReapRead
  <2>1. status' = status /\ last' = last /\ reaper'.rows = Stranded
    BY <1>4 DEF ReapRead, rowVars
  <2> QED BY <2>1, <1>1, <1>3 DEF ClaimInv, ClaimHeld, SnapshotOld, Stranded
<1>5. CASE ReapCount
  <2>1. status' = status /\ last' = last /\ reaper'.rows = reaper.rows
    BY <1>5 DEF ReapCount, rowVars, TypeOK, HandlerTypes
  <2> QED BY <2>1, <1>1, <1>3 DEF ClaimInv, ClaimHeld, SnapshotOld
<1>6. ASSUME NEW r \in Rows, Age(r)
      PROVE  ClaimInv'
  <2>1. status' = status /\ reaper' = reaper /\ last' = [last EXCEPT ![r] = "old"]
    BY <1>6 DEF Age, handlerVars
  <2>2. \A d \in Dispatchers : pc[d] \in Holding => rec[d] # r
    BY <1>6 DEF Age
  <2> QED BY <2>1, <2>2, <1>1, <1>2, <1>3
          DEF ClaimInv, ClaimHeld, SnapshotOld, TypeOK, RowTypes
<1>7. ASSUME NEW r \in Rows, ReapRow(r)
      PROVE  ClaimInv'
  <2>1. /\ last' = last /\ reaper'.rows = reaper.rows \ {r} /\ r \in reaper.rows
        /\ status' = [status EXCEPT ![r] = IF @ = "SENDING" THEN Verdict(r) ELSE @]
    BY <1>7 DEF ReapRow, Move
  <2>2. \A d \in Dispatchers : pc[d] \in Holding => rec[d] # r \/ status[r] # "SENDING"
    BY <2>1, <1>2 DEF ClaimInv, ClaimHeld, SnapshotOld
  <2>3. ClaimHeld'
    BY <2>1, <2>2, <1>1, <1>2 DEF ClaimInv, ClaimHeld, TypeOK, RowTypes
  <2>4. SnapshotOld'
    BY <2>1 DEF ClaimInv, SnapshotOld, TypeOK, RowTypes
  <2> QED BY <2>3, <2>4, <1>3 DEF ClaimInv
<1> QED BY <1>4, <1>5, <1>6, <1>7 DEF Reaping

\* The claim's invariant holds in every reachable state.
LEMMA ClaimInvariant == Spec => []ClaimInv
<1>1. Init => ClaimInv
  BY DEF Init, ClaimInv, ClaimHeld, SnapshotOld, ClaimExclusive, Holding
<1>2. TypeOK /\ ClaimInv /\ [Next]_vars => ClaimInv'
  <2> SUFFICES ASSUME TypeOK, ClaimInv, [Next]_vars PROVE ClaimInv'
    OBVIOUS
  <2>1. CASE Next
    BY <2>1, LoopKeepsClaimInv, PreparationKeepsClaimInv, WorldKeepsClaimInv,
       ReapingKeepsClaimInv DEF Next
  <2>2. CASE UNCHANGED vars
    <3>1. status' = status /\ last' = last /\ reaper' = reaper /\ pc' = pc /\ rec' = rec
      BY <2>2 DEF vars, rowVars, dispatchVars, handlerVars
    <3> QED BY <3>1, QuietStep DEF NobodyClaims, NobodyReturns
  <2> QED BY <2>1, <2>2
<1> QED BY <1>1, <1>2, TypeCorrect, PTL DEF Spec

\* No two dispatch loops ever hold the same recipient between the claim and the message
\* row, however start, pause, crash and reaper interleave.
THEOREM ClaimsAreExclusive == Spec => []ClaimExclusive
<1>1. ClaimInv => ClaimExclusive
  BY DEF ClaimInv
<1> QED BY <1>1, ClaimInvariant, PTL

-----------------------------------------------------------------------------
(* One message per frequency window *)

\* A step in which no dispatcher comes nearer to the provider, nobody forgets a message,
\* and the provider accepts nothing, keeps SendInv.
LEMMA NoSendStep ==
  ASSUME SendInv, calls' = calls, recent' = recent, spent'["elapse"] = spent["elapse"],
         \A e \in Dispatchers : pc'[e] \in {"link", "create", "send"} =>
           /\ rec'[e] = rec[e]
           /\ IF pc'[e] = "send" THEN pc[e] = "send" ELSE pc[e] \in {"link", "create"}
  PROVE  SendInv'
BY DEF SendInv, OnePerWindow

\* Spending another event leaves the passing of the window unspent.
LEMMA ElapseUntouched ==
  ASSUME TypeOK, NEW e \in Events \ {"elapse"}, Spend(e)
  PROVE  spent'["elapse"] = spent["elapse"]
BY DEF TypeOK, Spend, Events

\* A step of the loop sends no lead a second text in one window.
LEMMA LoopKeepsSendInv ==
  ASSUME TypeOK, ClaimInv, SendInv, NEW d \in Dispatchers, Dispatch(d)
  PROVE  SendInv'
<1> DEFINE r == rec[d]
<1>0. \A e \in Dispatchers : pc[e] \notin Unassigned => rec[e] \in Recipients
  BY RecInRows DEF TypeOK
<1>1. CASE Gate(d)
  <2>1. /\ calls' = calls /\ recent' = recent /\ spent' = spent /\ rec' = rec
        /\ \/ pc' = [pc EXCEPT ![d] = "skip"]
           \/ pc' = [pc EXCEPT ![d] = "link"] /\ ~recent[r]
    BY <1>1 DEF Gate, Step, Goto, worldVars
  <2> QED BY <2>1 DEF SendInv, OnePerWindow, TypeOK, DispatchTypes
<1>2. CASE Link(d)
  <2>1. /\ calls' = calls /\ recent' = recent /\ spent' = spent /\ rec' = rec
        /\ pc' = [pc EXCEPT ![d] = "create"] /\ pc[d] = "link"
    BY <1>2 DEF Link, Step, Goto
  <2> QED BY <2>1 DEF SendInv, OnePerWindow, TypeOK, DispatchTypes
<1>3. CASE Create(d)
  <2>1. /\ calls' = calls /\ recent' = [recent EXCEPT ![r] = TRUE] /\ spent' = spent /\ rec' = rec
        /\ pc' = [pc EXCEPT ![d] = "send"] /\ pc[d] = "create"
    BY <1>3 DEF Create, Step, Goto
  <2>2. r \in Recipients
    BY <2>1, <1>0 DEF Unassigned
  <2>3. \A e \in Dispatchers \ {d} :
          rec[e] = r => pc[e] \notin {"link", "create", "send"}
    BY <2>1 DEF ClaimInv, ClaimExclusive, Holding, SendInv
  <2>4. calls[r] <= spent["elapse"]
    BY <2>1, <2>2 DEF SendInv
  <2>5. \A e \in Dispatchers : pc[e] \in {"link", "create"} => rec[e] \in Recipients
    BY <1>0 DEF Unassigned
  <2>6. recent' \in [Recipients -> BOOLEAN] /\ recent'[r]
        /\ \A q \in Recipients \ {r} : recent'[q] = recent[q]
    BY <2>1, <2>2 DEF TypeOK, WorldTypes
  <2> QED BY <2>1, <2>2, <2>3, <2>4, <2>5, <2>6, <1>0
          DEF SendInv, OnePerWindow, TypeOK, DispatchTypes, Unassigned
<1>4. CASE Send(d)
  <2>1. /\ calls' = [calls EXCEPT ![r] = @ + 1] /\ recent' = recent /\ spent' = spent /\ rec' = rec
        /\ pc' = [pc EXCEPT ![d] = "finish"] /\ pc[d] = "send"
    BY <1>4 DEF Send, Step, Goto, worldVars
  <2>2. r \in Recipients
    BY <2>1, <1>0 DEF Unassigned
  <2> QED BY <2>1, <2>2 DEF SendInv, OnePerWindow, TypeOK, DispatchTypes, Events
<1>5. CASE ~Gate(d) /\ ~Link(d) /\ ~Create(d) /\ ~Send(d)
  <2> USE DEF Dispatch, Start, Requeue, ReadBatch, Exhaust, NextRecipient, Check, MarkSkipped,
              Claim, Recheck, Revert, Finish, CountSent, ReadLead,
              WriteLead, Throw, Fail, CountFailed, Abort, CountQueued, CountSending, Complete
  <2>1. calls' = calls /\ recent' = recent
    BY <1>5 DEF worldVars
  <2>2. spent'["elapse"] = spent["elapse"]
    <3>1. spent' = spent \/ \E e \in Events \ {"elapse"} : Spend(e)
      BY <1>5 DEF Events
    <3> QED BY <3>1, ElapseUntouched
  <2>3. \A e \in Dispatchers : pc'[e] \in {"link", "create", "send"} =>
          pc'[e] = pc[e] /\ rec'[e] = rec[e]
    BY <1>5 DEF TypeOK, DispatchTypes, Step, Goto, Leave, Return
  <2> QED BY <2>1, <2>2, <2>3, NoSendStep
<1> QED BY <1>1, <1>2, <1>3, <1>4, <1>5

\* Nothing else sends, or opens a window early.
LEMMA OthersKeepSendInv ==
  ASSUME TypeOK, SendInv,
         Operator \/ World \/ Reaping \/ \E p \in Preparers : Preparation(p)
  PROVE  SendInv'
<1> USE DEF campaignVars, rowVars, worldVars, dispatchVars, handlerVars
<1>1. CASE WindowElapses
  <2>1. /\ calls' = calls /\ pc' = pc /\ rec' = rec /\ recent' = [r \in Recipients |-> FALSE]
        /\ spent' = [spent EXCEPT !["elapse"] = @ + 1]
        /\ \A d \in Dispatchers : pc[d] \notin {"link", "create", "send"}
    BY <1>1 DEF WindowElapses, Spend
  <2> QED BY <2>1 DEF SendInv, OnePerWindow, TypeOK, Events
<1>2. CASE Crash
  <2>1. /\ calls' = calls /\ recent' = recent
        /\ \A d \in Dispatchers : pc'[d] = "idle"
    BY <1>2 DEF Crash
  <2>2. spent'["elapse"] = spent["elapse"]
    BY <1>2, ElapseUntouched DEF Crash, Events
  <2> QED BY <2>1, <2>2, NoSendStep
<1>3. CASE ~WindowElapses /\ ~Crash
  <2> USE DEF Operator, World, Reaping, Preparation, Pause, Cancel, CancelRows, ToggleKill,
              TestStart, TestFinish, Disconnect, DisconnectPause, Reconnect, AddDnc, DncLead,
              DncRows, Reply, ReapRead, ReapCount, Age, ReapRow, Prepare, Regenerate,
              RegenCampaign, PrepRead, OverBudget, Personalize, PrepCount, PrepFlip, AbortPrep
  <2>1. calls' = calls /\ recent' = recent /\ pc' = pc /\ rec' = rec
    BY <1>3
  <2>2. spent'["elapse"] = spent["elapse"]
    <3>1. spent' = spent \/ \E e \in Events \ {"elapse"} : Spend(e)
      BY <1>3 DEF Events
    <3> QED BY <3>1, ElapseUntouched
  <2> QED BY <2>1, <2>2, NoSendStep
<1> QED BY <1>1, <1>2, <1>3

\* No lead is sent two texts in a window, in every state.
LEMMA SendInvariant == Spec => []SendInv
<1>1. Init => SendInv
  BY DEF Init, SendInv, OnePerWindow, Events
<1>2. TypeOK /\ ClaimInv /\ SendInv /\ [Next]_vars => SendInv'
  <2> SUFFICES ASSUME TypeOK, ClaimInv, SendInv, [Next]_vars PROVE SendInv'
    OBVIOUS
  <2>1. CASE Next
    BY <2>1, LoopKeepsSendInv, OthersKeepSendInv DEF Next
  <2>2. CASE UNCHANGED vars
    <3>1. calls' = calls /\ recent' = recent /\ spent' = spent /\ pc' = pc /\ rec' = rec
      BY <2>2 DEF vars, worldVars, dispatchVars
    <3> QED BY <3>1, NoSendStep
  <2> QED BY <2>1, <2>2
<1> QED BY <1>1, <1>2, TypeCorrect, ClaimInvariant, PTL DEF Spec

\* The provider accepts at most one message per recipient and frequency window, whatever
\* crashes, is re-queued by the reaper or answers late in between.
THEOREM OneMessagePerWindow == Spec => []OnePerWindow
<1>1. SendInv => OnePerWindow
  BY DEF SendInv
<1> QED BY <1>1, SendInvariant, PTL

-----------------------------------------------------------------------------
(* Pausing and opting out are barriers *)

\* Pause, cancel and completion let through only the dispatchers already past the
\* re-check.
THEOREM PauseIsABarrier == Spec => []PauseBarrier
<1> USE DEF campaignVars, rowVars, worldVars, dispatchVars, handlerVars
<1>1. Init => PauseBarrier
  BY DEF Init, PauseBarrier, PastRecheck
<1>2. TypeOK /\ PauseBarrier /\ [Next]_vars => PauseBarrier'
  <2> SUFFICES ASSUME TypeOK, PauseBarrier, [Next]_vars PROVE PauseBarrier'
    OBVIOUS
  <2>1. ASSUME NEW d \in Dispatchers, Dispatch(d)
        PROVE  PauseBarrier'
    <3>1. CASE Start(d)
      BY <3>1 DEF Start, PauseBarrier, Running
    <3>2. CASE Recheck(d)
      BY <3>2 DEF Recheck, PauseBarrier, Running, Step, Goto, PastRecheck, TypeOK, DispatchTypes
    <3>3. CASE Complete(d)
      <4>1. pc' = [pc EXCEPT ![d] = "idle"]
        BY <3>3 DEF Complete, Leave, Goto
      <4> QED BY <3>3, <4>1
              DEF Complete, PauseBarrier, Running, StopAs, PastRecheck, TypeOK, DispatchTypes
    <3>4. CASE ~Start(d) /\ ~Recheck(d) /\ ~Complete(d)
      <4> USE DEF Dispatch, Requeue, ReadBatch, Exhaust, NextRecipient, Check, MarkSkipped,
                  Claim, Revert, Gate, Link, Create, Send, Finish, CountSent, ReadLead,
                  WriteLead, Throw, Fail, CountFailed, Abort, CountQueued, CountSending
      <4>1. campaign' = campaign /\ atStop' = atStop
        BY <3>4, <2>1
      <4>2. \A e \in Dispatchers : pc'[e] \in PastRecheck => pc[e] \in PastRecheck
        BY <3>4, <2>1 DEF PastRecheck, Step, Goto, Leave, Return, TryBlock, TypeOK, DispatchTypes
      <4> QED BY <4>1, <4>2 DEF PauseBarrier, Running
    <3> QED BY <3>1, <3>2, <3>3, <3>4
  <2>2. CASE Operator \/ World \/ Reaping \/ \E p \in Preparers : Preparation(p)
    <3> USE DEF Operator, World, Reaping, Preparation, Pause, Cancel, CancelRows, ToggleKill,
              TestStart, TestFinish, Disconnect, DisconnectPause, Reconnect, AddDnc, DncLead,
              WindowElapses, Crash, DncRows, Reply, ReapRead, ReapCount, Age, ReapRow, Prepare,
              Regenerate, RegenCampaign, PrepRead, OverBudget, Personalize, PrepCount, PrepFlip,
              AbortPrep
    <3>1. pc' = pc \/ \A d \in Dispatchers : pc'[d] = "idle"
      BY <2>2
    <3>2. \/ atStop' = {d \in Dispatchers : pc[d] \in PastRecheck}
          \/ atStop' = atStop /\ (campaign' = campaign \/ ~Running)
      BY <2>2 DEF StopAs, Running
    <3> QED BY <3>1, <3>2 DEF PauseBarrier, PastRecheck, Running
  <2>3. CASE UNCHANGED vars
    BY <2>3 DEF vars, PauseBarrier, Running
  <2> QED BY <2>1, <2>2, <2>3 DEF Next
<1> QED BY <1>1, <1>2, TypeCorrect, PTL DEF Spec

\* An opt-out lets through only the dispatchers already past the gate.
THEOREM OptOutIsABarrier == Spec => []OptOutBarrier
<1> USE DEF campaignVars, rowVars, worldVars, dispatchVars, handlerVars
<1>1. Init => OptOutBarrier
  BY DEF Init, OptOutBarrier, PastGate
<1>2. TypeOK /\ OptOutBarrier /\ [Next]_vars => OptOutBarrier'
  <2> SUFFICES ASSUME TypeOK, OptOutBarrier, [Next]_vars PROVE OptOutBarrier'
    OBVIOUS
  <2>0. \A d \in Dispatchers : pc[d] \in PastGate => rec[d] \in Recipients
    BY RecInRows DEF TypeOK, PastGate, Unassigned
  <2>1. ASSUME NEW d \in Dispatchers, Dispatch(d)
        PROVE  OptOutBarrier'
    <3>1. CASE Gate(d)
      BY <3>1 DEF Gate, OptOutBarrier, Step, Goto, PastGate, TypeOK, DispatchTypes
    <3>2. CASE ~Gate(d)
      <4> USE DEF Dispatch, Start, Requeue, ReadBatch, Exhaust, NextRecipient, Check, MarkSkipped,
                  Claim, Recheck, Revert, Link, Create, Send, Finish, CountSent, ReadLead,
                  WriteLead, Throw, Fail, CountFailed, Abort, CountQueued, CountSending, Complete
      <4>1. dnc' = dnc /\ atDnc' = atDnc
        BY <3>2, <2>1
      <4>2. \A e \in Dispatchers :
              pc'[e] \in PastGate => pc[e] \in PastGate /\ rec'[e] = rec[e]
        BY <3>2, <2>1 DEF PastGate, Step, Goto, Leave, Return, TypeOK, DispatchTypes
      <4> QED BY <4>1, <4>2 DEF OptOutBarrier
    <3> QED BY <3>1, <3>2
  <2>2. ASSUME NEW r \in Recipients, AddDnc(r)
        PROVE  OptOutBarrier'
    <3>1. /\ pc' = pc /\ rec' = rec /\ dnc' = [dnc EXCEPT ![r] = TRUE]
          /\ atDnc' = [atDnc EXCEPT ![r] = {d \in Dispatchers : rec[d] = r /\ pc[d] \in PastGate}]
      BY <2>2 DEF AddDnc
    <3> QED BY <2>0, <3>1 DEF OptOutBarrier, TypeOK, WorldTypes
  <2>3. CASE /\ Operator \/ World \/ Reaping \/ \E p \in Preparers : Preparation(p)
             /\ ~\E r \in Recipients : AddDnc(r)
    <3> USE DEF Operator, World, Reaping, Preparation, Pause, Cancel, CancelRows, ToggleKill,
              TestStart, TestFinish, Disconnect, DisconnectPause, Reconnect, DncLead,
              WindowElapses, Crash, DncRows, Reply, ReapRead, ReapCount, Age, ReapRow, Prepare,
              Regenerate, RegenCampaign, PrepRead, OverBudget, Personalize, PrepCount, PrepFlip,
              AbortPrep
    <3>1. dnc' = dnc /\ atDnc' = atDnc
      BY <2>3
    <3>2. \/ pc' = pc /\ rec' = rec
          \/ \A d \in Dispatchers : pc'[d] = "idle"
      BY <2>3
    <3> QED BY <3>1, <3>2 DEF OptOutBarrier, PastGate
  <2>4. CASE UNCHANGED vars
    BY <2>4 DEF vars, OptOutBarrier
  <2> QED BY <2>1, <2>2, <2>3, <2>4 DEF Next, World
<1> QED BY <1>1, <1>2, TypeCorrect, PTL DEF Spec

-----------------------------------------------------------------------------
(* What has ended stays ended *)

\* A completed or cancelled campaign is re-opened by no handler but the unguarded write
\* of regeneratePersonalization.
THEOREM CampaignsEndOnce == Spec => CampaignEndsOnce
<1>1. [Next]_vars => [(campaign \in {"COMPLETED", "CANCELLED"}) =>
        campaign' = campaign \/ \E p \in Preparers : RegenCampaign(p)]_vars
  <2> SUFFICES ASSUME Next, campaign \in {"COMPLETED", "CANCELLED"},
                      ~\E p \in Preparers : RegenCampaign(p)
               PROVE  campaign' = campaign
    OBVIOUS
  <2> QED BY DEF campaignVars, Next, Dispatch, Preparation, Operator, World, Reaping, Running,
      StopAs,
            Start, Requeue, ReadBatch, Exhaust, NextRecipient, Check, MarkSkipped,
            Claim, Recheck, Revert, Gate, Link, Create, Send, Finish, CountSent, ReadLead,
            WriteLead, Throw, Fail, CountFailed, Abort, CountQueued, CountSending, Complete,
            Pause, Cancel, CancelRows, ToggleKill, TestStart, TestFinish, Disconnect,
            DisconnectPause, Reconnect, AddDnc, DncLead, WindowElapses, Crash, DncRows, Reply,
            ReapRead, ReapCount, Age, ReapRow, Prepare, Regenerate, PrepRead, OverBudget,
            Personalize, PrepCount, PrepFlip, AbortPrep
<1> QED BY <1>1, PTL DEF Spec, CampaignEndsOnce

\* What a step may do to a settled row: nothing, or note the reply to a sent message.
RowsSettled ==
  \A r \in Recipients :
    /\ status[r] \in {"REPLIED", "FAILED", "SKIPPED", "CANCELLED"} => status'[r] = status[r]
    /\ status[r] = "SENT" => status'[r] \in {"SENT", "REPLIED"}

\* A row that is settled stays so, but that a text that was sent may be replied to, in every
\* step.
LEMMA RowsSettledAlways == Spec => [][RowsSettled]_vars
<1> USE DEF campaignVars, rowVars, worldVars, dispatchVars, handlerVars
<1>1. TypeOK /\ [Next]_vars => [RowsSettled]_vars
  <2> SUFFICES ASSUME TypeOK, Next PROVE RowsSettled
    OBVIOUS
  <2>0. \A r \in Recipients : r \in Rows /\ r # TestRow
    BY CampaignAssumption DEF Rows
  <2>1. CASE status' = status
    BY <2>1 DEF RowsSettled
  <2>2. ASSUME NEW q, NEW from \in SUBSET {"PENDING", "QUEUED", "SENDING"}, NEW to, Move(q, from, to)
        PROVE  RowsSettled
    BY <2>0, <2>2 DEF RowsSettled, Move, TypeOK, RowTypes
  <2>3. ASSUME NEW d \in Dispatchers, Dispatch(d)
        PROVE  RowsSettled
    <3> USE DEF Dispatch, Start, ReadBatch, Exhaust, NextRecipient, Check, MarkSkipped,
            Claim, Recheck, Revert, Gate, Link, Create, Send, Finish, CountSent, ReadLead,
            WriteLead, Throw, Fail, CountFailed, Abort, CountQueued, CountSending, Complete
    <3>1. CASE Requeue(d)
      BY <2>0, <3>1 DEF Requeue, RowsSettled, RowsWith
    <3>2. \/ status' = status \/ Requeue(d)
          \/ \E from \in SUBSET {"PENDING", "QUEUED", "SENDING"} : \E to : Move(rec[d], from, to)
      BY <2>3
    <3> QED BY <2>1, <2>2, <3>1, <3>2
  <2>4. ASSUME NEW p \in Preparers, Preparation(p)
        PROVE  RowsSettled
    BY <2>1, <2>4 DEF Preparation, Prepare, Regenerate, RegenCampaign, PrepRead, OverBudget,
                      Personalize, PrepCount, PrepFlip, AbortPrep
  <2>5. CASE \E r \in Recipients : DncRows(r)
    BY <2>2, <2>5 DEF DncRows
  <2>6. ASSUME NEW q \in Recipients, Reply(q)
        PROVE  RowsSettled
    BY <2>0, <2>6 DEF Reply, Move, RowsSettled, TypeOK, RowTypes
  <2>7. CASE CancelRows
    BY <2>0, <2>7 DEF CancelRows, RowsSettled, RowsWith
  <2>8. CASE TestStart \/ TestFinish
    BY <2>0, <2>8 DEF TestStart, TestFinish, RowsSettled, TypeOK, RowTypes
  <2>9. ASSUME NEW q \in Rows, ReapRow(q)
        PROVE  RowsSettled
    BY <2>2, <2>9 DEF ReapRow
  <2> QED BY <2>1, <2>3, <2>4, <2>5, <2>6, <2>7, <2>8, <2>9
          DEF Next, Operator, World, Reaping, Pause, Cancel, ToggleKill, Disconnect,
              DisconnectPause, Reconnect, WindowElapses, Crash, AddDnc, DncLead,
              ReapRead, ReapCount, Age
<1> QED BY <1>1, TypeCorrect, PTL DEF Spec

\* A settled recipient is never sent, queued or settled again.
THEOREM RowsAreSettledOnce == Spec => RowsSettleOnce
BY RowsSettledAlways DEF RowsSettleOnce, RowsSettled

\* The provider's id is stored only together with SENT ...
IdMeansSent == \A r \in Recipients : provId[r] => status[r] \in {"SENT", "REPLIED"}

\* ... so that no stranded recipient of a campaign ever has one.
THEOREM NoIdIsStranded == Spec => []NoIdWhileSending
<1> USE DEF rowVars
<1>1. Init => IdMeansSent
  BY DEF Init, IdMeansSent, Rows
<1>2. TypeOK /\ IdMeansSent /\ [Next]_vars /\ [RowsSettled]_vars => IdMeansSent'
  <2> SUFFICES ASSUME TypeOK, IdMeansSent, [Next]_vars, [RowsSettled]_vars PROVE IdMeansSent'
    OBVIOUS
  <2>1. CASE UNCHANGED vars
    BY <2>1 DEF vars, IdMeansSent
  <2>2. CASE RowsSettled /\ \A r \in Recipients : provId'[r] = provId[r]
    BY <2>2 DEF RowsSettled, IdMeansSent
  <2>3. ASSUME NEW d \in Dispatchers, Finish(d)
        PROVE  IdMeansSent'
    <3>1. rec[d] \in Rows
      BY <2>3, RecInRows DEF TypeOK, Finish, Step, Unassigned
    <3>2. /\ provId' = [provId EXCEPT ![rec[d]] = @ \/ status[rec[d]] = "SENDING"]
          /\ status' = [status EXCEPT ![rec[d]] = IF @ = "SENDING" THEN "SENT" ELSE @]
      BY <2>3 DEF Finish, Move
    <3>3. \A r \in Recipients : provId'[r] => provId[r] \/ (r = rec[d] /\ status[r] = "SENDING")
      BY <3>1, <3>2 DEF TypeOK, RowTypes, Rows
    <3> QED BY <3>1, <3>2, <3>3 DEF IdMeansSent, TypeOK, RowTypes, Rows
  <2>4. ASSUME NEW d \in Dispatchers, Dispatch(d), ~Finish(d)
        PROVE  provId' = provId
    BY <2>4 DEF Dispatch, Start, Requeue, ReadBatch, Exhaust, NextRecipient, Check, MarkSkipped,
            Claim, Recheck, Revert, Gate, Link, Create, Send, CountSent, ReadLead,
            WriteLead, Throw, Fail, CountFailed, Abort, CountQueued, CountSending, Complete
  <2>5. ASSUME NEW p \in Preparers, Preparation(p)
        PROVE  provId' = provId
    BY <2>5 DEF Preparation, Prepare, Regenerate, RegenCampaign, PrepRead, OverBudget,
                Personalize, PrepCount, PrepFlip, AbortPrep
  <2>6. CASE TestFinish
    <3>1. \A r \in Recipients : r \in Rows /\ r # TestRow
      BY CampaignAssumption DEF Rows
    <3>2. \A r \in Recipients : provId'[r] = provId[r] /\ status'[r] = status[r]
      BY <2>6, <3>1 DEF TestFinish, TypeOK, RowTypes
    <3> QED BY <3>2 DEF IdMeansSent
  <2>7. CASE (Operator /\ ~TestFinish) \/ World \/ Reaping
    <3>1. provId' = provId
      BY <2>7 DEF Operator, World, Reaping, Pause, Cancel, CancelRows, ToggleKill,
            TestStart, Disconnect, DisconnectPause, Reconnect, AddDnc, DncLead, WindowElapses,
            Crash, DncRows, Reply, ReapRead, ReapCount, Age, ReapRow
    <3> QED BY <3>1, <2>1, <2>2
  <2> QED BY <2>1, <2>2, <2>3, <2>4, <2>5, <2>6, <2>7 DEF Next
<1>3. IdMeansSent => NoIdWhileSending
  BY DEF IdMeansSent, NoIdWhileSending
<1> QED BY <1>1, <1>2, <1>3, TypeCorrect, RowsSettledAlways, PTL DEF Spec

-----------------------------------------------------------------------------
(* Counting what was sent *)

Counters == {d \in Dispatchers : pc[d] = "count"}

\* What the reaper has read has no provider id, unless it is the test row.
NoIdIsRead == reaper.withId \cap Recipients = {}
SentInv == NoIdIsRead /\ SentIsCounted

\* The recipients that are SENT, and who is about to count one, are finitely many.
LEMMA CountsAreNumbers ==
  /\ IsFiniteSet(RowsWith("SENT")) /\ Cardinality(RowsWith("SENT")) \in Nat
  /\ IsFiniteSet(Counters) /\ Cardinality(Counters) \in Nat
<1>1. RowsWith("SENT") \in SUBSET Recipients /\ Counters \in SUBSET Dispatchers
  BY DEF RowsWith, Counters
<1> QED BY <1>1, FS_Subset, FS_CardinalityType, CampaignAssumption

\* Nothing that went wrong is undone.
LEMMA SpentStays ==
  ASSUME TypeOK, NEW e \in Events, NEW f \in Events, Spend(e)
  PROVE  IF f = e THEN spent'[f] > 0 ELSE spent'[f] = spent[f]
BY DEF TypeOK, Spend

\* A step that makes no recipient SENT and loses neither a counter nor a count.
LEMMA NoneSent ==
  ASSUME TypeOK, TypeOK', SentIsCounted, RowsWith("SENT")' \subseteq RowsWith("SENT"),
         spent'["crash"] = 0 /\ spent'["throw"] = 0 =>
           /\ spent["crash"] = 0 /\ spent["throw"] = 0
           /\ Counters \subseteq Counters' /\ sentCount' >= sentCount
  PROVE  SentIsCounted'
<1> DEFINE a == Cardinality(RowsWith("SENT"))
           b == Cardinality(Counters)
<1>1. SUFFICES ASSUME spent'["crash"] = 0, spent'["throw"] = 0
               PROVE  a' <= sentCount' + b'
  BY DEF SentIsCounted, Counters
<1>2. a \in Nat /\ a' \in Nat /\ b \in Nat /\ b' \in Nat /\ sentCount \in Nat /\ sentCount' \in Nat
  <2>1. (/\ IsFiniteSet(RowsWith("SENT")) /\ Cardinality(RowsWith("SENT")) \in Nat
         /\ IsFiniteSet(Counters) /\ Cardinality(Counters) \in Nat)'
    BY CountsAreNumbers, PTL
  <2> QED BY <2>1, CountsAreNumbers DEF TypeOK, CampaignTypes
<1>3. a' <= a
  BY CountsAreNumbers, FS_Subset
<1>4. b <= b'
  <2>1. IsFiniteSet(Counters)'
    BY CountsAreNumbers, PTL
  <2> QED BY <1>1, <2>1, FS_Subset
<1>5. a <= sentCount + b
  BY <1>1 DEF SentIsCounted, Counters
<1>6. sentCount' >= sentCount
  BY <1>1
<1>7. \A i, j, k, l, m, n \in Nat : i <= j /\ j <= m + k /\ k <= l /\ n >= m => i <= n + l
  OBVIOUS
<1> QED BY <1>2, <1>3, <1>4, <1>5, <1>6, <1>7

\* The guarded SENDING -> SENT: one more that is SENT, and its sender is about to count it.
LEMMA FinishKeepsCount ==
  ASSUME TypeOK, TypeOK', SentIsCounted, NEW d \in Dispatchers, Finish(d)
  PROVE  SentIsCounted'
<1> DEFINE a == Cardinality(RowsWith("SENT"))
           b == Cardinality(Counters)
           r == rec[d]
<1>1. /\ r \in Rows /\ pc[d] = "finish" /\ pc' = [pc EXCEPT ![d] = "count"] /\ sentCount' = sentCount
      /\ spent' = spent /\ status' = [status EXCEPT ![r] = IF @ \in {"SENDING"} THEN "SENT" ELSE @]
  BY RecInRows DEF TypeOK, Finish, Step, Goto, Move, campaignVars, Unassigned
<1>2. RowsWith("SENT")' \subseteq RowsWith("SENT") \cup {r}
  BY <1>1 DEF RowsWith, TypeOK, RowTypes, Rows
<1>3. Counters' = Counters \cup {d} /\ d \notin Counters
  BY <1>1 DEF Counters, TypeOK, DispatchTypes
<1>4. b \in Nat /\ b' = b + 1
  BY <1>3, CountsAreNumbers, FS_AddElement
<1>5. a \in Nat /\ a' <= a + 1
  <2>1. IsFiniteSet(RowsWith("SENT") \cup {r}) /\ Cardinality(RowsWith("SENT") \cup {r}) <= a + 1
    BY CountsAreNumbers, FS_AddElement
  <2>2. a' <= Cardinality(RowsWith("SENT") \cup {r})
    BY <1>2, <2>1, FS_Subset
  <2>3. Cardinality(RowsWith("SENT") \cup {r}) \in Nat /\ a' \in Nat
    <3>1. (/\ IsFiniteSet(RowsWith("SENT")) /\ Cardinality(RowsWith("SENT")) \in Nat
           /\ IsFiniteSet(Counters) /\ Cardinality(Counters) \in Nat)'
      BY CountsAreNumbers, PTL
    <3> QED BY <3>1, <2>1, FS_CardinalityType
  <2> QED BY <2>1, <2>2, <2>3, CountsAreNumbers
<1>6. a' \in Nat /\ sentCount \in Nat
  <2>1. (/\ IsFiniteSet(RowsWith("SENT")) /\ Cardinality(RowsWith("SENT")) \in Nat
         /\ IsFiniteSet(Counters) /\ Cardinality(Counters) \in Nat)'
    BY CountsAreNumbers, PTL
  <2> QED BY <2>1 DEF TypeOK, CampaignTypes
<1>7. spent["crash"] = 0 /\ spent["throw"] = 0 => a <= sentCount + b
  BY DEF SentIsCounted, Counters
<1>8. spent'["crash"] = 0 /\ spent'["throw"] = 0 => a' <= sentCount' + b'
  <2> HIDE DEF a, b
  <2> QED BY <1>1, <1>4, <1>5, <1>6, <1>7
<1> QED BY <1>8 DEF SentIsCounted, Counters

\* What was about to be counted is counted.
LEMMA CountKeepsCount ==
  ASSUME TypeOK, SentIsCounted, NEW d \in Dispatchers, CountSent(d)
  PROVE  SentIsCounted'
<1> DEFINE a == Cardinality(RowsWith("SENT"))
           b == Cardinality(Counters)
<1>1. /\ pc[d] = "count" /\ pc' = [pc EXCEPT ![d] = "leadRead"] /\ sentCount' = sentCount + 1
      /\ spent' = spent /\ status' = status
  BY DEF CountSent, Step, Goto, rowVars
<1>2. a' = a /\ a \in Nat
  BY <1>1, CountsAreNumbers DEF RowsWith
<1>3. Counters' = Counters \ {d} /\ d \in Counters
  BY <1>1 DEF Counters, TypeOK, DispatchTypes
<1>4. b \in Nat /\ b' = b - 1
  BY <1>3, CountsAreNumbers, FS_RemoveElement
<1>5. spent["crash"] = 0 /\ spent["throw"] = 0 => a <= sentCount + b
  BY DEF SentIsCounted, Counters
<1>6. sentCount \in Nat
  BY DEF TypeOK, CampaignTypes
<1>7. spent'["crash"] = 0 /\ spent'["throw"] = 0 => a' <= sentCount' + b'
  <2> HIDE DEF a, b
  <2> QED BY <1>1, <1>2, <1>4, <1>5, <1>6
<1> QED BY <1>7 DEF SentIsCounted, Counters

\* Any other move of a row is to another state.
LEMMA MoveSendsNone ==
  ASSUME TypeOK, NEW q, NEW from, NEW to, Move(q, from, to), to # "SENT"
  PROVE  RowsWith("SENT")' \subseteq RowsWith("SENT")
BY DEF Move, RowsWith, TypeOK, RowTypes, Rows

\* The steps of a dispatcher keep the count.
LEMMA DispatchKeepsCount ==
  ASSUME TypeOK, TypeOK', SentIsCounted, NEW d \in Dispatchers, Dispatch(d)
  PROVE  SentIsCounted'
<1>1. CASE Finish(d)
  BY <1>1, FinishKeepsCount
<1>2. CASE CountSent(d)
  BY <1>2, CountKeepsCount
<1>3. CASE ~Finish(d) /\ ~CountSent(d)
  <2> USE DEF Dispatch, Start, ReadBatch, Exhaust, NextRecipient, Check, MarkSkipped,
              Claim, Recheck, Revert, Gate, Link, Create, Send, ReadLead,
              WriteLead, Fail, CountFailed, CountQueued, CountSending, Complete,
              Requeue, Throw, Abort, rowVars, campaignVars
  <2>1. RowsWith("SENT")' \subseteq RowsWith("SENT")
    <3>1. CASE Requeue(d)
      BY <3>1 DEF RowsWith, Rows
    <3>2. \/ status' = status \/ Requeue(d)
          \/ \E from : \E to \in {"SKIPPED", "SENDING", "QUEUED", "FAILED"} : Move(rec[d], from, to)
      BY <1>3
    <3>3. CASE status' = status
      BY <3>3 DEF RowsWith
    <3> QED BY <3>1, <3>2, <3>3, MoveSendsNone
  <2>2. sentCount' = sentCount
    BY <1>3
  <2>3. CASE Throw(d) \/ Abort(d)
    <3>1. spent'["throw"] > 0
      BY <2>3, SpentStays DEF Events
    <3>2. spent'["throw"] # 0
      BY <3>1 DEF TypeOK, Events
    <3> QED BY <2>1, <3>2, NoneSent
  <2>4. CASE ~Throw(d) /\ ~Abort(d)
    <3>1. \/ spent' = spent \/ \E e \in Events \ {"crash", "throw"} : Spend(e)
      BY <1>3, <2>4 DEF Events
    <3>2. spent'["crash"] = spent["crash"] /\ spent'["throw"] = spent["throw"]
      BY <3>1, SpentStays DEF Events
    <3>3. pc[d] # "count" /\ \E to : pc' = [pc EXCEPT ![d] = to]
      BY <1>3, <2>4 DEF Step, Goto, Leave, Return
    <3>4. Counters \subseteq Counters'
      BY <3>3 DEF Counters, TypeOK, DispatchTypes
    <3>5. sentCount' >= sentCount
      BY <2>2 DEF TypeOK, CampaignTypes
    <3> QED BY <2>1, <3>2, <3>4, <3>5, NoneSent
  <2> QED BY <2>3, <2>4
<1> QED BY <1>1, <1>2, <1>3

\* So do the steps of the others.
LEMMA OthersKeepCount ==
  ASSUME TypeOK, TypeOK', SentInv,
         Operator \/ World \/ Reaping \/ \E p \in Preparers : Preparation(p)
  PROVE  SentIsCounted'
<1>0. SentIsCounted /\ reaper.withId \cap Recipients = {}
  BY DEF SentInv, NoIdIsRead
<1>1. RowsWith("SENT")' \subseteq RowsWith("SENT")
  <2>1. CASE status' = status
    BY <2>1 DEF RowsWith
  <2>2. CASE CancelRows
    BY <2>2 DEF CancelRows, RowsWith, Rows
  <2>3. CASE TestStart \/ TestFinish
    BY <2>3, CampaignAssumption DEF TestStart, TestFinish, RowsWith, TypeOK, RowTypes, Rows
  <2>4. ASSUME NEW r \in Rows, ReapRow(r) PROVE RowsWith("SENT")' \subseteq RowsWith("SENT")
    <3>1. CASE r \in Recipients
      <4>1. Verdict(r) # "SENT" /\ Move(r, {"SENDING"}, Verdict(r))
        BY <1>0, <2>4, <3>1 DEF ReapRow, Verdict
      <4> QED BY <4>1, MoveSendsNone
    <3>2. CASE r \notin Recipients
      BY <2>4, <3>2 DEF ReapRow, Move, RowsWith, TypeOK, RowTypes, Rows
    <3> QED BY <3>1, <3>2
  <2>5. \/ status' = status \/ CancelRows \/ TestStart \/ TestFinish \/ \E r \in Rows : ReapRow(r)
        \/ \E q, from : \E to \in {"SKIPPED", "REPLIED"} : Move(q, from, to)
    BY DEF Operator, World, Reaping, Preparation, Pause, Cancel, ToggleKill,
           Disconnect, DisconnectPause, Reconnect, AddDnc, DncLead,
           DncRows, Reply, ReapRead, ReapCount, Age, Prepare, Regenerate, WindowElapses, Crash,
           RegenCampaign, PrepRead, OverBudget, Personalize, PrepCount, PrepFlip, AbortPrep, rowVars
  <2> QED BY <2>1, <2>2, <2>3, <2>4, <2>5, MoveSendsNone
<1>2. sentCount' >= sentCount
  <2>1. CASE sentCount' = sentCount
    BY <2>1 DEF TypeOK, CampaignTypes
  <2>2. CASE ReapCount
    BY <2>2 DEF ReapCount, TypeOK, CampaignTypes
  <2>3. sentCount' = sentCount \/ ReapCount
    BY DEF Operator, World, Reaping, Preparation, Pause, Cancel, ToggleKill, CancelRows, TestStart,
           Disconnect, DisconnectPause, Reconnect, AddDnc, DncLead, TestFinish, ReapRow,
           DncRows, Reply, ReapRead, Age, Prepare, Regenerate, WindowElapses, Crash,
           RegenCampaign, PrepRead, OverBudget, Personalize, PrepCount, PrepFlip, AbortPrep, campaignVars
  <2> QED BY <2>1, <2>2, <2>3
<1>3. CASE Crash
  <2>1. spent'["crash"] > 0
    BY <1>3, SpentStays DEF Events, Crash
  <2>2. spent'["crash"] # 0
    BY <2>1 DEF TypeOK, Events
  <2> QED BY <1>0, <1>1, <2>2, NoneSent
<1>4. ASSUME NEW p \in Preparers, AbortPrep(p)
      PROVE  SentIsCounted'
  <2>1. spent'["throw"] > 0
    BY <1>4, SpentStays DEF Events, AbortPrep
  <2>2. spent'["throw"] # 0
    BY <2>1 DEF TypeOK, Events
  <2> QED BY <1>0, <1>1, <2>2, NoneSent
<1>5. CASE ~Crash /\ \A p \in Preparers : ~AbortPrep(p)
  <2> USE DEF Operator, World, Reaping, Preparation, Pause, Cancel, ToggleKill, CancelRows, TestStart,
           Disconnect, DisconnectPause, Reconnect, AddDnc, DncLead, TestFinish, ReapRow, ReapCount,
           DncRows, Reply, ReapRead, Age, Prepare, Regenerate, WindowElapses,
           RegenCampaign, PrepRead, OverBudget, Personalize, PrepCount, PrepFlip
  <2>1. \/ spent' = spent \/ \E e \in Events \ {"crash", "throw"} : Spend(e)
    BY <1>5 DEF Events
  <2>2. spent'["crash"] = spent["crash"] /\ spent'["throw"] = spent["throw"]
    BY <2>1, SpentStays DEF Events
  <2>3. pc' = pc
    BY <1>5 DEF dispatchVars
  <2>4. Counters' = Counters
    BY <2>3 DEF Counters
  <2> QED BY <1>0, <1>1, <1>2, <2>2, <2>4, NoneSent
<1> QED BY <1>3, <1>4, <1>5

\* The reaper reads no recipient with a provider id.
LEMMA ReaperReadsNoId ==
  ASSUME TypeOK, NoIdWhileSending, NoIdIsRead, [Next]_vars
  PROVE  NoIdIsRead'
<1>1. reaper' = reaper \/ ReapRead \/ (\E r \in Rows : ReapRow(r)) \/ ReapCount \/ Crash
  BY DEF vars, handlerVars, Next, Operator, World, Reaping, Preparation, Pause, Cancel, ToggleKill,
         CancelRows, TestStart, Disconnect, DisconnectPause, Reconnect, AddDnc, DncLead, TestFinish,
         DncRows, Reply, Age, Prepare, Regenerate, WindowElapses,
         RegenCampaign, PrepRead, OverBudget, Personalize, PrepCount, PrepFlip, AbortPrep,
         Dispatch, Start, ReadBatch, Exhaust, NextRecipient, Check, MarkSkipped,
         Claim, Recheck, Revert, Gate, Link, Create, Send, ReadLead, Finish, CountSent,
         WriteLead, Fail, CountFailed, CountQueued, CountSending, Complete, Requeue, Throw, Abort
<1> USE DEF NoIdIsRead
<1>2. reaper.withId \cap Recipients = {}
  OBVIOUS
<1>3. CASE ReapRead
  BY <1>3 DEF ReapRead, Stranded, NoIdWhileSending
<1>4. CASE \E r \in Rows : ReapRow(r)
  BY <1>2, <1>4 DEF ReapRow
<1>5. CASE ReapCount
  BY <1>2, <1>5 DEF ReapCount, TypeOK, HandlerTypes
<1>6. CASE Crash
  BY <1>6 DEF Crash
<1>7. CASE reaper' = reaper
  BY <1>2, <1>7
<1> QED BY <1>1, <1>3, <1>4, <1>5, <1>6, <1>7

\* Whoever is shown as SENT has been counted, or its sender is about to count it, as long as
\* no error and no crash came in between.
THEOREM SentAreCounted == Spec => []SentIsCounted
<1>1. Init => SentInv
  <2> SUFFICES ASSUME Init PROVE SentInv
    OBVIOUS
  <2>1. RowsWith("SENT") = {}
    BY DEF Init, RowsWith, Rows
  <2>2. Counters = {} /\ sentCount = 0 /\ reaper.withId = {}
    BY DEF Init, Counters
  <2>3. Cardinality(RowsWith("SENT")) = 0 /\ Cardinality(Counters) = 0
    BY <2>1, <2>2, FS_EmptySet
  <2> QED BY <2>2, <2>3 DEF SentInv, NoIdIsRead, SentIsCounted, Counters
<1>2. TypeOK /\ TypeOK' /\ NoIdWhileSending /\ SentInv /\ [Next]_vars => SentInv'
  <2> SUFFICES ASSUME TypeOK, TypeOK', NoIdWhileSending, SentInv, [Next]_vars PROVE SentInv'
    OBVIOUS
  <2>1. SentIsCounted /\ NoIdIsRead'
    BY ReaperReadsNoId DEF SentInv
  <2>2. CASE Next
    <3>1. SentIsCounted'
      BY <2>1, <2>2, DispatchKeepsCount, OthersKeepCount DEF Next
    <3> QED BY <2>1, <3>1 DEF SentInv
  <2>3. CASE UNCHANGED vars
    <3>1. SentIsCounted'
      BY <2>1, <2>3 DEF vars, campaignVars, rowVars, dispatchVars, SentIsCounted, RowsWith
    <3> QED BY <2>1, <3>1 DEF SentInv
  <2> QED BY <2>2, <2>3
<1>3. SentInv => SentIsCounted
  BY DEF SentInv
<1> QED BY <1>1, <1>2, <1>3, TypeCorrect, NoIdIsStranded, PTL DEF Spec

-----------------------------------------------------------------------------
(* The campaign implements OutreachLedger *)

\* Whoever is about to write SENT has had a text accepted.
Heard == \A d \in Dispatchers : pc[d] = "finish" => calls[rec[d]] > 0

\* What a step leaves alone: what was accepted, who is past the gate, who has opted out, the window.
TextsStay == calls' = calls
OptOutsStay == OptedOut' = OptedOut /\ spent'["elapse"] = spent["elapse"]
Lapses == \A d \in Dispatchers : pc'[d] \in PastGate => pc[d] \in PastGate /\ rec'[d] = rec[d]
Persists == \A d \in Dispatchers : pc[d] \in PastGate => pc'[d] \in PastGate /\ rec'[d] = rec[d]

\* No recipient is shown otherwise, or one who was open is closed.
OnlyCloses == \A r \in Recipients : Stage'[r] = Stage[r] \/ (Stage[r] = "open" /\ Stage'[r] = "closed")

\* Only the provider's acceptance lets a sender go on to SENT.
LEMMA HeardStays ==
  ASSUME TypeOK, TypeOK', Heard, [Next]_vars
  PROVE  Heard'
<1> USE DEF campaignVars, rowVars, worldVars, dispatchVars, handlerVars
<1>0. \A d \in Dispatchers : pc[d] \notin Unassigned => rec[d] \in Recipients
  BY RecInRows DEF TypeOK
<1>1. ASSUME NEW d \in Dispatchers, Send(d) PROVE Heard'
  <2>1. /\ calls' = [calls EXCEPT ![rec[d]] = @ + 1] /\ rec' = rec
        /\ pc' = [pc EXCEPT ![d] = "finish"] /\ pc[d] = "send"
    BY <1>1 DEF Send, Step, Goto
  <2> QED BY <2>1, <1>0 DEF Heard, TypeOK, DispatchTypes, Unassigned
<1>2. CASE TextsStay /\ \A d \in Dispatchers : pc'[d] = "finish" => pc[d] = "finish" /\ rec'[d] = rec[d]
  BY <1>2 DEF Heard, TextsStay
<1>3. ASSUME NEW d \in Dispatchers, Dispatch(d), ~Send(d) PROVE Heard'
  <2>1. calls' = calls
    BY <1>3 DEF Dispatch, Start, Requeue, ReadBatch, Exhaust, NextRecipient, Check, MarkSkipped,
            Claim, Recheck, Revert, Gate, Link, Create, Finish, CountSent, ReadLead,
            WriteLead, Throw, Fail, CountFailed, Abort, CountQueued, CountSending, Complete
  <2>2. \A e \in Dispatchers : pc'[e] = "finish" => pc[e] = "finish" /\ rec'[e] = rec[e]
    BY <1>3 DEF TypeOK, DispatchTypes, Step, Goto, Leave, Return,
            Dispatch, Start, Requeue, ReadBatch, Exhaust, NextRecipient, Check, MarkSkipped,
            Claim, Recheck, Revert, Gate, Link, Create, Finish, CountSent, ReadLead,
            WriteLead, Throw, Fail, CountFailed, Abort, CountQueued, CountSending, Complete
  <2> QED BY <2>1, <2>2, <1>2 DEF TextsStay
<1>4. CASE Crash
  BY <1>4, <1>2 DEF Crash, TextsStay
<1>5. CASE (Operator \/ World \/ Reaping \/ \E p \in Preparers : Preparation(p)) /\ ~Crash
  <2>1. calls' = calls /\ pc' = pc /\ rec' = rec
    BY <1>5 DEF Operator, World, Reaping, Preparation, Pause, Cancel, CancelRows, ToggleKill,
              TestStart, TestFinish, Disconnect, DisconnectPause, Reconnect, AddDnc, DncLead,
              DncRows, Reply, ReapRead, ReapCount, Age, ReapRow, Prepare, Regenerate, WindowElapses,
              RegenCampaign, PrepRead, OverBudget, Personalize, PrepCount, PrepFlip, AbortPrep
  <2> QED BY <2>1, <1>2 DEF TextsStay
<1>6. CASE UNCHANGED vars
  BY <1>6, <1>2 DEF vars, TextsStay
<1> QED BY <1>1, <1>3, <1>4, <1>5, <1>6 DEF Next

\* An update that leaves settled rows alone and does not say SENT closes rows at most.
LEMMA MoveCloses ==
  ASSUME TypeOK, TypeOK', NEW q, NEW from \in SUBSET {"PENDING", "QUEUED", "SENDING"}, NEW to,
         Move(q, from, to), to # "SENT"
  PROVE  OnlyCloses
BY DEF Move, OnlyCloses, Stage, TypeOK, RowTypes, RowStatus, Rows

\* But for a sender's SENT and a reply, rows are closed at most.
LEMMA RowsOnlyClose ==
  ASSUME TypeOK, TypeOK', NoIdIsRead, [Next]_vars,
         ~\E d \in Dispatchers : Finish(d), ~\E r \in Recipients : Reply(r)
  PROVE  OnlyCloses
<1> USE DEF campaignVars, rowVars, worldVars, dispatchVars, handlerVars
<1>0. \A r \in Recipients : r \in Rows /\ r # TestRow
  BY CampaignAssumption DEF Rows
<1>1. CASE status' = status
  BY <1>1 DEF OnlyCloses, Stage
<1>2. ASSUME NEW d \in Dispatchers, Dispatch(d) PROVE OnlyCloses
  <2>1. CASE Requeue(d)
    BY <2>1, <1>0 DEF Requeue, OnlyCloses, Stage, RowsWith
  <2>2. \/ status' = status \/ Requeue(d)
        \/ \E from \in SUBSET {"PENDING", "QUEUED", "SENDING"} : \E to \in RowStatus \ {"SENT"} :
             Move(rec[d], from, to)
    BY <1>2 DEF RowStatus, Dispatch, Start, ReadBatch, Exhaust, NextRecipient, Check, MarkSkipped,
            Claim, Recheck, Revert, Gate, Link, Create, Send, CountSent, ReadLead,
            WriteLead, Throw, Fail, CountFailed, Abort, CountQueued, CountSending, Complete
  <2> QED BY <1>1, <2>1, <2>2, MoveCloses
<1>3. ASSUME NEW p \in Preparers, Preparation(p) PROVE OnlyCloses
  BY <1>1, <1>3 DEF Preparation, Prepare, Regenerate, RegenCampaign, PrepRead, OverBudget,
                    Personalize, PrepCount, PrepFlip, AbortPrep
<1>4. CASE \E r \in Recipients : DncRows(r)
  BY <1>4, MoveCloses DEF DncRows
<1>5. CASE CancelRows
  BY <1>5, <1>0 DEF CancelRows, OnlyCloses, Stage, RowsWith
<1>6. CASE TestStart \/ TestFinish
  <2>1. \A r \in Recipients : status'[r] = status[r]
    BY <1>6, <1>0 DEF TestStart, TestFinish, TypeOK, RowTypes
  <2> QED BY <2>1 DEF OnlyCloses, Stage
<1>7. ASSUME NEW q \in Rows, ReapRow(q) PROVE OnlyCloses
  <2>1. CASE Verdict(q) # "SENT"
    BY <1>7, <2>1, MoveCloses DEF ReapRow
  <2>2. CASE Verdict(q) = "SENT"
    <3>1. q \notin Recipients
      BY <2>2 DEF Verdict, NoIdIsRead
    <3>2. \A r \in Recipients : status'[r] = status[r]
      BY <1>7, <1>0, <3>1 DEF ReapRow, Move, TypeOK, RowTypes
    <3> QED BY <3>2 DEF OnlyCloses, Stage
  <2> QED BY <2>1, <2>2
<1> QED BY <1>1, <1>2, <1>3, <1>4, <1>5, <1>6, <1>7
        DEF vars, Next, Operator, World, Reaping, Pause, Cancel, ToggleKill, Disconnect,
            DisconnectPause, Reconnect, WindowElapses, Crash, AddDnc, DncLead,
            ReapRead, ReapCount, Age

\* But for the gate and the provider, senders stay where they are towards them, or give up; and
\* they give up with an error or a crash.
LEMMA SendersLapse ==
  ASSUME TypeOK, [Next]_vars, ~\E d \in Dispatchers : Gate(d) \/ Send(d)
  PROVE  /\ TextsStay /\ Lapses
         /\ (\E d \in Dispatchers : Throw(d)) \/ Crash \/ Persists
<1> USE DEF campaignVars, rowVars, worldVars, dispatchVars, handlerVars, PastGate
<1>1. ASSUME NEW d \in Dispatchers, Dispatch(d)
      PROVE  TextsStay /\ Lapses /\ (Throw(d) \/ Persists)
  <2> USE DEF Dispatch, Start, Requeue, ReadBatch, Exhaust, NextRecipient, Check, MarkSkipped,
            Claim, Recheck, Revert, Link, Create, Finish, CountSent, ReadLead,
            WriteLead, Fail, CountFailed, Abort, CountQueued, CountSending, Complete
  <2>1. TextsStay
    BY <1>1 DEF TextsStay, Throw
  <2>2. Lapses
    BY <1>1 DEF Lapses, Throw, TypeOK, DispatchTypes, Step, Goto, Leave, Return, TryBlock
  <2>3. Throw(d) \/ Persists
    BY <1>1 DEF Persists, TypeOK, DispatchTypes, Step, Goto, Leave, Return, TryBlock
  <2> QED BY <2>1, <2>2, <2>3
<1>2. CASE Crash
  BY <1>2 DEF Crash, TextsStay, Lapses
<1>3. CASE (Operator \/ World \/ Reaping \/ \E p \in Preparers : Preparation(p)) /\ ~Crash
  <2>1. calls' = calls /\ pc' = pc /\ rec' = rec
    BY <1>3 DEF Operator, World, Reaping, Preparation, Pause, Cancel, CancelRows, ToggleKill,
              TestStart, TestFinish, Disconnect, DisconnectPause, Reconnect, AddDnc, DncLead,
              DncRows, Reply, ReapRead, ReapCount, Age, ReapRow, Prepare, Regenerate, WindowElapses,
              RegenCampaign, PrepRead, OverBudget, Personalize, PrepCount, PrepFlip, AbortPrep
  <2> QED BY <2>1 DEF TextsStay, Lapses, Persists
<1>4. CASE UNCHANGED vars
  BY <1>4 DEF vars, TextsStay, Lapses, Persists
<1> QED BY <1>1, <1>2, <1>3, <1>4 DEF Next

\* But for an opt-out and the end of a window, nobody opts out and no window ends.
LEMMA OptOutsKept ==
  ASSUME TypeOK, [Next]_vars, ~\E r \in Recipients : AddDnc(r), ~WindowElapses
  PROVE  OptOutsStay
<1> USE DEF campaignVars, rowVars, worldVars, dispatchVars, handlerVars
<1>1. dnc' = dnc
  BY DEF vars, Next, Dispatch, Start, Requeue, ReadBatch, Exhaust, NextRecipient, Check, MarkSkipped,
         Claim, Recheck, Revert, Gate, Link, Create, Send, Finish, CountSent, ReadLead,
         WriteLead, Throw, Fail, CountFailed, Abort, CountQueued, CountSending, Complete,
         Operator, World, Reaping, Preparation, Pause, Cancel, CancelRows, ToggleKill, Crash,
         TestStart, TestFinish, Disconnect, DisconnectPause, Reconnect, DncLead,
         DncRows, Reply, ReapRead, ReapCount, Age, ReapRow, Prepare, Regenerate,
         RegenCampaign, PrepRead, OverBudget, Personalize, PrepCount, PrepFlip, AbortPrep
<1>2. spent' = spent \/ \E e \in Events \ {"elapse"} : Spend(e)
  BY DEF vars, Events, Next, Dispatch, Start, Requeue, ReadBatch, Exhaust, NextRecipient, Check, MarkSkipped,
         Claim, Recheck, Revert, Gate, Link, Create, Send, Finish, CountSent, ReadLead,
         WriteLead, Throw, Fail, CountFailed, Abort, CountQueued, CountSending, Complete,
         Operator, World, Reaping, Preparation, Pause, Cancel, CancelRows, ToggleKill, Crash,
         TestStart, TestFinish, Disconnect, DisconnectPause, Reconnect, DncLead,
         DncRows, Reply, ReapRead, ReapCount, Age, ReapRow, Prepare, Regenerate,
         RegenCampaign, PrepRead, OverBudget, Personalize, PrepCount, PrepFlip, AbortPrep
<1> QED BY <1>1, <1>2, ElapseUntouched DEF OptOutsStay, OptedOut

outreachVars == <<Stage, Permitted, calls, OptedOut, spent["elapse"]>>

\* Who goes on through the gate has a permission nobody else has: a second sender of the same
\* recipient would hold the claim, or have written the row that closes the gate.
LEMMA GatePermits ==
  ASSUME TypeOK, ClaimInv, SendInv, NEW d \in Dispatchers, Gate(d)
  PROVE  UNCHANGED outreachVars \/ \E p \in Recipients : Outreach!Permit(p)
<1> DEFINE r == rec[d]
<1>1. /\ pc[d] = "gate" /\ rec' = rec /\ calls' = calls /\ status' = status /\ dnc' = dnc /\ spent' = spent
      /\ \/ pc' = [pc EXCEPT ![d] = "skip"]
         \/ pc' = [pc EXCEPT ![d] = "link"] /\ ~dnc[r] /\ ~recent[r]
  BY DEF Gate, Step, Goto, worldVars, rowVars
<1>2. r \in Recipients
  BY <1>1, RecInRows DEF TypeOK, Unassigned
<1>3. Stage' = Stage /\ OptedOut' = OptedOut
  BY <1>1 DEF Stage, OptedOut
<1>4. CASE pc' = [pc EXCEPT ![d] = "skip"]
  <2>1. Permitted' = Permitted
    BY <1>1, <1>4 DEF Permitted, PastGate, TypeOK, DispatchTypes
  <2> QED BY <1>1, <1>3, <2>1 DEF outreachVars
<1>5. CASE pc' = [pc EXCEPT ![d] = "link"] /\ ~dnc[r] /\ ~recent[r]
  <2>1. r \notin Permitted
    BY <1>1, <1>2, <1>5 DEF Permitted, PastGate, Holding, ClaimInv, ClaimExclusive, SendInv
  <2>2. Permitted' = Permitted \cup {r}
    BY <1>1, <1>2, <1>5 DEF Permitted, PastGate, TypeOK, DispatchTypes
  <2>3. r \notin OptedOut /\ calls[r] <= spent["elapse"]
    BY <1>2, <1>5 DEF OptedOut, SendInv
  <2> QED BY <1>1, <1>2, <1>3, <2>1, <2>2, <2>3 DEF Outreach!Permit
<1> QED BY <1>1, <1>4, <1>5

\* The provider accepts a text of the one sender who was permitted it ...
LEMMA SendTexts ==
  ASSUME TypeOK, SendInv, NEW d \in Dispatchers, Send(d)
  PROVE  \E p \in Recipients : Outreach!Text(p)
<1> DEFINE r == rec[d]
<1>1. /\ pc[d] = "send" /\ pc' = [pc EXCEPT ![d] = "finish"] /\ rec' = rec
      /\ calls' = [calls EXCEPT ![r] = @ + 1] /\ status' = status /\ dnc' = dnc /\ spent' = spent
  BY DEF Send, Step, Goto, worldVars, rowVars
<1>2. r \in Recipients
  BY <1>1, RecInRows DEF TypeOK, Unassigned
<1>3. Stage' = Stage /\ OptedOut' = OptedOut
  BY <1>1 DEF Stage, OptedOut
<1>4. \A e \in Dispatchers \ {d} : pc[e] \in PastGate => rec[e] # r
  BY <1>1 DEF SendInv, PastGate
<1>5. r \in Permitted /\ Permitted' = Permitted \ {r}
  BY <1>1, <1>2, <1>4 DEF Permitted, PastGate, TypeOK, DispatchTypes
<1> QED BY <1>1, <1>2, <1>3, <1>5 DEF Outreach!Text

\* ... who then confirms it, unless the row has been settled meanwhile.
LEMMA FinishConfirms ==
  ASSUME TypeOK, Heard, NEW d \in Dispatchers, Finish(d)
  PROVE  UNCHANGED outreachVars \/ \E p \in Recipients : Outreach!Confirm(p)
<1> DEFINE r == rec[d]
<1>1. /\ pc[d] = "finish" /\ pc' = [pc EXCEPT ![d] = "count"] /\ rec' = rec
      /\ status' = [status EXCEPT ![r] = IF @ = "SENDING" THEN "SENT" ELSE @]
      /\ calls' = calls /\ dnc' = dnc /\ spent' = spent
  BY DEF Finish, Step, Goto, Move, worldVars
<1>2. r \in Recipients /\ r \in Rows
  BY <1>1, RecInRows DEF TypeOK, Unassigned
<1>3. Permitted' = Permitted /\ OptedOut' = OptedOut
  BY <1>1 DEF Permitted, OptedOut, PastGate, TypeOK, DispatchTypes
<1>4. CASE status[r] = "SENDING"
  <2>1. Stage[r] = "open" /\ Stage' = [Stage EXCEPT ![r] = "sent"]
    BY <1>1, <1>2, <1>4 DEF Stage, TypeOK, RowTypes, Rows
  <2>2. calls[r] > 0
    BY <1>1 DEF Heard
  <2> QED BY <1>1, <1>2, <1>3, <2>1, <2>2 DEF Outreach!Confirm
<1>5. CASE status[r] # "SENDING"
  <2>1. status' = status
    BY <1>1, <1>5 DEF TypeOK, RowTypes
  <2> QED BY <1>1, <1>3, <2>1 DEF outreachVars, Stage
<1> QED BY <1>4, <1>5

\* A reply closes the recipient's row, whatever was open or sent.
LEMMA ReplyAnswers ==
  ASSUME TypeOK, NEW r \in Recipients, Reply(r)
  PROVE  UNCHANGED outreachVars \/ Outreach!Answer(r)
<1>1. /\ status' = [status EXCEPT ![r] = IF @ \in {"PENDING", "QUEUED", "SENDING", "SENT"} THEN "REPLIED" ELSE @]
      /\ pc' = pc /\ rec' = rec /\ calls' = calls /\ dnc' = dnc /\ Spend("reply")
  BY DEF Reply, Move, worldVars, dispatchVars
<1>2. spent'["elapse"] = spent["elapse"]
  BY <1>1, ElapseUntouched DEF Events
<1>3. Permitted' = Permitted /\ OptedOut' = OptedOut
  BY <1>1 DEF Permitted, OptedOut
<1>4. Stage' = Stage \/ Stage' = [Stage EXCEPT ![r] = "closed"]
  BY <1>1 DEF Stage, TypeOK, RowTypes, RowStatus, Rows
<1> QED BY <1>1, <1>2, <1>3, <1>4 DEF outreachVars, Outreach!Answer

\* An opt-out and the end of a window are what they are there.
LEMMA OthersHappen ==
  ASSUME TypeOK, (\E r \in Recipients : AddDnc(r)) \/ WindowElapses
  PROVE  (\E p \in Recipients : Outreach!OptOut(p)) \/ Outreach!WindowPasses
<1>1. ASSUME NEW r \in Recipients, AddDnc(r)
      PROVE  Outreach!OptOut(r)
  <2>1. /\ dnc' = [dnc EXCEPT ![r] = TRUE] /\ status' = status /\ calls' = calls /\ pc' = pc /\ rec' = rec
        /\ Spend("dnc")
    BY <1>1 DEF AddDnc, rowVars, dispatchVars
  <2>2. spent'["elapse"] = spent["elapse"]
    BY <2>1, ElapseUntouched DEF Events
  <2>3. OptedOut' = OptedOut \cup {r} /\ Permitted' = Permitted /\ Stage' = Stage
    BY <2>1 DEF OptedOut, Permitted, Stage, TypeOK, WorldTypes
  <2> QED BY <2>1, <2>2, <2>3 DEF Outreach!OptOut
<1>2. CASE WindowElapses
  <2>1. /\ status' = status /\ calls' = calls /\ pc' = pc /\ rec' = rec /\ dnc' = dnc
        /\ spent' = [spent EXCEPT !["elapse"] = @ + 1]
        /\ \A d \in Dispatchers : pc[d] \notin {"link", "create", "send"}
    BY <1>2 DEF WindowElapses, Spend, rowVars, dispatchVars
  <2>2. spent'["elapse"] = spent["elapse"] + 1
    BY <2>1 DEF TypeOK, Events
  <2>3. Permitted = {} /\ Permitted' = {} /\ Stage' = Stage /\ OptedOut' = OptedOut
    BY <2>1 DEF Permitted, PastGate, Stage, OptedOut
  <2> QED BY <2>1, <2>2, <2>3 DEF Outreach!WindowPasses
<1> QED BY <1>1, <1>2

\* Whoever gives up leaves the permission, and nothing else, behind.
LEMMA GivingUpWithdraws ==
  ASSUME TypeOK, (\E d \in Dispatchers : Throw(d)) \/ Crash, TextsStay, Lapses, OptOutsStay
  PROVE  \E S \in SUBSET Recipients : Outreach!Withdraw(S)
<1>1. Stage' = Stage
  BY DEF Throw, Crash, Stage, rowVars
<1>2. Permitted' \subseteq Permitted /\ Permitted \subseteq Recipients
  BY DEF Permitted, Lapses
<1>3. Permitted' = Permitted \ (Permitted \ Permitted')
  BY <1>2
<1>4. Outreach!Withdraw(Permitted \ Permitted')
  BY <1>1, <1>3 DEF Outreach!Withdraw, TextsStay, OptOutsStay
<1>5. Permitted \ Permitted' \in SUBSET Recipients
  BY <1>2
<1> QED BY <1>4, <1>5

\* Every other step closes whom it closes and is not seen by anybody else.
LEMMA TheRestCloses ==
  ASSUME OnlyCloses, TextsStay, Lapses, Persists, OptOutsStay
  PROVE  \E S \in SUBSET Recipients : Outreach!Close(S)
<1> DEFINE S == {r \in Recipients : Stage'[r] # Stage[r]}
<1>1. Permitted' = Permitted
  BY DEF Permitted, Lapses, Persists
<1>2. \A p \in S : Stage[p] = "open"
  BY DEF OnlyCloses
<1>3. Stage' = [p \in Recipients |-> Stage'[p]]
  BY DEF Stage
<1>4. \A p \in Recipients : Stage'[p] = IF p \in S THEN "closed" ELSE Stage[p]
  BY DEF OnlyCloses
<1>5. Stage' = [p \in Recipients |-> IF p \in S THEN "closed" ELSE Stage[p]]
  BY <1>3, <1>4
<1>6. Outreach!Close(S)
  BY <1>1, <1>2, <1>5 DEF Outreach!Close, TextsStay, OptOutsStay
<1> QED BY <1>6

\* Each step of the campaign is a step of the ledger or leaves it alone.
LEMMA OutreachStep ==
  ASSUME TypeOK, TypeOK', ClaimInv, SendInv, Heard, NoIdIsRead, [Next]_vars
  PROVE  UNCHANGED outreachVars \/ Outreach!OutreachNext
<1> USE DEF Outreach!OutreachNext
<1>1. CASE \E d \in Dispatchers : Gate(d)
  BY <1>1, GatePermits
<1>2. CASE \E d \in Dispatchers : Send(d)
  BY <1>2, SendTexts
<1>3. CASE \E d \in Dispatchers : Finish(d)
  BY <1>3, FinishConfirms
<1>4. CASE \E r \in Recipients : Reply(r)
  BY <1>4, ReplyAnswers
<1>5. CASE (\E r \in Recipients : AddDnc(r)) \/ WindowElapses
  BY <1>5, OthersHappen
<1>6. CASE /\ ~\E d \in Dispatchers : Gate(d) \/ Send(d) \/ Finish(d)
           /\ ~\E r \in Recipients : Reply(r) \/ AddDnc(r)
           /\ ~WindowElapses
  <2>1. OnlyCloses
    BY <1>6, RowsOnlyClose
  <2>2. TextsStay /\ Lapses /\ ((\E d \in Dispatchers : Throw(d)) \/ Crash \/ Persists)
    BY <1>6, SendersLapse
  <2>3. OptOutsStay
    BY <1>6, OptOutsKept
  <2>4. CASE (\E d \in Dispatchers : Throw(d)) \/ Crash
    BY <2>2, <2>3, <2>4, GivingUpWithdraws
  <2>5. CASE Persists
    BY <2>1, <2>2, <2>3, <2>5, TheRestCloses
  <2> QED BY <2>2, <2>4, <2>5
<1> QED BY <1>1, <1>2, <1>3, <1>4, <1>5, <1>6

\* People on a campaign's list get what OutreachLedger promises them, for any loops, errors,
\* crashes, replies and opt-outs: a text on a permission of its own, one in a window, none
\* permitted after an opt-out, and no row that says SENT without one.
THEOREM CampaignImplementsOutreach == Spec => ImplementsOutreach
<1>1. Init => Outreach!OutreachInit
  <2> SUFFICES ASSUME Init PROVE Outreach!OutreachInit
    OBVIOUS
  <2>1. \A r \in Recipients : status[r] \in {"PENDING", "SKIPPED"}
    BY CampaignAssumption DEF Init, Rows
  <2>2. Stage \in [Recipients -> {"open", "closed"}]
    BY <2>1 DEF Stage
  <2>3. Permitted = {} /\ OptedOut = {} /\ spent["elapse"] = 0
    BY DEF Init, Permitted, OptedOut, PastGate, Events
  <2> QED BY <2>2, <2>3 DEF Init, Outreach!OutreachInit
<1>2. Init => Heard /\ NoIdIsRead
  BY DEF Init, Heard, NoIdIsRead
<1>3. TypeOK /\ TypeOK' /\ NoIdWhileSending /\ Heard /\ NoIdIsRead /\ [Next]_vars => (Heard /\ NoIdIsRead)'
  BY HeardStays, ReaperReadsNoId
<1>4. TypeOK /\ TypeOK' /\ ClaimInv /\ SendInv /\ Heard /\ NoIdIsRead /\ [Next]_vars
        => [Outreach!OutreachNext]_<<Stage, Permitted, calls, OptedOut, spent["elapse"]>>
  BY OutreachStep DEF outreachVars
<1> QED BY <1>1, <1>2, <1>3, <1>4, TypeCorrect, ClaimInvariant, SendInvariant, NoIdIsStranded, PTL
        DEF Spec, ImplementsOutreach, Outreach!OutreachSpec
=============================================================================
