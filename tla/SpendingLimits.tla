--------------------------- MODULE SpendingLimits ---------------------------
(***************************************************************************)
(* The two breakers that stop spending: for calls                          *)
(* (voice-usage.service.ts), asked before a call is admitted, and for the  *)
(* texts of campaigns (campaign-dispatch.service.ts), asked before each    *)
(* batch.  What is spent is written after it was spent, and the breakers   *)
(* add up what is written: they look back, and what is under way is not    *)
(* there yet.                                                              *)
(***************************************************************************)
EXTENDS Naturals, FiniteSets

CONSTANTS
  PaidCalls,    \* incoming calls
  LineLimit,    \* maxConcurrentCalls
  CallCost,     \* bound: what a call costs at most
  Preparers,    \* loops that prepare a campaign
  BatchSize,    \* recipients in a batch: 10 in the code
  CallBudgets,  \* budgets an owner may set for the day and for the month, 0 for none
  TextBudgets,  \* the same for texts, which nothing stops without one: the bound of a run
  SpendFaults   \* bound: ends of a period, replies of the AI, failed statements and changes
                \* of the budget, together

ASSUME SpendingAssumption ==
  /\ IsFiniteSet(PaidCalls) /\ {LineLimit, CallCost, BatchSize, SpendFaults} \subseteq Nat
  /\ CallBudgets \subseteq Nat /\ TextBudgets \subseteq Nat \ {0}

VARIABLES
  priced,      \* are the rates of the configuration above 0
  callBudget,  \* voice_settings: dailyBudgetMinor and monthlyBudgetMinor
  textBudget,  \* marketing_settings: dailyAiBudgetMinor and monthlyAiBudgetMinor
  paidCall,        \* each call: "idle", "day" and "month" (being looked at), "open", "ended" or "refused"
  calls,       \* voice_usage_records: the sum of the period
  replies,     \* ai_runs: the sum of the period
  batch,       \* each preparation: [at, left]
  texts,       \* usage_events: the sum of the period
  spent,       \* history: what the texts have really cost in the period
  excused,     \* history: admissions, or batches, have overlapped, or a budget was lowered, or
               \* a sum could not be written
  spendFaults

spendVars == <<priced, callBudget, textBudget, paidCall, calls, replies, batch, texts, spent, excused, spendFaults>>

Periods == {"day", "month"}
Sums == [Periods -> Nat]
Zero == [p \in Periods |-> 0]
Plus(sums, n) == [p \in Periods |-> sums[p] + n]

SpendingTypeOK ==
  /\ priced \in BOOLEAN /\ callBudget \in [Periods -> CallBudgets] /\ textBudget \in [Periods -> TextBudgets]
  /\ paidCall \in [PaidCalls -> {"idle", "day", "month", "open", "ended", "refused"}]
  /\ calls \in Sums /\ replies \in Sums /\ texts \in Sums /\ spent \in Sums
  /\ batch \in [Preparers -> [at : {"idle", "month", "work", "stopped"}, left : 0..BatchSize]]
  /\ excused \subseteq {"calls", "texts"} /\ spendFaults \in 0..SpendFaults

SpendingInit ==
  /\ priced \in BOOLEAN /\ callBudget \in [Periods -> CallBudgets] /\ textBudget \in [Periods -> TextBudgets]
  /\ paidCall = [c \in PaidCalls |-> "idle"] /\ batch = [b \in Preparers |-> [at |-> "idle", left |-> 0]]
  /\ calls = Zero /\ replies = Zero /\ texts = Zero /\ spent = Zero
  /\ excused = {} /\ spendFaults = 0

\* The initial states without a budget for calls, for a composition in which nothing is spent.
SpendingAtRest == priced /\ callBudget = Zero

SpendFault == spendFaults < SpendFaults /\ spendFaults' = spendFaults + 1
settings == <<priced, callBudget, textBudget>>
callSide == <<paidCall, calls, replies>>
textSide == <<batch, texts, spent>>

-----------------------------------------------------------------------------
(* A call *)

Become(c, state) == paidCall' = [paidCall EXCEPT ![c] = state]

\* One more call when the budget is just reached (a slip CallsHold must notice).
ReachedExclusive(p) == callBudget[p] > 0 /\ calls[p] + replies[p] > callBudget[p]

\* Spend of calls and of replies count against one budget.
Reached(p) == callBudget[p] > 0 /\ calls[p] + replies[p] >= callBudget[p]

HasBudget == \E p \in Periods : callBudget[p] > 0

\* The lines are counted, and a budget that cannot be measured refuses everybody.
AdmitCall(c) ==
  /\ paidCall[c] = "idle"
  /\ Become(c, IF Cardinality({o \in PaidCalls : paidCall[o] = "open"}) >= LineLimit
                    \/ (HasBudget /\ ~priced) THEN "refused" ELSE "day")
  /\ excused' = IF \E o \in PaidCalls : paidCall[o] \in {"day", "month"} THEN excused \cup {"calls"} ELSE excused
  /\ UNCHANGED <<settings, calls, replies, textSide, spendFaults>>

CheckDay(c) ==
  /\ paidCall[c] = "day" /\ Become(c, IF Reached("day") THEN "refused" ELSE "month")
  /\ UNCHANGED <<settings, calls, replies, textSide, excused, spendFaults>>

CheckMonth(c) ==
  /\ paidCall[c] = "month" /\ Become(c, IF Reached("month") THEN "refused" ELSE "open")
  /\ UNCHANGED <<settings, calls, replies, textSide, excused, spendFaults>>

\* A call is never cut off for its cost.  What it cost is estimated, at 0 without rates.
RecordCall(c, cost) ==
  /\ paidCall[c] = "open" /\ Become(c, "ended")
  /\ calls' = Plus(calls, IF priced THEN cost ELSE 0)
  /\ UNCHANGED <<settings, replies, textSide, excused, spendFaults>>

RecordFails(c) ==
  /\ paidCall[c] = "open" /\ Become(c, "ended") /\ SpendFault
  /\ UNCHANGED <<settings, calls, replies, textSide, excused>>

\* A reply in a conversation is not asked about.
ReplySpends ==
  /\ SpendFault /\ replies' = Plus(replies, 1)
  /\ UNCHANGED <<settings, paidCall, calls, textSide, excused>>

-----------------------------------------------------------------------------
(* A batch of texts *)

TextsReached(p) == textBudget[p] > 0 /\ texts[p] >= textBudget[p]

StepBatch(b, at, left) == batch' = [batch EXCEPT ![b] = [at |-> at, left |-> left]]

CheckTexts(b) ==
  /\ batch[b].at = "idle"
  /\ IF TextsReached("day") THEN StepBatch(b, "stopped", 0) ELSE StepBatch(b, "month", 0)
  /\ excused' = IF \E o \in Preparers \ {b} : batch[o].at \in {"month", "work"}
                THEN excused \cup {"texts"} ELSE excused
  /\ UNCHANGED <<settings, callSide, texts, spent, spendFaults>>

CheckTextsMonth(b, size) ==
  /\ batch[b].at = "month"
  /\ IF TextsReached("month") THEN StepBatch(b, "stopped", 0) ELSE StepBatch(b, "work", size)
  /\ UNCHANGED <<settings, callSide, texts, spent, excused, spendFaults>>

\* Each text of the batch is paid for and then written; a failure to write is passed over.
SpendText(b, written) ==
  /\ batch[b].at = "work"
  /\ IF batch[b].left > 1 THEN StepBatch(b, "work", batch[b].left - 1) ELSE StepBatch(b, "idle", 0)
  /\ spent' = Plus(spent, 1)
  /\ IF written THEN texts' = Plus(texts, 1) /\ UNCHANGED <<excused, spendFaults>>
     ELSE SpendFault /\ excused' = excused \cup {"texts"} /\ UNCHANGED texts
  /\ UNCHANGED <<settings, callSide>>

-----------------------------------------------------------------------------
(* Time, and the owner *)

DayEnds(month) ==
  /\ SpendFault
  /\ LET ended == IF month THEN Periods ELSE {"day"}
         Rest(sums) == [p \in Periods |-> IF p \in ended THEN 0 ELSE sums[p]]
     IN calls' = Rest(calls) /\ replies' = Rest(replies) /\ texts' = Rest(texts) /\ spent' = Rest(spent)
  /\ UNCHANGED <<settings, paidCall, batch, excused>>

SetBudget(p, n, m) ==
  /\ SpendFault
  /\ callBudget' = [callBudget EXCEPT ![p] = n] /\ textBudget' = [textBudget EXCEPT ![p] = m]
  /\ excused' = {"calls", "texts"}
  /\ UNCHANGED <<priced, callSide, textSide>>

SpendingNext ==
  \/ \E c \in PaidCalls :
       \/ AdmitCall(c) \/ CheckDay(c) \/ CheckMonth(c) \/ RecordFails(c)
       \/ \E cost \in 0..CallCost : RecordCall(c, cost)
  \/ ReplySpends
  \/ \E b \in Preparers :
       \/ CheckTexts(b) \/ (\E size \in 1..BatchSize : CheckTextsMonth(b, size))
       \/ \E written \in BOOLEAN : SpendText(b, written)
  \/ \E month \in BOOLEAN : DayEnds(month)
  \/ \E p \in Periods, n \in CallBudgets, m \in TextBudgets : SetBudget(p, n, m)

SpendingSpec == SpendingInit /\ [][SpendingNext]_spendVars

-----------------------------------------------------------------------------
\* Calls exceed a budget by no more than what the lines cost that may be open at once: no
\* call of a period comes after the one that reached the budget, unless admissions overlapped.
CallOverrunBounded ==
  "calls" \notin excused =>
    \A p \in Periods : callBudget[p] > 0 => calls[p] <= callBudget[p] - 1 + LineLimit * CallCost

\* Texts exceed a budget by no more than a batch, unless batches overlapped or an
\* amount could not be written.
TextOverrunBounded ==
  "texts" \notin excused =>
    \A p \in Periods : textBudget[p] > 0 => spent[p] <= textBudget[p] - 1 + BatchSize

\* A budget is never set where nothing can be priced and calls go on all the same.
PricedOrRefused ==
  "calls" \notin excused /\ HasBudget /\ ~priced => \A c \in PaidCalls : paidCall[c] \in {"idle", "refused"}

SpendingHolds == CallOverrunBounded /\ TextOverrunBounded /\ PricedOrRefused
=============================================================================
