--------------------------- MODULE MessagingProofs --------------------------
(***************************************************************************)
(* Proofs about messages: the queue of what goes out, the hand-off to the  *)
(* support team, the desk that assigns a conversation, the turns of a sale,*)
(* and what an agent sees of the inbox.  Each invariant joins to the       *)
(* properties what they rest on.  What is shown of each part alone holds   *)
(* of it among the others.                                                 *)
(***************************************************************************)
EXTENDS MCMessaging, InboundMessageProofs, FiniteSetTheorems, SequenceTheorems, TLAPS

-----------------------------------------------------------------------------
(* The outgoing queue *)

(* The inductive invariant *)

\* Which handler may be where.
Places ==
  /\ inbox # "done" => job = "none"
  /\ inbox \in {"idle", "SENT", "FAILED", "PENDING"} => row = "none" /\ ~known
  /\ job = "active" <=> worker # "idle"
  /\ job = "none" => ~overtaken
  /\ \A r \in Retriers : retrier[r] # "idle" => row # "none"
  /\ job \in {"none", "waiting", "active"} => attempt < Attempts

\* Whoever is about to write SENT, and a row that holds an id, have a copy to show for it.
Backed ==
  /\ known \/ inbox = "SENT" \/ worker = "mark" => accepted > 0
  /\ row \in {"SENT", "DELIVERED", "READ"} => accepted > 0
  /\ \A r \in Retriers : retrier[r] = "SENT" => accepted > 0

\* The job on its way to a first answer: no worker of it has died, it has neither marked the row
\* nor failed for the last time.
FirstTry ==
  \/ inbox = "ai"
  \/ /\ ~stalled /\ job \in {"waiting", "active"}
     /\ worker # "marked" /\ (worker = "thrown" => attempt < Attempts - 1)

\* Until then nobody else has touched the row.
Untouched ==
  FirstTry => row = "PENDING" /\ ~known /\ ~overtaken /\ Retries = {}

\* Operators whose retry may still be heard, or has not been.
RetriesOpen == {r \in Retriers : retrier[r] \in {"call", "FAILED"}}

Overtaking == IF overtaken THEN 1 ELSE 0

\* Can the worker take the job again, once it is waiting or its worker dies, and send?
SendsAgain == row # "SENT" \/ overtaken

\* The copies whoever sends the message for the first time, or again, may still have accepted.
CopiesOwed ==
  CASE job = "none" -> IF inbox \in {"idle", "ai"} THEN 1 ELSE 0
    [] job = "waiting" -> IF SendsAgain THEN 1 ELSE 0
    [] job = "active" -> IF \/ worker \in {"post", "failing", "thrown"}
                            \/ worker = "marked" /\ ~stalled /\ SendsAgain
                         THEN 1 ELSE 0
    [] OTHER -> 0

\* Every copy, had or to come, has its reason.
CopiesPaid ==
  accepted + Cardinality(RetriesOpen) + CopiesOwed <= 1 + unheard + Cardinality(Retries) + Overtaking

QueueInv == QueueTypeOK /\ Places /\ Backed /\ Untouched /\ CopiesPaid

-----------------------------------------------------------------------------
(* What the invariant says of one step at a time *)

\* Every step keeps the types: only Thrown counts an attempt, of a job that has one left.
LEMMA QueueTypesKept ==
  ASSUME QueueTypeOK, Places, [QueueNext]_queueVars
  PROVE  QueueTypeOK'
<1> USE QueueAssumption DEF QueueTypeOK, messageRow, jobVars, queueHistory, Hears, Refused, Unheard,
     QueueFault
<1>1. CASE SendHuman
  BY <1>1 DEF SendHuman
<1>2. CASE RowHuman
  BY <1>2 DEF RowHuman, RowOf
<1>3. CASE SoftDelete
  BY <1>3 DEF SoftDelete
<1>4. CASE RowAi
  BY <1>4 DEF RowAi
<1>5. CASE EnqueueAi
  BY <1>5 DEF EnqueueAi
<1>6. ASSUME NEW r \in Retriers, RetryRead(r) PROVE QueueTypeOK'
  BY <1>6 DEF RetryRead
<1>7. ASSUME NEW r \in Retriers, RetryCall(r) PROVE QueueTypeOK'
  BY <1>7 DEF RetryCall
<1>8. ASSUME NEW r \in Retriers, RetryWrite(r) PROVE QueueTypeOK'
  BY <1>8 DEF RetryWrite
<1>9. CASE Take
  BY <1>9 DEF Take
<1>10. CASE Post
  BY <1>10 DEF Post
<1>11. CASE MarkSent
  BY <1>11 DEF MarkSent
<1>12. CASE GiveUp
  BY <1>12 DEF GiveUp, GiveUpAt
<1>13. CASE Thrown
  BY <1>13 DEF Thrown, Places
<1>14. CASE Complete
  BY <1>14 DEF Complete
<1>15. CASE MarkFails
  BY <1>15 DEF MarkFails
<1>16. CASE WorkerDies
  <2>1. job' \in {"waiting", "dead"} /\ unheard' \in Nat
    BY <1>16 DEF WorkerDies
  <2>2. stalled' \in BOOLEAN
    BY <1>16 DEF WorkerDies
  <2> QED BY <1>16, <2>1, <2>2 DEF WorkerDies
<1>17. ASSUME NEW s \in {"SENT", "DELIVERED", "READ", "FAILED"}, Report(s) PROVE QueueTypeOK'
  BY <1>17 DEF Report
<1>18. CASE UNCHANGED queueVars
  BY <1>18 DEF queueVars
<1> QED
  BY <1>1, <1>2, <1>3, <1>4, <1>5, <1>6, <1>7, <1>8, <1>9, <1>10, <1>11, <1>12, <1>13, <1>14,
     <1>15, <1>16,
       <1>17, <1>18 DEF QueueNext, WorkerStep

\* Every step leaves each handler where the code can be.
LEMMA PlacesKept ==
  ASSUME QueueTypeOK, Places, [QueueNext]_queueVars
  PROVE  Places'
<1> USE QueueAssumption DEF QueueTypeOK, Places, messageRow, jobVars, queueHistory, Hears, Refused, Unheard,
     QueueFault
<1>1. CASE SendHuman
  BY <1>1 DEF SendHuman
<1>2. CASE RowHuman
  BY <1>2 DEF RowHuman, RowOf
<1>3. CASE SoftDelete
  BY <1>3 DEF SoftDelete
<1>4. CASE RowAi
  BY <1>4 DEF RowAi
<1>5. CASE EnqueueAi
  BY <1>5 DEF EnqueueAi
<1>6. ASSUME NEW r \in Retriers, RetryRead(r) PROVE Places'
  <2>1. row' # "none"
    BY <1>6 DEF RetryRead
  <2>2. UNCHANGED <<messageRow, inbox, jobVars, queueHistory>>
    BY <1>6 DEF RetryRead
  <2> QED BY <2>1, <2>2
<1>7. ASSUME NEW r \in Retriers, RetryCall(r) PROVE Places'
  BY <1>7 DEF RetryCall
<1>8. ASSUME NEW r \in Retriers, RetryWrite(r) PROVE Places'
  BY <1>8 DEF RetryWrite
<1>9. CASE Take
  BY <1>9 DEF Take
<1>10. CASE Post
  BY <1>10 DEF Post
<1>11. CASE MarkSent
  BY <1>11 DEF MarkSent
<1>12. CASE GiveUp
  BY <1>12 DEF GiveUp, GiveUpAt
<1>13. CASE Thrown
  BY <1>13 DEF Thrown
<1>14. CASE Complete
  BY <1>14 DEF Complete
<1>15. CASE MarkFails
  BY <1>15 DEF MarkFails
<1>16. CASE WorkerDies
  BY <1>16 DEF WorkerDies
<1>17. ASSUME NEW s \in {"SENT", "DELIVERED", "READ", "FAILED"}, Report(s) PROVE Places'
  BY <1>17 DEF Report
<1>18. CASE UNCHANGED queueVars
  BY <1>18 DEF queueVars
<1> QED
  BY <1>1, <1>2, <1>3, <1>4, <1>5, <1>6, <1>7, <1>8, <1>9, <1>10, <1>11, <1>12, <1>13, <1>14,
     <1>15, <1>16,
       <1>17, <1>18 DEF QueueNext, WorkerStep

\* A copy accepted is never taken back, and SENT is only written after one.
LEMMA BackedKept ==
  ASSUME QueueTypeOK, Places, Backed, [QueueNext]_queueVars
  PROVE  Backed'
<1> USE QueueAssumption DEF QueueTypeOK, Backed, messageRow, jobVars, queueHistory, Hears, Refused, Unheard,
     QueueFault
<1>1. CASE SendHuman
  BY <1>1 DEF SendHuman
<1>2. CASE RowHuman
  BY <1>2 DEF RowHuman, RowOf
<1>3. CASE SoftDelete
  BY <1>3 DEF SoftDelete
<1>4. CASE RowAi
  BY <1>4 DEF RowAi
<1>5. CASE EnqueueAi
  BY <1>5 DEF EnqueueAi
<1>6. ASSUME NEW r \in Retriers, RetryRead(r) PROVE Backed'
  BY <1>6 DEF RetryRead
<1>7. ASSUME NEW r \in Retriers, RetryCall(r) PROVE Backed'
  BY <1>7 DEF RetryCall
<1>8. ASSUME NEW r \in Retriers, RetryWrite(r) PROVE Backed'
  BY <1>8 DEF RetryWrite
<1>9. CASE Take
  BY <1>9 DEF Take
<1>10. CASE Post
  BY <1>10 DEF Post
<1>11. CASE MarkSent
  BY <1>11 DEF MarkSent
<1>12. CASE GiveUp
  BY <1>12 DEF GiveUp, GiveUpAt
<1>13. CASE Thrown
  BY <1>13 DEF Thrown
<1>14. CASE Complete
  BY <1>14 DEF Complete
<1>15. CASE MarkFails
  BY <1>15 DEF MarkFails
<1>16. CASE WorkerDies
  BY <1>16 DEF WorkerDies
<1>17. ASSUME NEW s \in {"SENT", "DELIVERED", "READ", "FAILED"}, Report(s) PROVE Backed'
  BY <1>17 DEF Report
<1>18. CASE UNCHANGED queueVars
  BY <1>18 DEF queueVars
<1> QED
  BY <1>1, <1>2, <1>3, <1>4, <1>5, <1>6, <1>7, <1>8, <1>9, <1>10, <1>11, <1>12, <1>13, <1>14,
     <1>15, <1>16,
       <1>17, <1>18 DEF QueueNext, WorkerStep

\* Only the worker itself, by marking the row or giving up for good, ends the first try.
LEMMA UntouchedKept ==
  ASSUME QueueTypeOK, Places, Untouched, [QueueNext]_queueVars
  PROVE  Untouched'
<1> USE QueueAssumption DEF QueueTypeOK, Places, Untouched, FirstTry, Retries, messageRow, jobVars,
     queueHistory, Hears, Refused, Unheard, QueueFault
<1>1. CASE SendHuman
  BY <1>1 DEF SendHuman
<1>2. CASE RowHuman
  BY <1>2 DEF RowHuman, RowOf
<1>3. CASE SoftDelete
  BY <1>3 DEF SoftDelete
<1>4. CASE RowAi
  BY <1>4 DEF RowAi
<1>5. CASE EnqueueAi
  BY <1>5 DEF EnqueueAi
<1>6. ASSUME NEW r \in Retriers, RetryRead(r) PROVE Untouched'
  BY <1>6 DEF RetryRead
<1>7. ASSUME NEW r \in Retriers, RetryCall(r) PROVE Untouched'
  BY <1>7 DEF RetryCall
<1>8. ASSUME NEW r \in Retriers, RetryWrite(r) PROVE Untouched'
  BY <1>8 DEF RetryWrite
<1>9. CASE Take
  BY <1>9 DEF Take
<1>10. CASE Post
  BY <1>10 DEF Post
<1>11. CASE MarkSent
  BY <1>11 DEF MarkSent
<1>12. CASE GiveUp
  BY <1>12 DEF GiveUp, GiveUpAt
<1>13. CASE Thrown
  BY <1>13 DEF Thrown
<1>14. CASE Complete
  BY <1>14 DEF Complete
<1>15. CASE MarkFails
  BY <1>15 DEF MarkFails
<1>16. CASE WorkerDies
  BY <1>16 DEF WorkerDies
<1>17. ASSUME NEW s \in {"SENT", "DELIVERED", "READ", "FAILED"}, Report(s) PROVE Untouched'
  BY <1>17 DEF Report
<1>18. CASE UNCHANGED queueVars
  BY <1>18 DEF queueVars
<1> QED
  BY <1>1, <1>2, <1>3, <1>4, <1>5, <1>6, <1>7, <1>8, <1>9, <1>10, <1>11, <1>12, <1>13, <1>14,
     <1>15, <1>16,
       <1>17, <1>18 DEF QueueNext, WorkerStep

\* The operators who retry are finitely many.
LEMMA Sizes ==
  ASSUME QueueTypeOK
  PROVE  /\ IsFiniteSet(Retries) /\ Cardinality(Retries) \in Nat
         /\ IsFiniteSet(RetriesOpen) /\ Cardinality(RetriesOpen) \in Nat
<1>1. Retries \subseteq Retriers /\ RetriesOpen \subseteq Retriers
  BY DEF Retries, RetriesOpen
<1>2. IsFiniteSet(Retries) /\ IsFiniteSet(RetriesOpen)
  BY <1>1, FS_Subset, QueueAssumption
<1> QED BY <1>2, FS_CardinalityType

\* The worker owes one copy at most, and a report explains one.
LEMMA Weights == CopiesOwed \in 0 .. 1 /\ Overtaking \in 0 .. 1
BY DEF CopiesOwed, Overtaking

\* A step that moves no operator counts the same operators.
LEMMA Unmoved ==
  ASSUME UNCHANGED retrier
  PROVE  Retries' = Retries /\ RetriesOpen' = RetriesOpen
BY DEF Retries, RetriesOpen

\* Every copy, had or to come, still has its reason after a step that moves no operator and adds
\* no more to the left of the account than to its right.
LEMMA CopiesBalance ==
  ASSUME QueueTypeOK, CopiesPaid, UNCHANGED retrier, accepted' \in Nat, unheard' \in Nat,
         CopiesOwed' \in 0 .. 1, Overtaking' \in 0 .. 1,
         accepted' + CopiesOwed' + unheard + Overtaking <= accepted + CopiesOwed + unheard' + Overtaking'
  PROVE  CopiesPaid'
<1>1. Cardinality(Retries') = Cardinality(Retries) /\ Cardinality(RetriesOpen') = Cardinality(RetriesOpen)
  BY Unmoved
<1>2. /\ accepted \in Nat /\ unheard \in Nat
      /\ Cardinality(Retries) \in Nat /\ Cardinality(RetriesOpen) \in Nat
  BY Sizes DEF QueueTypeOK
<1>3. CopiesOwed \in 0 .. 1 /\ Overtaking \in 0 .. 1
  BY Weights
<1>4. accepted' + Cardinality(RetriesOpen) + CopiesOwed' <= 1 + unheard' + Cardinality(Retries) + Overtaking'
  BY <1>2 DEF CopiesPaid, CopiesOwed, SendsAgain, Overtaking
<1> QED BY <1>1, <1>4 DEF CopiesPaid

\* One step of each action: what it adds to the copies has its reason, or was owed.
LEMMA CopiesPaidKept ==
  ASSUME QueueTypeOK, Places, Untouched, CopiesPaid, [QueueNext]_queueVars
  PROVE  CopiesPaid'
<1> USE QueueAssumption DEF messageRow, jobVars, queueHistory, Hears, Refused, Unheard, QueueFault
<1>1. CASE SendHuman
  <2>1. UNCHANGED retrier /\ accepted' \in Nat /\ unheard' \in Nat
    BY <1>1 DEF SendHuman, QueueTypeOK
  <2>2. CopiesOwed' \in 0 .. 1 /\ Overtaking' \in 0 .. 1
    BY DEF CopiesOwed, Overtaking
  <2>3. accepted' + CopiesOwed' + unheard + Overtaking <= accepted + CopiesOwed + unheard' + Overtaking'
    BY <1>1 DEF SendHuman, CopiesOwed, SendsAgain, Overtaking, QueueTypeOK, Places
  <2> QED BY <2>1, <2>2, <2>3, CopiesBalance
<1>2. CASE RowHuman
  <2>1. UNCHANGED retrier /\ accepted' \in Nat /\ unheard' \in Nat
    BY <1>2 DEF RowHuman, RowOf, QueueTypeOK
  <2>2. CopiesOwed' \in 0 .. 1 /\ Overtaking' \in 0 .. 1
    BY DEF CopiesOwed, Overtaking
  <2>3. accepted' + CopiesOwed' + unheard + Overtaking <= accepted + CopiesOwed + unheard' + Overtaking'
    BY <1>2 DEF RowHuman, RowOf, CopiesOwed, SendsAgain, Overtaking, QueueTypeOK, Places
  <2> QED BY <2>1, <2>2, <2>3, CopiesBalance
<1>3. CASE SoftDelete
  <2>1. UNCHANGED retrier /\ accepted' \in Nat /\ unheard' \in Nat
    BY <1>3 DEF SoftDelete, QueueTypeOK
  <2>2. CopiesOwed' \in 0 .. 1 /\ Overtaking' \in 0 .. 1
    BY DEF CopiesOwed, Overtaking
  <2>3. accepted' + CopiesOwed' + unheard + Overtaking <= accepted + CopiesOwed + unheard' + Overtaking'
    BY <1>3 DEF SoftDelete, CopiesOwed, SendsAgain, Overtaking, QueueTypeOK, Places
  <2> QED BY <2>1, <2>2, <2>3, CopiesBalance
<1>4. CASE RowAi
  <2>1. UNCHANGED retrier /\ accepted' \in Nat /\ unheard' \in Nat
    BY <1>4 DEF RowAi, QueueTypeOK
  <2>2. CopiesOwed' \in 0 .. 1 /\ Overtaking' \in 0 .. 1
    BY DEF CopiesOwed, Overtaking
  <2>3. accepted' + CopiesOwed' + unheard + Overtaking <= accepted + CopiesOwed + unheard' + Overtaking'
    BY <1>4 DEF RowAi, CopiesOwed, SendsAgain, Overtaking, QueueTypeOK, Places
  <2> QED BY <2>1, <2>2, <2>3, CopiesBalance
<1>5. CASE EnqueueAi
  <2>1. UNCHANGED retrier /\ accepted' \in Nat /\ unheard' \in Nat
    BY <1>5 DEF EnqueueAi, QueueTypeOK
  <2>2. CopiesOwed' \in 0 .. 1 /\ Overtaking' \in 0 .. 1
    BY DEF CopiesOwed, Overtaking
  <2>3. accepted' + CopiesOwed' + unheard + Overtaking <= accepted + CopiesOwed + unheard' + Overtaking'
    BY <1>5 DEF EnqueueAi, CopiesOwed, SendsAgain, Overtaking, QueueTypeOK, Places
  <2> QED BY <2>1, <2>2, <2>3, CopiesBalance
<1>6. ASSUME NEW r \in Retriers, RetryRead(r) PROVE CopiesPaid'
  <2>1. Retries' = Retries \cup {r} /\ r \notin Retries
    BY <1>6 DEF RetryRead, Retries, QueueTypeOK
  <2>2. RetriesOpen' = RetriesOpen \cup {r} /\ r \notin RetriesOpen
    BY <1>6 DEF RetryRead, RetriesOpen, QueueTypeOK
  <2>3. /\ Cardinality(Retries') = Cardinality(Retries) + 1
        /\ Cardinality(RetriesOpen') = Cardinality(RetriesOpen) + 1
    BY <2>1, <2>2, Sizes, FS_AddElement
  <2>4. CopiesOwed' = CopiesOwed /\ Overtaking' = Overtaking /\ UNCHANGED <<accepted, unheard>>
    BY <1>6 DEF RetryRead, CopiesOwed, SendsAgain, Overtaking
  <2> QED BY <2>3, <2>4, Sizes, Weights DEF CopiesPaid, QueueTypeOK
<1>7. ASSUME NEW r \in Retriers, RetryCall(r) PROVE CopiesPaid'
  <2>1. Retries' = Retries
    BY <1>7 DEF RetryCall, Retries, QueueTypeOK
  <2>2. CopiesOwed' = CopiesOwed /\ Overtaking' = Overtaking
    BY <1>7 DEF RetryCall, CopiesOwed, SendsAgain, Overtaking
  <2>3. CASE retrier' = [retrier EXCEPT ![r] = "FAILED"] /\ (Refused \/ Unheard)
    <3>1. RetriesOpen' = RetriesOpen
      BY <1>7, <2>3 DEF RetryCall, RetriesOpen, QueueTypeOK
    <3> QED BY <2>1, <2>2, <2>3, <3>1, Sizes, Weights DEF CopiesPaid, QueueTypeOK
  <2>4. CASE \/ retrier' = [retrier EXCEPT ![r] = "SENT"] /\ Hears
             \/ retrier' = [retrier EXCEPT ![r] = "done"] /\ Refused
    <3>1. RetriesOpen' = RetriesOpen \ {r} /\ r \in RetriesOpen
      BY <1>7, <2>4 DEF RetryCall, RetriesOpen, QueueTypeOK
    <3>2. Cardinality(RetriesOpen') = Cardinality(RetriesOpen) - 1
      BY <3>1, Sizes, FS_RemoveElement
    <3> QED BY <2>1, <2>2, <2>4, <3>2, Sizes, Weights DEF CopiesPaid, QueueTypeOK
  <2> QED BY <1>7, <2>3, <2>4 DEF RetryCall
<1>8. ASSUME NEW r \in Retriers, RetryWrite(r) PROVE CopiesPaid'
  <2>1. Retries' = Retries /\ Overtaking' = Overtaking
    BY <1>8 DEF RetryWrite, Retries, QueueTypeOK, Overtaking
  <2>2. CopiesOwed' \in 0 .. 1
    BY DEF CopiesOwed
  <2>3. CASE retrier[r] = "SENT"
    <3>1. RetriesOpen' = RetriesOpen
      BY <1>8, <2>3 DEF RetryWrite, RetriesOpen, QueueTypeOK
    <3>2. CopiesOwed' <= CopiesOwed
      BY <1>8, <2>3 DEF RetryWrite, CopiesOwed, SendsAgain
    <3> QED BY <1>8, <2>1, <2>2, <3>1, <3>2, Sizes, Weights
            DEF RetryWrite, CopiesPaid, QueueTypeOK
  \* The failure may be written over a SENT, and have the worker send once more.
  <2>4. CASE retrier[r] = "FAILED"
    <3>1. RetriesOpen' = RetriesOpen \ {r} /\ r \in RetriesOpen
      BY <1>8, <2>4 DEF RetryWrite, RetriesOpen, QueueTypeOK
    <3>2. Cardinality(RetriesOpen') = Cardinality(RetriesOpen) - 1
      BY <3>1, Sizes, FS_RemoveElement
    <3> QED BY <1>8, <2>1, <2>2, <3>2, Sizes, Weights DEF RetryWrite, CopiesPaid, QueueTypeOK
  <2> QED BY <1>8, <2>3, <2>4 DEF RetryWrite
<1>9. CASE Take
  <2>1. UNCHANGED retrier /\ accepted' \in Nat /\ unheard' \in Nat
    BY <1>9 DEF Take, QueueTypeOK
  <2>2. CopiesOwed' \in 0 .. 1 /\ Overtaking' \in 0 .. 1
    BY DEF CopiesOwed, Overtaking
  <2>3. accepted' + CopiesOwed' + unheard + Overtaking <= accepted + CopiesOwed + unheard' + Overtaking'
    BY <1>9 DEF Take, CopiesOwed, SendsAgain, Overtaking, QueueTypeOK, Places
  <2> QED BY <2>1, <2>2, <2>3, CopiesBalance
<1>10. CASE Post
  <2>1. UNCHANGED retrier /\ accepted' \in Nat /\ unheard' \in Nat
    BY <1>10 DEF Post, QueueTypeOK
  <2>2. CopiesOwed' \in 0 .. 1 /\ Overtaking' \in 0 .. 1
    BY DEF CopiesOwed, Overtaking
  <2>3. accepted' + CopiesOwed' + unheard + Overtaking <= accepted + CopiesOwed + unheard' + Overtaking'
    BY <1>10 DEF Post, CopiesOwed, SendsAgain, Overtaking, QueueTypeOK, Places
  <2> QED BY <2>1, <2>2, <2>3, CopiesBalance
<1>11. CASE MarkSent
  <2>1. UNCHANGED retrier /\ accepted' \in Nat /\ unheard' \in Nat
    BY <1>11 DEF MarkSent, QueueTypeOK
  <2>2. CopiesOwed' \in 0 .. 1 /\ Overtaking' \in 0 .. 1
    BY DEF CopiesOwed, Overtaking
  <2>3. accepted' + CopiesOwed' + unheard + Overtaking <= accepted + CopiesOwed + unheard' + Overtaking'
    BY <1>11 DEF MarkSent, CopiesOwed, SendsAgain, Overtaking, QueueTypeOK, Places, Untouched, FirstTry
  <2> QED BY <2>1, <2>2, <2>3, CopiesBalance
<1>12. CASE GiveUp
  <2>1. UNCHANGED retrier /\ accepted' \in Nat /\ unheard' \in Nat
    BY <1>12 DEF GiveUp, GiveUpAt, QueueTypeOK
  <2>2. CopiesOwed' \in 0 .. 1 /\ Overtaking' \in 0 .. 1
    BY DEF CopiesOwed, Overtaking
  <2>3. accepted' + CopiesOwed' + unheard + Overtaking <= accepted + CopiesOwed + unheard' + Overtaking'
    BY <1>12 DEF GiveUp, GiveUpAt, CopiesOwed, SendsAgain, Overtaking, QueueTypeOK, Places
  <2> QED BY <2>1, <2>2, <2>3, CopiesBalance
<1>13. CASE Thrown
  <2>1. UNCHANGED retrier /\ accepted' \in Nat /\ unheard' \in Nat
    BY <1>13 DEF Thrown, QueueTypeOK
  <2>2. CopiesOwed' \in 0 .. 1 /\ Overtaking' \in 0 .. 1
    BY DEF CopiesOwed, Overtaking
  <2>3. accepted' + CopiesOwed' + unheard + Overtaking <= accepted + CopiesOwed + unheard' + Overtaking'
    BY <1>13 DEF Thrown, CopiesOwed, SendsAgain, Overtaking, QueueTypeOK, Places
  <2> QED BY <2>1, <2>2, <2>3, CopiesBalance
<1>14. CASE Complete
  <2>1. UNCHANGED retrier /\ accepted' \in Nat /\ unheard' \in Nat
    BY <1>14 DEF Complete, QueueTypeOK
  <2>2. CopiesOwed' \in 0 .. 1 /\ Overtaking' \in 0 .. 1
    BY DEF CopiesOwed, Overtaking
  <2>3. accepted' + CopiesOwed' + unheard + Overtaking <= accepted + CopiesOwed + unheard' + Overtaking'
    BY <1>14 DEF Complete, CopiesOwed, SendsAgain, Overtaking, QueueTypeOK, Places
  <2> QED BY <2>1, <2>2, <2>3, CopiesBalance
<1>15. CASE MarkFails
  <2>1. UNCHANGED retrier /\ accepted' \in Nat /\ unheard' \in Nat
    BY <1>15 DEF MarkFails, QueueTypeOK
  <2>2. CopiesOwed' \in 0 .. 1 /\ Overtaking' \in 0 .. 1
    BY DEF CopiesOwed, Overtaking
  <2>3. accepted' + CopiesOwed' + unheard + Overtaking <= accepted + CopiesOwed + unheard' + Overtaking'
    BY <1>15 DEF MarkFails, CopiesOwed, SendsAgain, Overtaking, QueueTypeOK, Places
  <2> QED BY <2>1, <2>2, <2>3, CopiesBalance
<1>16. CASE WorkerDies
  <2>1. UNCHANGED retrier /\ accepted' \in Nat /\ unheard' \in Nat
    BY <1>16 DEF WorkerDies, QueueTypeOK
  <2>2. CopiesOwed' \in 0 .. 1 /\ Overtaking' \in 0 .. 1
    BY DEF CopiesOwed, Overtaking
  <2>3. accepted' + CopiesOwed' + unheard + Overtaking <= accepted + CopiesOwed + unheard' + Overtaking'
    BY <1>16 DEF WorkerDies, CopiesOwed, SendsAgain, Overtaking, QueueTypeOK, Places
  <2> QED BY <2>1, <2>2, <2>3, CopiesBalance
<1>17. ASSUME NEW s \in {"SENT", "DELIVERED", "READ", "FAILED"}, Report(s) PROVE CopiesPaid'
  <2>1. UNCHANGED retrier /\ accepted' \in Nat /\ unheard' \in Nat
    BY <1>17 DEF Report, QueueTypeOK
  <2>2. CopiesOwed' \in 0 .. 1 /\ Overtaking' \in 0 .. 1
    BY DEF CopiesOwed, Overtaking
  <2>3. UNCHANGED <<accepted, unheard>> /\ accepted \in Nat /\ unheard \in Nat
    BY <1>17 DEF Report, QueueTypeOK
  <2>4. CopiesOwed' + Overtaking <= CopiesOwed + Overtaking'
    <3>1. CASE overtaken \/ s = "SENT" \/ job \notin {"waiting", "active"}
      BY <1>17, <3>1 DEF Report, CopiesOwed, SendsAgain, Overtaking, Places, QueueTypeOK
    <3>2. CASE ~overtaken /\ s # "SENT" /\ job \in {"waiting", "active"}
      <4>1. Overtaking = 0 /\ Overtaking' = 1
        BY <1>17, <3>2 DEF Report, Overtaking
      <4> QED BY <4>1 DEF CopiesOwed, SendsAgain, Overtaking
    <3> QED BY <3>1, <3>2
  <2>5. accepted' + CopiesOwed' + unheard + Overtaking <= accepted + CopiesOwed + unheard' + Overtaking'
    BY <2>3, <2>4 DEF CopiesOwed, SendsAgain, Overtaking
  <2> QED BY <2>1, <2>2, <2>5, CopiesBalance
<1>18. CASE UNCHANGED queueVars
  <2>1. CopiesOwed' = CopiesOwed /\ Overtaking' = Overtaking /\ UNCHANGED <<retrier, accepted, unheard>>
    BY <1>18 DEF queueVars, CopiesOwed, SendsAgain, Overtaking
  <2> QED BY <2>1, Unmoved DEF CopiesPaid
<1> QED
  BY <1>1, <1>2, <1>3, <1>4, <1>5, <1>6, <1>7, <1>8, <1>9, <1>10, <1>11, <1>12, <1>13, <1>14,
     <1>15, <1>16,
       <1>17, <1>18 DEF QueueNext, WorkerStep

\* The invariant holds of every behaviour, fair or not.
LEMMA QueueInvariant == QueueInit /\ [][QueueNext]_queueVars => []QueueInv
<1>1. QueueInit => QueueInv
  <2> SUFFICES ASSUME QueueInit PROVE QueueInv
    OBVIOUS
  <2>1. QueueTypeOK
    <3>1. retrier \in [Retriers -> {"idle", "call", "SENT", "FAILED", "done"}]
      BY DEF QueueInit
    <3>2. attempt \in 0 .. Attempts /\ queueFaults \in 0 .. QueueFaults /\ reported \in 0 .. Reports
      BY QueueAssumption DEF QueueInit
    <3>3. deadLetters \in Nat /\ accepted \in Nat /\ unheard \in Nat
      BY DEF QueueInit
    <3>4. known \in BOOLEAN /\ deleted \in BOOLEAN /\ stalled \in BOOLEAN /\ overtaken \in BOOLEAN
      BY DEF QueueInit
    <3> QED BY <3>1, <3>2, <3>3, <3>4 DEF QueueInit, QueueTypeOK
  <2>2. Places /\ Backed
    BY QueueAssumption DEF QueueInit, Places, Backed
  <2>3. Retries = {} /\ RetriesOpen = {}
    BY DEF QueueInit, Retries, RetriesOpen
  <2>4. Untouched
    BY DEF QueueInit, Untouched, FirstTry
  <2>5. CopiesPaid
    BY <2>3, FS_EmptySet DEF QueueInit, CopiesPaid, CopiesOwed, Overtaking
  <2> QED BY <2>1, <2>2, <2>4, <2>5 DEF QueueInv
<1>2. QueueInv /\ [QueueNext]_queueVars => QueueInv'
  BY QueueTypesKept, PlacesKept, BackedKept, UntouchedKept, CopiesPaidKept DEF QueueInv
<1> QED BY <1>1, <1>2, PTL

-----------------------------------------------------------------------------
(* The results *)

\* The row, its job, the worker and the operators stay where the code can be: a job is tried
\* Attempts times at most.
THEOREM QueueTypeCorrect == QueueSpec => []QueueTypeOK
<1>1. QueueInv => QueueTypeOK
  BY DEF QueueInv
<1> QED BY <1>1, QueueInvariant, PTL DEF QueueSpec

\* The customer gets the message once, whatever the number of attempts, workers that die,
\* operators who retry and reports, except for the copies the worker or the operators could not
\* know of or were asked to send (whatsapp-outgoing.processor.ts, messages.service.ts).
THEOREM CopiesExplained == QueueSpec => []CopiesAreExplained
<1>1. QueueInv => CopiesAreExplained
  <2> SUFFICES ASSUME QueueInv PROVE CopiesAreExplained
    OBVIOUS
  <2>1. Cardinality(Retries) \in Nat /\ Cardinality(RetriesOpen) \in Nat
    BY Sizes DEF QueueInv
  <2>2. accepted \in Nat /\ unheard \in Nat
    BY DEF QueueInv, QueueTypeOK
  <2> QED BY <2>1, <2>2 DEF QueueInv, CopiesPaid, CopiesAreExplained, CopiesOwed, SendsAgain, Overtaking
<1> QED BY <1>1, QueueInvariant, PTL DEF QueueSpec

\* What the row says of the message, in the ledger's words.
Said ==
  CASE row \in {"none", "PENDING"} -> "unsent"
    [] row = "FAILED" -> "failed"
    [] OTHER -> "sent"

\* A step that takes or loses a copy leaves the row alone, and the steps that change what the row
\* says have a copy behind them when they say sent.
LEMMA LedgerStep ==
  ASSUME QueueInv, [QueueNext]_queueVars
  PROVE  \/ accepted' = accepted + 1 /\ Said' = Said
         \/ accepted > 0 /\ Said' = "sent" /\ accepted' = accepted
         \/ Said' = "failed" /\ accepted' = accepted
         \/ Said' = Said /\ accepted' = accepted
<1> USE QueueAssumption DEF messageRow, jobVars, queueHistory, Hears, Refused, Unheard, QueueFault
<1>1. QueueTypeOK /\ QueueTypeOK' /\ Places /\ Backed
  BY QueueTypesKept DEF QueueInv
<1>2. CASE UNCHANGED row /\ (UNCHANGED accepted \/ accepted' = accepted + 1)
  BY <1>2 DEF Said
<1>3. CASE row' = "FAILED" /\ UNCHANGED accepted
  BY <1>3 DEF Said
<1>4. CASE row' \in {"SENT", "DELIVERED", "READ"} /\ accepted > 0 /\ UNCHANGED accepted
  BY <1>1, <1>4 DEF Said
<1>5. CASE row \in {"none", "PENDING"} /\ row' \in {"none", "PENDING"} /\ UNCHANGED accepted
  BY <1>5 DEF Said
<1>6. CASE SendHuman \/ SoftDelete \/ EnqueueAi \/ Take \/ Post \/ Thrown \/ Complete
  BY <1>6, <1>2 DEF SendHuman, SoftDelete, EnqueueAi, Take, Post, Thrown, Complete
<1>7. CASE MarkFails \/ WorkerDies \/ UNCHANGED queueVars
  BY <1>7, <1>2 DEF MarkFails, WorkerDies, queueVars
<1>8. CASE RowHuman \/ RowAi
  BY <1>8, <1>1, <1>3, <1>4, <1>5 DEF RowHuman, RowOf, RowAi, Places, Backed
<1>9. CASE MarkSent \/ GiveUp
  BY <1>9, <1>1, <1>2, <1>3, <1>4 DEF MarkSent, GiveUp, GiveUpAt, Backed
<1>10. ASSUME NEW r \in Retriers, RetryRead(r) \/ RetryCall(r) PROVE UNCHANGED row
  BY <1>10 DEF RetryRead, RetryCall
<1>11. ASSUME NEW r \in Retriers, RetryRead(r) \/ RetryCall(r)
       PROVE UNCHANGED accepted \/ accepted' = accepted + 1
  BY <1>11 DEF RetryRead, RetryCall
<1>12. ASSUME NEW r \in Retriers, RetryWrite(r)
       PROVE /\ UNCHANGED accepted
             /\ row' # "FAILED" => row' \in {"SENT", "DELIVERED", "READ"} /\ accepted > 0
  BY <1>12, <1>1 DEF RetryWrite, Backed
<1>13. ASSUME NEW s \in {"SENT", "DELIVERED", "READ", "FAILED"}, Report(s)
       PROVE /\ UNCHANGED accepted
             /\ row' # "FAILED" => row' \in {"SENT", "DELIVERED", "READ"} /\ accepted > 0
  BY <1>13, <1>1 DEF Report, Backed
<1> QED
  BY <1>2, <1>3, <1>4, <1>6, <1>7, <1>8, <1>9, <1>10, <1>11, <1>12, <1>13 DEF QueueNext, WorkerStep

\* Whoever reads the row of a message may believe it: it says sent only of a message a copy of
\* which was accepted, and never goes back to unsent, with any number of jobs run again, retries
\* and reports.
THEOREM QueueImplementsLedger == QueueSpec => ImplementsLedger
<1>1. QueueInit => Ledger!LedgerInit
  BY DEF QueueInit, Ledger!LedgerInit
<1>2. QueueInv /\ [QueueNext]_queueVars => [Ledger!LedgerNext]_<<Said, accepted>>
  BY LedgerStep DEF Ledger!LedgerNext, Ledger!Accept, Ledger!Confirm, Ledger!Refuse, Said
<1> QED BY <1>1, <1>2, QueueInvariant, PTL DEF QueueSpec, ImplementsLedger, Ledger!LedgerSpec, Said

-----------------------------------------------------------------------------
(* The hand-off to the support team *)

(* The inductive invariant *)

\* A question that is pending, in the row or in a copy somebody has read, is one that was asked.
Asked(m) == Pending(m) => m.asked \in Questions

AskedKnown ==
  /\ Asked(meta) /\ Asked(linker.saw)
  /\ \A q \in Questions : Asked(handoffSaw[q])
  /\ \A r \in Replies :
       /\ Asked(replySaw[r])
       /\ reply[r] = "update" => replySaw[r].asked \in Questions

\* Where an answer is tells whether it has claimed a question.
Standing ==
  \A r \in Replies :
    /\ reply[r] = "learn" => r \in Claimers
    /\ reply[r] \in {"idle", "claim", "update"} => r \notin Claimers
    /\ r \in InboxReplies /\ reply[r] = "store" => r \notin Claimers
    /\ reply[r] = "forward" => r \in PhoneReplies
    /\ r \in PhoneReplies /\ reply[r] \in {"forward", "store", "settle"} => r \in Claimers
    /\ r \in PhoneReplies /\ r \in forwarded => r \in Claimers

\* What is pending has been armed and not yet been claimed.
Unspent == IF Pending(meta) THEN 1 ELSE 0
ArmedPays == Cardinality(Claimers) + Unspent <= armed

EscalationInv == EscalationTypeOK /\ AskedKnown /\ Standing /\ LearntWasClaimed /\ ArmedPays

-----------------------------------------------------------------------------
(* One step at a time *)

\* Every step keeps the types.
LEMMA TypesKept ==
  ASSUME EscalationTypeOK, [EscalationNext]_escVars
  PROVE  EscalationTypeOK'
<1> USE EscalationAssumption DEF EscalationTypeOK, Metadata, Blank, Replies, askVars, replyVars, Hand, Move,
     Disturb, WriteMeta
<1>1. ASSUME NEW q \in Questions, Ask(q) PROVE EscalationTypeOK'
  BY <1>1 DEF Ask
<1>2. ASSUME NEW q \in Questions, HandOff(q) PROVE EscalationTypeOK'
  BY <1>2 DEF HandOff
<1>3. ASSUME NEW q \in Questions, HandOffFails(q) PROVE EscalationTypeOK'
  BY <1>3 DEF HandOffFails
<1>4. ASSUME NEW q \in Questions, MarkRead(q) PROVE EscalationTypeOK'
  BY <1>4 DEF MarkRead
<1>5. ASSUME NEW q \in Questions, MarkWrite(q) PROVE EscalationTypeOK'
  <2>1. [handoffSaw[q] EXCEPT !.asked = q, !.state = "PENDING"] \in Metadata
    BY <1>5 DEF MarkWrite
  <2>2. meta' = [handoffSaw[q] EXCEPT !.asked = q, !.state = "PENDING"] /\ armed' \in Nat
    BY <1>5 DEF MarkWrite
  <2> QED BY <1>5, <2>1, <2>2 DEF MarkWrite
<1>6. ASSUME NEW q \in Questions, Alert(q) PROVE EscalationTypeOK'
  BY <1>6 DEF Alert
<1>7. ASSUME NEW r \in Replies, Find(r) PROVE EscalationTypeOK'
  BY <1>7 DEF Find
<1>8. ASSUME NEW r \in Replies, InboxSend(r) PROVE EscalationTypeOK'
  BY <1>8 DEF InboxSend
<1>9. ASSUME NEW r \in Replies, ClaimRead(r) PROVE EscalationTypeOK'
  BY <1>9 DEF ClaimRead, Unclaimed
<1>10. ASSUME NEW r \in Replies, ClaimUpdate(r) PROVE EscalationTypeOK'
  BY <1>10 DEF ClaimUpdate, Unclaimed
<1>11. ASSUME NEW r \in Replies, Forward(r) PROVE EscalationTypeOK'
  BY <1>11 DEF Forward
<1>12. ASSUME NEW r \in Replies, StoreReply(r) PROVE EscalationTypeOK'
  BY <1>12 DEF StoreReply
<1>13. ASSUME NEW r \in Replies, Learn(r) PROVE EscalationTypeOK'
  BY <1>13 DEF Learn
<1>14. ASSUME NEW r \in Replies, Settle(r) PROVE EscalationTypeOK'
  BY <1>14 DEF Settle
<1>15. CASE LinkRead
  BY <1>15 DEF LinkRead
<1>16. CASE LinkWrite
  <2>1. [linker.saw EXCEPT !.sales = TRUE] \in Metadata
    BY <1>16 DEF LinkWrite
  <2>2. meta' = [linker.saw EXCEPT !.sales = TRUE] /\ armed' \in Nat
    BY <1>16 DEF LinkWrite
  <2> QED BY <1>16, <2>1, <2>2 DEF LinkWrite
<1>17. CASE ResolveConversation
  BY <1>17 DEF ResolveConversation
<1>18. CASE EscalationCrash
  BY <1>18 DEF EscalationCrash
<1>19. CASE UNCHANGED escVars
  BY <1>19 DEF escVars
<1> QED
  BY <1>1, <1>2, <1>3, <1>4, <1>5, <1>6, <1>7, <1>8, <1>9, <1>10, <1>11, <1>12, <1>13, <1>14,
     <1>15, <1>16,
       <1>17, <1>18, <1>19 DEF EscalationNext

\* Copies are of the metadata as it was, and a question is marked by its own turn.
LEMMA AskedKept ==
  ASSUME EscalationTypeOK, AskedKnown, [EscalationNext]_escVars
  PROVE  AskedKnown'
<1> USE EscalationAssumption DEF EscalationTypeOK, Metadata, Blank, Replies, askVars, replyVars, Hand, Move,
     WriteMeta, AskedKnown, Asked, Pending
<1>1. ASSUME NEW q \in Questions, Ask(q) PROVE AskedKnown'
  BY <1>1 DEF Ask
<1>2. ASSUME NEW q \in Questions, HandOff(q) PROVE AskedKnown'
  BY <1>2 DEF HandOff
<1>3. ASSUME NEW q \in Questions, HandOffFails(q) PROVE AskedKnown'
  BY <1>3 DEF HandOffFails
<1>4. ASSUME NEW q \in Questions, MarkRead(q) PROVE AskedKnown'
  BY <1>4 DEF MarkRead
<1>5. ASSUME NEW q \in Questions, MarkWrite(q) PROVE AskedKnown'
  BY <1>5 DEF MarkWrite
<1>6. ASSUME NEW q \in Questions, Alert(q) PROVE AskedKnown'
  BY <1>6 DEF Alert
<1>7. ASSUME NEW r \in Replies, Find(r) PROVE AskedKnown'
  BY <1>7 DEF Find
<1>8. ASSUME NEW r \in Replies, InboxSend(r) PROVE AskedKnown'
  BY <1>8 DEF InboxSend
<1>9. ASSUME NEW r \in Replies, ClaimRead(r) PROVE AskedKnown'
  BY <1>9 DEF ClaimRead, Unclaimed
<1>10. ASSUME NEW r \in Replies, ClaimUpdate(r) PROVE AskedKnown'
  BY <1>10 DEF ClaimUpdate, Unclaimed
<1>11. ASSUME NEW r \in Replies, Forward(r) PROVE AskedKnown'
  BY <1>11 DEF Forward
<1>12. ASSUME NEW r \in Replies, StoreReply(r) PROVE AskedKnown'
  BY <1>12 DEF StoreReply
<1>13. ASSUME NEW r \in Replies, Learn(r) PROVE AskedKnown'
  BY <1>13 DEF Learn
<1>14. ASSUME NEW r \in Replies, Settle(r) PROVE AskedKnown'
  BY <1>14 DEF Settle
<1>15. CASE LinkRead
  BY <1>15 DEF LinkRead
<1>16. CASE LinkWrite
  BY <1>16 DEF LinkWrite
<1>17. CASE ResolveConversation
  BY <1>17 DEF ResolveConversation
<1>18. CASE EscalationCrash
  BY <1>18 DEF EscalationCrash
<1>19. CASE UNCHANGED escVars
  BY <1>19 DEF escVars
<1> QED
  BY <1>1, <1>2, <1>3, <1>4, <1>5, <1>6, <1>7, <1>8, <1>9, <1>10, <1>11, <1>12, <1>13, <1>14,
     <1>15, <1>16,
       <1>17, <1>18, <1>19 DEF EscalationNext

\* An answer claims on its way from update, once.
LEMMA StandingKept ==
  ASSUME EscalationTypeOK, AskedKnown, Standing, [EscalationNext]_escVars
  PROVE  Standing'
<1> USE EscalationAssumption DEF EscalationTypeOK, Replies, askVars, replyVars, Hand, Move, Standing, Claimers
<1>1. ASSUME NEW q \in Questions, Ask(q) PROVE Standing'
  BY <1>1 DEF Ask
<1>2. ASSUME NEW q \in Questions, HandOff(q) PROVE Standing'
  BY <1>2 DEF HandOff
<1>3. ASSUME NEW q \in Questions, HandOffFails(q) PROVE Standing'
  BY <1>3 DEF HandOffFails
<1>4. ASSUME NEW q \in Questions, MarkRead(q) PROVE Standing'
  BY <1>4 DEF MarkRead
<1>5. ASSUME NEW q \in Questions, MarkWrite(q) PROVE Standing'
  BY <1>5 DEF MarkWrite
<1>6. ASSUME NEW q \in Questions, Alert(q) PROVE Standing'
  BY <1>6 DEF Alert
<1>7. ASSUME NEW r \in Replies, Find(r) PROVE Standing'
  BY <1>7 DEF Find
<1>8. ASSUME NEW r \in Replies, InboxSend(r) PROVE Standing'
  BY <1>8 DEF InboxSend
<1>9. ASSUME NEW r \in Replies, ClaimRead(r) PROVE Standing'
  BY <1>9 DEF ClaimRead, Unclaimed
<1>10. ASSUME NEW r \in Replies, ClaimUpdate(r) PROVE Standing'
  <2>1. claims' = claims \/ claims' = [claims EXCEPT ![r] = replySaw[r].asked]
    BY <1>10 DEF ClaimUpdate
  <2>2. CASE ~Pending(meta)
    BY <1>10, <2>2 DEF ClaimUpdate, Unclaimed
  <2>3. CASE Pending(meta)
    <3>1. claims'[r] \in Questions
      <4>1. reply[r] = "update" /\ claims' = [claims EXCEPT ![r] = replySaw[r].asked]
        BY <1>10, <2>3 DEF ClaimUpdate
      <4>2. replySaw[r].asked \in Questions
        BY <4>1 DEF AskedKnown, Asked, Pending
      <4> QED BY <4>1, <4>2
    <3>2. \A x \in Replies \ {r} : claims'[x] = claims[x] /\ reply'[x] = reply[x]
      BY <1>10, <2>3 DEF ClaimUpdate
    <3>3. reply'[r] = (IF r \in PhoneReplies THEN "forward" ELSE "learn") /\ UNCHANGED forwarded
      BY <1>10, <2>3 DEF ClaimUpdate
    <3> QED BY <3>1, <3>2, <3>3
  <2> QED BY <2>2, <2>3
<1>11. ASSUME NEW r \in Replies, Forward(r) PROVE Standing'
  BY <1>11 DEF Forward
<1>12. ASSUME NEW r \in Replies, StoreReply(r) PROVE Standing'
  BY <1>12 DEF StoreReply
<1>13. ASSUME NEW r \in Replies, Learn(r) PROVE Standing'
  BY <1>13 DEF Learn
<1>14. ASSUME NEW r \in Replies, Settle(r) PROVE Standing'
  BY <1>14 DEF Settle
<1>15. CASE LinkRead
  BY <1>15 DEF LinkRead
<1>16. CASE LinkWrite
  BY <1>16 DEF LinkWrite
<1>17. CASE ResolveConversation
  BY <1>17 DEF ResolveConversation
<1>18. CASE EscalationCrash
  BY <1>18 DEF EscalationCrash
<1>19. CASE UNCHANGED escVars
  BY <1>19 DEF escVars
<1> QED
  BY <1>1, <1>2, <1>3, <1>4, <1>5, <1>6, <1>7, <1>8, <1>9, <1>10, <1>11, <1>12, <1>13, <1>14,
     <1>15, <1>16,
       <1>17, <1>18, <1>19 DEF EscalationNext

\* Only an answer that has claimed a question is learnt from, and it claims no other.
LEMMA LearntKept ==
  ASSUME EscalationTypeOK, Standing, LearntWasClaimed, [EscalationNext]_escVars
  PROVE  LearntWasClaimed'
<1> USE EscalationAssumption DEF EscalationTypeOK, Replies, askVars, replyVars, Hand, Move, LearntWasClaimed
<1>1. ASSUME NEW q \in Questions, Ask(q) PROVE LearntWasClaimed'
  BY <1>1 DEF Ask
<1>2. ASSUME NEW q \in Questions, HandOff(q) PROVE LearntWasClaimed'
  BY <1>2 DEF HandOff
<1>3. ASSUME NEW q \in Questions, HandOffFails(q) PROVE LearntWasClaimed'
  BY <1>3 DEF HandOffFails
<1>4. ASSUME NEW q \in Questions, MarkRead(q) PROVE LearntWasClaimed'
  BY <1>4 DEF MarkRead
<1>5. ASSUME NEW q \in Questions, MarkWrite(q) PROVE LearntWasClaimed'
  BY <1>5 DEF MarkWrite
<1>6. ASSUME NEW q \in Questions, Alert(q) PROVE LearntWasClaimed'
  BY <1>6 DEF Alert
<1>7. ASSUME NEW r \in Replies, Find(r) PROVE LearntWasClaimed'
  BY <1>7 DEF Find
<1>8. ASSUME NEW r \in Replies, InboxSend(r) PROVE LearntWasClaimed'
  BY <1>8 DEF InboxSend
<1>9. ASSUME NEW r \in Replies, ClaimRead(r) PROVE LearntWasClaimed'
  BY <1>9 DEF ClaimRead, Unclaimed
<1>10. ASSUME NEW r \in Replies, ClaimUpdate(r) PROVE LearntWasClaimed'
  <2>1. r \notin Claimers /\ UNCHANGED faq
    BY <1>10 DEF ClaimUpdate, Standing
  <2>2. \A x \in Replies \ {r} : claims'[x] = claims[x]
    BY <1>10 DEF ClaimUpdate
  <2>3. \A f \in faq : f.answer \in Replies /\ f.answer \notin {r}
    BY <2>1 DEF Claimers
  <2> QED BY <2>1, <2>2, <2>3
<1>11. ASSUME NEW r \in Replies, Forward(r) PROVE LearntWasClaimed'
  BY <1>11 DEF Forward
<1>12. ASSUME NEW r \in Replies, StoreReply(r) PROVE LearntWasClaimed'
  BY <1>12 DEF StoreReply
<1>13. ASSUME NEW r \in Replies, Learn(r) PROVE LearntWasClaimed'
  <2>1. claims[r] \in Questions
    BY <1>13 DEF Learn, Standing, Claimers
  <2>2. UNCHANGED claims
    BY <1>13 DEF Learn
  <2>3. \A f \in faq' : f \in faq \/ f = [question |-> claims[r], answer |-> r]
    BY <1>13 DEF Learn
  <2> QED BY <2>1, <2>2, <2>3
<1>14. ASSUME NEW r \in Replies, Settle(r) PROVE LearntWasClaimed'
  BY <1>14 DEF Settle
<1>15. CASE LinkRead
  BY <1>15 DEF LinkRead
<1>16. CASE LinkWrite
  BY <1>16 DEF LinkWrite
<1>17. CASE ResolveConversation
  BY <1>17 DEF ResolveConversation
<1>18. CASE EscalationCrash
  BY <1>18 DEF EscalationCrash
<1>19. CASE UNCHANGED escVars
  BY <1>19 DEF escVars
<1> QED
  BY <1>1, <1>2, <1>3, <1>4, <1>5, <1>6, <1>7, <1>8, <1>9, <1>10, <1>11, <1>12, <1>13, <1>14,
     <1>15, <1>16,
       <1>17, <1>18, <1>19 DEF EscalationNext

\* The claimers are finitely many.
LEMMA Counted == IsFiniteSet(Claimers) /\ Cardinality(Claimers) \in Nat
<1>1. IsFiniteSet(Claimers)
  BY FS_Subset, EscalationAssumption DEF Claimers
<1> QED BY <1>1, FS_CardinalityType

\* Steps that write neither the metadata nor a claim owe nothing.
LEMMA Unarmed ==
  ASSUME ArmedPays, UNCHANGED <<meta, armed, claims>>
  PROVE  ArmedPays'
<1>1. Claimers' = Claimers
  BY DEF Claimers
<1> QED BY <1>1 DEF ArmedPays, Unspent

\* Whoever writes the metadata with a pending question arms it, unless it was armed already.
LEMMA Rearmed ==
  ASSUME EscalationTypeOK, ArmedPays, UNCHANGED claims, NEW m, NEW marking \in BOOLEAN,
         WriteMeta(m, marking)
  PROVE  ArmedPays'
<1>1. Claimers' = Claimers
  BY DEF Claimers
<1>2. armed \in Nat
  BY DEF EscalationTypeOK
<1> QED BY <1>1, <1>2, Counted DEF ArmedPays, Unspent, WriteMeta

\* A claim spends what a mark, or a stale copy, has armed.
LEMMA ArmedKept ==
  ASSUME EscalationTypeOK, AskedKnown, Standing, ArmedPays, [EscalationNext]_escVars
  PROVE  ArmedPays'
<1> USE EscalationAssumption DEF askVars
<1>1. ASSUME NEW q \in Questions, Ask(q) PROVE ArmedPays'
  <2>1. UNCHANGED <<meta, armed, claims>>
    BY <1>1 DEF Ask, replyVars
  <2> QED BY <2>1, Unarmed
<1>2. ASSUME NEW q \in Questions, HandOff(q) PROVE ArmedPays'
  <2>1. UNCHANGED <<meta, armed, claims>>
    BY <1>2 DEF HandOff, replyVars
  <2> QED BY <2>1, Unarmed
<1>3. ASSUME NEW q \in Questions, HandOffFails(q) PROVE ArmedPays'
  <2>1. UNCHANGED <<meta, armed, claims>>
    BY <1>3 DEF HandOffFails, replyVars
  <2> QED BY <2>1, Unarmed
<1>4. ASSUME NEW q \in Questions, MarkRead(q) PROVE ArmedPays'
  <2>1. UNCHANGED <<meta, armed, claims>>
    BY <1>4 DEF MarkRead, replyVars
  <2> QED BY <2>1, Unarmed
<1>5. ASSUME NEW q \in Questions, MarkWrite(q) PROVE ArmedPays'
  BY <1>5, Rearmed DEF MarkWrite, replyVars
<1>6. ASSUME NEW q \in Questions, Alert(q) PROVE ArmedPays'
  <2>1. UNCHANGED <<meta, armed, claims>>
    BY <1>6 DEF Alert, replyVars
  <2> QED BY <2>1, Unarmed
<1>7. ASSUME NEW r \in Replies, Find(r) PROVE ArmedPays'
  <2>1. UNCHANGED <<meta, armed, claims>>
    BY <1>7 DEF Find, replyVars
  <2> QED BY <2>1, Unarmed
<1>8. ASSUME NEW r \in Replies, InboxSend(r) PROVE ArmedPays'
  <2>1. UNCHANGED <<meta, armed, claims>>
    BY <1>8 DEF InboxSend, replyVars
  <2> QED BY <2>1, Unarmed
<1>9. ASSUME NEW r \in Replies, ClaimRead(r) PROVE ArmedPays'
  <2>1. UNCHANGED <<meta, armed, claims>>
    BY <1>9 DEF ClaimRead, replyVars
  <2> QED BY <2>1, Unarmed
<1>10. ASSUME NEW r \in Replies, ClaimUpdate(r) PROVE ArmedPays'
  <2>1. CASE ~Pending(meta)
    <3>1. UNCHANGED <<meta, armed, claims>>
      BY <1>10, <2>1 DEF ClaimUpdate
    <3> QED BY <3>1, Unarmed
  <2>2. CASE Pending(meta)
    <3>1. reply[r] = "update" /\ claims' = [claims EXCEPT ![r] = replySaw[r].asked]
      BY <1>10, <2>2 DEF ClaimUpdate, Move
    <3>2. replySaw[r].asked \in Questions
      BY <3>1 DEF AskedKnown, Asked, Pending
    <3>3. Claimers' = Claimers \cup {r} /\ r \notin Claimers
      BY <3>1, <3>2 DEF Claimers, Standing, EscalationTypeOK
    <3>4. Cardinality(Claimers') = Cardinality(Claimers) + 1
      BY <3>3, Counted, FS_AddElement
    <3>5. meta'.state = "ANSWERED" /\ armed' = armed
      BY <1>10, <2>2 DEF ClaimUpdate, WriteMeta, Pending, EscalationTypeOK, Metadata
    <3>6. Unspent = 1 /\ Unspent' = 0
      BY <2>2, <3>5 DEF Unspent, Pending
    <3> QED BY <3>4, <3>5, <3>6, Counted DEF ArmedPays, EscalationTypeOK
  <2> QED BY <2>1, <2>2
<1>11. ASSUME NEW r \in Replies, Forward(r) PROVE ArmedPays'
  <2>1. UNCHANGED <<meta, armed, claims>>
    BY <1>11 DEF Forward, replyVars
  <2> QED BY <2>1, Unarmed
<1>12. ASSUME NEW r \in Replies, StoreReply(r) PROVE ArmedPays'
  <2>1. UNCHANGED <<meta, armed, claims>>
    BY <1>12 DEF StoreReply, replyVars
  <2> QED BY <2>1, Unarmed
<1>13. ASSUME NEW r \in Replies, Learn(r) PROVE ArmedPays'
  <2>1. UNCHANGED <<meta, armed, claims>>
    BY <1>13 DEF Learn, replyVars
  <2> QED BY <2>1, Unarmed
<1>14. ASSUME NEW r \in Replies, Settle(r) PROVE ArmedPays'
  <2>1. UNCHANGED <<meta, armed, claims>>
    BY <1>14 DEF Settle, replyVars
  <2> QED BY <2>1, Unarmed
<1>15. CASE LinkRead
  <2>1. UNCHANGED <<meta, armed, claims>>
    BY <1>15 DEF LinkRead, replyVars
  <2> QED BY <2>1, Unarmed
<1>16. CASE LinkWrite
  BY <1>16, Rearmed DEF LinkWrite, replyVars
<1>17. CASE ResolveConversation
  <2>1. UNCHANGED <<meta, armed, claims>>
    BY <1>17 DEF ResolveConversation, replyVars
  <2> QED BY <2>1, Unarmed
<1>18. CASE EscalationCrash
  <2>1. UNCHANGED <<meta, armed, claims>>
    BY <1>18 DEF EscalationCrash, replyVars
  <2> QED BY <2>1, Unarmed
<1>19. CASE UNCHANGED escVars
  <2>1. UNCHANGED <<meta, armed, claims>>
    BY <1>19 DEF escVars, replyVars
  <2> QED BY <2>1, Unarmed
<1> QED
  BY <1>1, <1>2, <1>3, <1>4, <1>5, <1>6, <1>7, <1>8, <1>9, <1>10, <1>11, <1>12, <1>13, <1>14,
     <1>15, <1>16,
       <1>17, <1>18, <1>19 DEF EscalationNext

\* The invariant holds of every behaviour.
LEMMA EscalationInvariant == EscalationSpec => []EscalationInv
<1>1. EscalationInit => EscalationInv
  <2> SUFFICES ASSUME EscalationInit PROVE EscalationInv
    OBVIOUS
  <2>1. EscalationTypeOK
    <3>1. Blank \in Metadata
      BY DEF Blank, Metadata
    <3>2. linker \in [at : {"idle", "linking", "done"}, saw : Metadata]
      BY <3>1 DEF EscalationInit
    <3>3. armed \in Nat /\ disturbed \in 0 .. Disturbances
      BY EscalationAssumption DEF EscalationInit
    <3> QED BY <3>1, <3>2, <3>3 DEF EscalationInit, EscalationTypeOK
  <2>2. Claimers = {}
    BY DEF EscalationInit, Claimers
  <2>3. AskedKnown /\ LearntWasClaimed
    BY DEF EscalationInit, AskedKnown, Asked, Pending, Blank, LearntWasClaimed
  <2>4. Standing
    BY <2>2 DEF EscalationInit, Standing
  <2>5. ArmedPays
    BY <2>2, FS_EmptySet DEF EscalationInit, ArmedPays, Unspent, Pending, Blank
  <2> QED BY <2>1, <2>3, <2>4, <2>5 DEF EscalationInv
<1>2. EscalationInv /\ [EscalationNext]_escVars => EscalationInv'
  BY TypesKept, AskedKept, StandingKept, LearntKept, ArmedKept DEF EscalationInv
<1> QED BY <1>1, <1>2, PTL DEF EscalationSpec

-----------------------------------------------------------------------------
(* The results *)

\* SaleTurns, answers, copies of the metadata and what is learnt stay where the code can be.
THEOREM EscalationTypeCorrect == EscalationSpec => []EscalationTypeOK
<1>1. EscalationInv => EscalationTypeOK
  BY DEF EscalationInv
<1> QED BY <1>1, EscalationInvariant, PTL

\* With any number of questions, supporters and handlers that die, only an answer that has claimed
\* an escalation is relayed to the customer or learnt from, and there are no more claims than
\* escalations armed (claimPendingSupportEscalation, handleSupportReply, learnFromSupportReply).
THEOREM RelaysArmed == EscalationSpec => []RelaysAreArmed
<1>1. EscalationInv => RelaysAreArmed
  <2> SUFFICES ASSUME EscalationInv PROVE RelaysAreArmed
    OBVIOUS
  <2>1. Relayed \subseteq Claimers
    BY DEF EscalationInv, Standing, Relayed, Replies
  <2>2. Cardinality(Claimers) <= armed
    BY Counted DEF EscalationInv, EscalationTypeOK, ArmedPays, Unspent
  <2> QED BY <2>1, <2>2 DEF EscalationInv, RelaysAreArmed
<1> QED BY <1>1, EscalationInvariant, PTL

-----------------------------------------------------------------------------
(* The desk *)

\* The requests a desk takes.
LEMMA KindsAre ==
  /\ DOMAIN NewStatus = {"resolve", "snooze", "unsnooze", "reopen", "block", "update"}
  /\ DOMAIN BulkSteps = {"bulkAssign", "bulkClose", "bulkSnooze", "bulkTag"}
  /\ Singles = {"resolve", "snooze", "unsnooze", "reopen", "block", "update",
                "assign", "addTag", "removeTag", "watch", "unwatch", "addNote"}
<1>1. DOMAIN NewStatus = {"resolve", "snooze", "unsnooze", "reopen", "block", "update"}
  BY DEF NewStatus
<1>2. DOMAIN BulkSteps = {"bulkAssign", "bulkClose", "bulkSnooze", "bulkTag"}
  BY DEF BulkSteps
<1> QED BY <1>1, <1>2 DEF Singles

\* The statements of a request, in their order.
LEMMA StepsAre ==
  /\ \A kind \in {"resolve", "snooze", "unsnooze", "reopen", "block", "update"} : StepsFor(kind) = <<"write">>
  /\ StepsFor("assign") = <<"member", "owned", "record", "write">>
  /\ StepsFor("bulkAssign") = <<"narrow", "member", "write", "record">>
  /\ StepsFor("bulkClose") = <<"narrow", "write">>
  /\ StepsFor("bulkSnooze") = <<"narrow", "write">>
  /\ StepsFor("bulkTag") = <<"narrow", "look", "tag">>
  /\ StepsFor("merge") = <<"owned", "ownedToo", "write", "mark", "markToo">>
  /\ StepsFor("addTag") = <<"owned", "tag">>
  /\ StepsFor("removeTag") = <<"owned", "untag">>
  /\ StepsFor("watch") = <<"owned", "member", "look", "follow">>
  /\ StepsFor("unwatch") = <<"owned", "unfollow">>
  /\ StepsFor("addNote") = <<"owned", "member", "note">>
<1> USE KindsAre DEF StepsFor
<1>1. \A kind \in {"resolve", "snooze", "unsnooze", "reopen", "block", "update"} : StepsFor(kind) = <<"write">>
  OBVIOUS
<1>2. StepsFor("assign") = <<"member", "owned", "record", "write">>
  BY DEF AssignSteps
<1>3. StepsFor("bulkAssign") = <<"narrow", "member", "write", "record">>
  BY DEF BulkSteps
<1>4. StepsFor("bulkClose") = <<"narrow", "write">>
  BY DEF BulkSteps
<1>5. StepsFor("bulkSnooze") = <<"narrow", "write">>
  BY DEF BulkSteps
<1>6. StepsFor("bulkTag") = <<"narrow", "look", "tag">>
  BY DEF BulkSteps
<1>7. StepsFor("merge") = <<"owned", "ownedToo", "write", "mark", "markToo">>
  OBVIOUS
<1>8. StepsFor("addTag") = <<"owned", "tag">> /\ StepsFor("removeTag") = <<"owned", "untag">>
  OBVIOUS
<1>9. StepsFor("watch") = <<"owned", "member", "look", "follow">> /\ StepsFor("unwatch") = <<"owned", "unfollow">>
  OBVIOUS
<1>10. StepsFor("addNote") = <<"owned", "member", "note">>
  OBVIOUS
<1> QED BY <1>1, <1>2, <1>3, <1>4, <1>5, <1>6, <1>7, <1>8, <1>9, <1>10

\* A step is at a place of its request's list.
LEMMA StepsPlaced ==
  ASSUME NEW kind \in DeskKinds
  PROVE  /\ Len(StepsFor(kind)) \in 1..5
         /\ \A i \in 1..Len(StepsFor(kind)) :
              /\ StepsFor(kind)[i] = "record" => (kind = "assign" /\ i = 3) \/ (kind = "bulkAssign" /\ i = 4)
              /\ StepsFor(kind)[i] = "write" =>
                   /\ kind = "assign" => i = 4
                   /\ kind = "bulkAssign" => i = 3
              /\ StepsFor(kind)[i] = "narrow" => i = 1 /\ kind # "assign" /\ i < Len(StepsFor(kind))
<1>1. CASE kind \in {"resolve", "snooze", "unsnooze", "reopen", "block", "update"}
  BY <1>1, StepsAre
<1>2. CASE kind = "assign"
  <2> DEFINE s == <<"member", "owned", "record", "write">>
  <2>1. StepsFor(kind) = s /\ Len(s) = 4
    BY <1>2, StepsAre
  <2>2. \A i \in 1..4 : i = 1 \/ i = 2 \/ i = 3 \/ i = 4
    OBVIOUS
  <2>3. s[1] = "member" /\ s[2] = "owned" /\ s[3] = "record" /\ s[4] = "write"
    OBVIOUS
  <2> HIDE DEF s
  <2> QED BY <1>2, <2>1, <2>2, <2>3
<1>3. CASE kind = "bulkAssign"
  <2> DEFINE s == <<"narrow", "member", "write", "record">>
  <2>1. StepsFor(kind) = s /\ Len(s) = 4
    BY <1>3, StepsAre
  <2>2. \A i \in 1..4 : i = 1 \/ i = 2 \/ i = 3 \/ i = 4
    OBVIOUS
  <2>3. s[1] = "narrow" /\ s[2] = "member" /\ s[3] = "write" /\ s[4] = "record"
    OBVIOUS
  <2> HIDE DEF s
  <2> QED BY <1>3, <2>1, <2>2, <2>3
<1>4. CASE kind \in {"bulkClose", "bulkSnooze", "bulkTag"}
  BY <1>4, StepsAre
<1>5. CASE kind = "merge"
  BY <1>5, StepsAre
<1>6. CASE kind \in {"addTag", "removeTag", "watch", "unwatch", "addNote"}
  BY <1>6, StepsAre
<1> QED BY <1>1, <1>2, <1>3, <1>4, <1>5, <1>6, KindsAre DEF DeskKinds

-----------------------------------------------------------------------------
DeskStates == [kind : DeskKinds \cup {"none", "done"}, at : 1 .. 5, on : SUBSET Convs,
               who : SUBSET Members, saw : SUBSET Convs]

\* A request that has written and is about to record, or has recorded and is about to write.
Writes(d) == d.kind = "assign" /\ d.at = 4
DeskRecorded(d) == d.kind = "bulkAssign" /\ d.at = 4

DeskPlaced(d) == d.kind \in DeskKinds => d.at \in 1..Len(StepsFor(d.kind)) /\ d.on # {}

\* What an assignment is about to write is on record, unless the conversation is gone.
RecordedFirst(d) == Writes(d) => \A c \in d.on, m \in d.who : conv[c].there => <<c, m>> \in history

\* Who is assigned is on record, or a bulk assignment of that member is about to say so.
Known(c, m) ==
  \/ <<c, m>> \in history
  \/ c \in halfDone
  \/ \E r \in DeskRequests : DeskRecorded(desk[r]) /\ c \in desk[r].on /\ m \in desk[r].who

DeskInv ==
  /\ DeskTypeOK
  /\ \A r \in DeskRequests : DeskPlaced(desk[r]) /\ RecordedFirst(desk[r])
  /\ \A c \in Convs : \A m \in conv[c].assigned : conv[c].there /\ Known(c, m)

\* The statement a request is at.
LEMMA StepPlaced ==
  ASSUME DeskInv, NEW r \in DeskRequests, NEW step, AtDesk(r, step)
  PROVE  /\ desk[r] \in DeskStates /\ desk[r].kind \in DeskKinds
         /\ desk[r].at \in 1..Len(StepsFor(desk[r].kind)) /\ Len(StepsFor(desk[r].kind)) \in 1..5
         /\ desk[r].on # {} /\ StepsFor(desk[r].kind)[desk[r].at] = step
<1>1. desk[r] \in DeskStates
  BY DEF DeskInv, DeskTypeOK, DeskStates
<1>2. desk[r].kind \in DeskKinds
  BY <1>1 DEF AtDesk, DeskStates
<1> QED BY <1>1, <1>2, StepsPlaced DEF DeskInv, DeskPlaced, AtDesk

\* Another step is none of these.
LEMMA PlainStep ==
  ASSUME DeskInv, NEW r \in DeskRequests, NEW step, AtDesk(r, step), step \notin {"record", "write"}
  PROVE  desk[r].kind \in {"assign", "bulkAssign"} => desk[r].at \notin {3, 4}
<1> SUFFICES ASSUME desk[r].kind \in {"assign", "bulkAssign"}, desk[r].at \in {3, 4} PROVE FALSE
  OBVIOUS
<1>1. StepsFor(desk[r].kind)[desk[r].at] = step
  BY StepPlaced
<1>2. CASE desk[r].kind = "assign"
  BY <1>1, <1>2, StepsAre
<1>3. CASE desk[r].kind = "bulkAssign"
  BY <1>1, <1>3, StepsAre
<1> QED BY <1>2, <1>3

\* A request that is over, and none, are requests.
LEMMA FinishedIs == Finished \in DeskStates /\ Finished.kind = "done" /\ NoRequest \in DeskStates /\ NoRequest.kind = "none"
BY DEF Finished, NoRequest, DeskStates

\* What Onward makes of a request.
LEMMA OnwardIs ==
  ASSUME DeskInv, NEW r \in DeskRequests, NEW step, AtDesk(r, step), NEW may, NEW saw \in SUBSET Convs,
         Onward(r, may, saw)
  PROVE  /\ UNCHANGED <<active, deskFaults>>
         /\ \E d \in DeskStates :
              /\ desk' = [desk EXCEPT ![r] = d] /\ DeskPlaced(d)
              /\ \/ d.kind = "done"
                 \/ /\ may /\ d.kind = desk[r].kind /\ d.at = desk[r].at + 1
                    /\ d.on = desk[r].on /\ d.who = desk[r].who
              /\ may /\ desk[r].at < Len(StepsFor(desk[r].kind)) => d.kind # "done"
<1> DEFINE n == Len(StepsFor(desk[r].kind))
           x == desk[r]
<1>1. /\ x \in DeskStates /\ x.kind \in DeskKinds /\ x.at \in 1..n /\ n \in 1..5 /\ x.on # {}
  BY StepPlaced
<1>2. UNCHANGED <<active, deskFaults>>
  BY DEF Onward
<1>3. CASE ~may \/ x.at = n
  <2>1. desk' = [desk EXCEPT ![r] = Finished]
    BY <1>3 DEF Onward
  <2>2. DeskPlaced(Finished)
    BY FinishedIs, KindsAre DEF DeskPlaced, DeskKinds
  <2>3. ~(may /\ desk[r].at < Len(StepsFor(desk[r].kind)))
    BY <1>1, <1>3
  <2> QED BY <1>2, <2>1, <2>2, <2>3, FinishedIs
<1>4. CASE may /\ x.at # n
  <2> DEFINE d == [x EXCEPT !.at = @ + 1, !.saw = saw]
  <2>1. desk' = [desk EXCEPT ![r] = d]
    BY <1>4 DEF Onward
  <2>2. x.at + 1 \in 1..n /\ x.at + 1 \in 1..5
    <3>1. \A i, k \in Nat : i \in 1..k /\ k \in 1..5 /\ i # k => i + 1 \in 1..k /\ i + 1 \in 1..5
      OBVIOUS
    <3>2. x.at \in Nat /\ n \in Nat
      BY <1>1
    <3> HIDE DEF n
    <3> QED BY <1>1, <1>4, <3>1, <3>2
  <2>3. d.kind = x.kind /\ d.at = x.at + 1 /\ d.on = x.on /\ d.who = x.who
    BY <1>1 DEF DeskStates
  <2>4. d \in DeskStates
    BY <1>1, <2>2 DEF DeskStates
  <2>5. d.kind # "done"
    BY <1>1, <2>3, KindsAre DEF DeskKinds
  <2>6. DeskPlaced(d)
    BY <1>1, <2>2, <2>3 DEF DeskPlaced
  <2> HIDE DEF d
  <2> QED BY <1>2, <1>4, <2>1, <2>3, <2>4, <2>5, <2>6
<1> QED BY <1>3, <1>4

\* A step of one request between its statements, and nothing of an assignment is touched.
LEMMA Harmless ==
  ASSUME DeskInv, DeskTypeOK', NEW r \in DeskRequests, NEW d \in DeskStates, desk' = [desk EXCEPT ![r] = d],
         DeskPlaced(d), ~Writes(d), ~DeskRecorded(desk[r]) \/ (desk[r].on \subseteq halfDone'),
         UNCHANGED <<conv, history>>, halfDone \subseteq halfDone'
  PROVE  DeskInv'
<1>1. desk'[r] = d /\ \A q \in DeskRequests \ {r} : desk'[q] = desk[q]
  BY DEF DeskInv, DeskTypeOK
<1>2. \A q \in DeskRequests : DeskPlaced(desk'[q]) /\ RecordedFirst(desk[q])'
  BY <1>1 DEF DeskInv, RecordedFirst, Writes
<1>3. ASSUME NEW c \in Convs, NEW m \in conv[c].assigned
      PROVE  conv[c].there /\ Known(c, m)'
  <2>1. conv[c].there /\ Known(c, m)
    BY DEF DeskInv
  <2>2. CASE <<c, m>> \in history \/ c \in halfDone
    BY <2>1, <2>2 DEF Known
  <2>3. ASSUME NEW q \in DeskRequests, DeskRecorded(desk[q]), c \in desk[q].on, m \in desk[q].who
        PROVE  Known(c, m)'
    <3>1. CASE q = r
      BY <2>3, <3>1 DEF Known
    <3>2. CASE q # r
      BY <1>1, <2>3, <3>2 DEF Known
    <3> QED BY <3>1, <3>2
  <2> QED BY <2>1, <2>2, <2>3 DEF Known
<1> QED BY <1>2, <1>3 DEF DeskInv, DeskPlaced

\* No request has come.
LEMMA DeskStart == DeskInit => DeskInv
<1> SUFFICES ASSUME DeskInit PROVE DeskInv
  OBVIOUS
<1>1. desk \in [DeskRequests -> DeskStates] /\ \A r \in DeskRequests : desk[r].kind = "none"
  BY FinishedIs DEF DeskInit
<1>2. /\ conv \in [Convs -> [there : BOOLEAN, assigned : SUBSET Members,
                             status : {"NEW", "OPEN", "PENDING", "RESOLVED", "SNOOZED", "SPAM"}]]
      /\ \A c \in Convs : conv[c].assigned = {}
  BY DEF DeskInit
<1>3. deskFaults \in 0..DeskFaults
  BY DeskAssumption DEF DeskInit
<1>4. DeskTypeOK
  BY <1>1, <1>2, <1>3 DEF DeskInit, DeskTypeOK, DeskStates
<1> QED BY <1>1, <1>2, <1>4, KindsAre DEF DeskInv, DeskPlaced, RecordedFirst, Writes, DeskKinds

\* A request comes with its conversations.
LEMMA RequestComes ==
  ASSUME DeskInv, NEW r \in DeskRequests, NEW on \in SUBSET Convs, NEW m \in Members, NEW kind \in DeskKinds,
         Request(r, kind, on, {m})
  PROVE  DeskInv'
<1> DEFINE d == [kind |-> kind, at |-> 1, on |-> on, who |-> {m}, saw |-> {}]
<1>1. /\ desk' = [desk EXCEPT ![r] = d] /\ desk[r].kind = "none" /\ on # {}
      /\ UNCHANGED <<conv, history, tagged, watching, notes, mergeNotes, active, halfDone, deskFaults>>
  BY FinishedIs DEF Request, deskRows
<1>2. d \in DeskStates /\ d.at = 1 /\ d.kind = kind /\ d.on = on
  BY DEF DeskStates
<1> HIDE DEF d
<1>3. DeskTypeOK'
  BY <1>1, <1>2 DEF DeskInv, DeskTypeOK, DeskStates
<1>4. DeskPlaced(d) /\ ~Writes(d) /\ ~DeskRecorded(desk[r])
  <2>1. Len(StepsFor(kind)) \in 1..5
    BY StepsPlaced
  <2>2. 1 \in 1..Len(StepsFor(kind)) /\ 1 # 4
    BY <2>1
  <2>3. DeskPlaced(d) /\ ~Writes(d)
    BY <1>1, <1>2, <2>2 DEF DeskPlaced, Writes
  <2> QED BY <1>1, <2>3 DEF DeskRecorded
<1> QED BY <1>1, <1>2, <1>3, <1>4, Harmless

\* Statements that neither write nor record an assignment.
LEMMA PlainKept ==
  ASSUME DeskInv, NEW r \in DeskRequests,
         AssertOwned(r) \/ CheckMember(r) \/ LookFirst(r) \/ AddTag(r) \/ RemoveTag(r) \/ Watch(r)
           \/ Unwatch(r) \/ AddNote(r) \/ MarkMerge(r)
  PROVE  DeskInv'
<1>1. desk[r] \in DeskStates
  BY DEF DeskInv, DeskTypeOK, DeskStates
<1>2. \E step : \E saw \in SUBSET Convs, may \in BOOLEAN :
        AtDesk(r, step) /\ step \notin {"record", "write"} /\ Onward(r, may, saw)
  <2>1. tagged \subseteq Convs /\ {} \subseteq Convs /\ desk[r].saw \subseteq Convs /\ desk[r].on \subseteq Convs
    BY <1>1 DEF DeskInv, DeskTypeOK, DeskStates
  <2>2. CASE AssertOwned(r)
    BY <2>1, <2>2 DEF AssertOwned
  <2>3. CASE CheckMember(r)
    BY <2>1, <2>3 DEF CheckMember
  <2>4. CASE LookFirst(r)
    <3>1. (IF desk[r].kind = "watch" THEN {c \in desk[r].on : <<c, CHOOSE w \in desk[r].who : TRUE>> \in watching}
           ELSE tagged) \subseteq Convs
      BY <2>1
    <3> QED BY <2>4, <3>1 DEF LookFirst
  <2>5. CASE AddTag(r) \/ RemoveTag(r) \/ Watch(r) \/ Unwatch(r) \/ AddNote(r)
    BY <2>1, <2>5 DEF AddTag, RemoveTag, Watch, Unwatch, AddNote
  <2>6. CASE MarkMerge(r)
    BY <2>1, <2>6 DEF MarkMerge
  <2> QED BY <2>2, <2>3, <2>4, <2>5, <2>6
<1>3. PICK step : \E saw \in SUBSET Convs, may \in BOOLEAN :
        AtDesk(r, step) /\ step \notin {"record", "write"} /\ Onward(r, may, saw)
  BY <1>2
<1>4. /\ desk[r].kind \in {"assign", "bulkAssign"} => desk[r].at \notin {3, 4}
      /\ desk[r].at \in Nat /\ desk[r].on # {} /\ desk[r].kind \in DeskKinds
  BY <1>1, <1>3, PlainStep, StepPlaced DEF DeskStates
<1>5. PICK d \in DeskStates : /\ desk' = [desk EXCEPT ![r] = d] /\ DeskPlaced(d)
                              /\ d.kind = "done" \/ (d.kind = desk[r].kind /\ d.at = desk[r].at + 1)
                              /\ UNCHANGED <<active, deskFaults>>
  BY <1>3, OnwardIs
<1>6. UNCHANGED <<conv, history, halfDone>>
  BY DEF AssertOwned, CheckMember, LookFirst, AddTag, RemoveTag, Watch, Unwatch, AddNote,
     MarkMerge, deskRows
<1>7. /\ tagged' \subseteq Convs /\ watching' \subseteq Convs \X Members /\ notes' \subseteq Convs \X Members
      /\ mergeNotes' \subseteq {"MERGED", "MERGED_FROM"} \X Convs \X Convs
  <2>1. /\ desk[r].on \subseteq Convs /\ desk[r].who \subseteq Members
        /\ tagged \subseteq Convs /\ watching \subseteq Convs \X Members /\ notes \subseteq Convs \X Members
        /\ mergeNotes \subseteq {"MERGED", "MERGED_FROM"} \X Convs \X Convs
    BY <1>1 DEF DeskInv, DeskTypeOK, DeskStates
  <2>2. Source(r) \subseteq Convs /\ Target(r) \subseteq Convs
    BY <1>4, <2>1 DEF Source, Target
  <2>3. CASE AssertOwned(r) \/ CheckMember(r) \/ LookFirst(r)
    BY <2>1, <2>3 DEF AssertOwned, CheckMember, LookFirst, deskRows
  <2>4. CASE AddTag(r) \/ RemoveTag(r)
    BY <2>1, <2>4 DEF AddTag, RemoveTag
  <2>5. CASE Watch(r) \/ Unwatch(r) \/ AddNote(r)
    BY <2>1, <2>5 DEF Watch, Unwatch, AddNote
  <2>6. CASE MarkMerge(r)
    <3>1. /\ UNCHANGED <<tagged, watching, notes>>
          /\ \/ mergeNotes' = mergeNotes \cup ({"MERGED"} \X (Source(r) \cap There) \X Target(r))
             \/ mergeNotes' = mergeNotes \cup ({"MERGED_FROM"} \X (Target(r) \cap There) \X Source(r))
      BY <2>6 DEF MarkMerge
    <3>2. /\ ({"MERGED"} \X (Source(r) \cap There) \X Target(r)) \subseteq {"MERGED", "MERGED_FROM"} \X Convs \X Convs
          /\ ({"MERGED_FROM"} \X (Target(r) \cap There) \X Source(r)) \subseteq {"MERGED", "MERGED_FROM"} \X Convs \X Convs
      BY <2>2
    <3> QED BY <2>1, <3>1, <3>2
  <2> QED BY <2>3, <2>4, <2>5, <2>6
<1>8. DeskTypeOK'
  BY <1>5, <1>6, <1>7 DEF DeskInv, DeskTypeOK, DeskStates
<1>9. ~Writes(d) /\ ~DeskRecorded(desk[r])
  BY <1>4, <1>5 DEF Writes, DeskRecorded
<1> QED BY <1>5, <1>6, <1>8, <1>9, Harmless

\* A request on many keeps those of its organization.
LEMMA NarrowKept ==
  ASSUME DeskInv, NEW r \in DeskRequests, Narrow(r)
  PROVE  DeskInv'
<1> DEFINE n == Len(StepsFor(desk[r].kind))
           x == desk[r]
           d == [x EXCEPT !.at = @ + 1, !.on = @ \cap There]
<1>1. /\ x \in DeskStates /\ x.kind \in DeskKinds /\ x.at \in 1..n /\ n \in 1..5 /\ x.on # {}
      /\ StepsFor(x.kind)[x.at] = "narrow"
  BY StepPlaced DEF Narrow
<1>2. x.at = 1 /\ x.kind # "assign" /\ 1 < n
  BY <1>1, StepsPlaced
<1>3. UNCHANGED <<conv, history, tagged, watching, notes, mergeNotes, active, halfDone, deskFaults>>
  BY DEF Narrow, deskRows
<1>4. d \in DeskStates /\ d.at = 2 /\ d.kind = x.kind /\ d.on = x.on \cap There
  <2>1. 2 \in 1..5
    OBVIOUS
  <2>2. d.at = 2 /\ d.kind = x.kind /\ d.on = x.on \cap There
    BY <1>1, <1>2 DEF DeskStates
  <2> QED BY <1>1, <1>2, <2>1, <2>2 DEF DeskStates
<1>5. PICK e \in DeskStates : /\ desk' = [desk EXCEPT ![r] = e]
                              /\ e.kind = "done" \/ (e.kind = x.kind /\ e.at = 2 /\ e.on # {})
  <2>1. CASE x.on \cap There = {}
    BY <2>1, FinishedIs DEF Narrow
  <2>2. CASE x.on \cap There # {}
    <3>1. desk' = [desk EXCEPT ![r] = d]
      BY <2>2 DEF Narrow
    <3> HIDE DEF d
    <3> QED BY <1>4, <2>2, <3>1
  <2> QED BY <2>1, <2>2
<1>6. DeskTypeOK'
  BY <1>3, <1>5 DEF DeskInv, DeskTypeOK, DeskStates
<1>7. DeskPlaced(e) /\ ~Writes(e) /\ ~DeskRecorded(x)
  BY <1>1, <1>2, <1>5, KindsAre DEF DeskPlaced, Writes, DeskRecorded, DeskKinds
<1> QED BY <1>3, <1>5, <1>6, <1>7, Harmless

\* The conversation is written.
LEMMA WriteKept ==
  ASSUME DeskInv, NEW r \in DeskRequests, WriteStatus(r)
  PROVE  DeskInv'
<1> DEFINE x == desk[r]
           assigns == x.kind \in {"assign", "bulkAssign"}
           found == There \cap (IF x.kind = "merge" THEN Source(r) ELSE x.on)
           on == IF assigns /\ ~(x.who \subseteq active) THEN {} ELSE found
           reached == CASE x.kind \in DOMAIN NewStatus -> NewStatus[x.kind]
                       [] assigns -> "OPEN"
                       [] x.kind \in {"bulkClose", "merge"} -> "RESOLVED"
                       [] OTHER -> "SNOOZED"
           may == on # {} \/ (x.kind \in DOMAIN BulkSteps /\ on = found)
<1>1. /\ x \in DeskStates /\ x.kind \in DeskKinds /\ x.at \in 1..Len(StepsFor(x.kind)) /\ x.on # {}
      /\ x.kind = "assign" => x.at = 4
      /\ x.kind = "bulkAssign" => x.at = 3 /\ Len(StepsFor(x.kind)) = 4
  <2>1. x.kind = "bulkAssign" => Len(StepsFor(x.kind)) = 4
    BY StepsAre
  <2> QED BY <2>1, StepPlaced, StepsPlaced DEF WriteStatus
<1>2. /\ UNCHANGED <<history, tagged, watching, notes, mergeNotes, halfDone>>
      /\ AtDesk(r, "write") /\ Onward(r, may, x.saw)
      /\ conv' = [c \in Convs |->
             IF c \notin on THEN conv[c]
             ELSE [conv[c] EXCEPT !.status = reached, !.assigned = IF assigns THEN x.who ELSE @]]
  BY DEF WriteStatus
<1>3. reached \in {"NEW", "OPEN", "PENDING", "RESOLVED", "SNOOZED", "SPAM"}
  <2>1. CASE x.kind \in DOMAIN NewStatus
    <3>1. NewStatus[x.kind] \in {"RESOLVED", "SNOOZED", "OPEN", "SPAM", "PENDING"}
      BY <2>1, KindsAre DEF NewStatus
    <3>2. reached = NewStatus[x.kind]
      BY <2>1, KindsAre
    <3> QED BY <3>1, <3>2
  <2>2. CASE x.kind \notin DOMAIN NewStatus
    BY <2>2
  <2> QED BY <2>1, <2>2
<1>4. on \subseteq There
  OBVIOUS
<1>5. assigns => on \subseteq x.on /\ x.on \subseteq Convs /\ x.who \subseteq Members
  BY <1>1 DEF DeskStates
<1> HIDE DEF reached
<1>6. PICK d \in DeskStates :
        /\ desk' = [desk EXCEPT ![r] = d] /\ DeskPlaced(d)
        /\ d.kind = "done" \/ (d.kind = x.kind /\ d.at = x.at + 1 /\ d.on = x.on /\ d.who = x.who)
        /\ may /\ x.at < Len(StepsFor(x.kind)) => d.kind # "done"
        /\ UNCHANGED <<active, deskFaults>>
  <2>1. x.saw \in SUBSET Convs
    BY <1>1 DEF DeskStates
  <2> HIDE DEF may
  <2>2. PICK b \in BOOLEAN : (b <=> may) /\ Onward(r, b, x.saw)
    <3>1. CASE may
      <4>1. Onward(r, TRUE, x.saw)
        BY <1>2, <3>1 DEF Onward
      <4> QED BY <3>1, <4>1
    <3>2. CASE ~may
      <4>1. Onward(r, FALSE, x.saw)
        BY <1>2, <3>2 DEF Onward
      <4> QED BY <3>2, <4>1
    <3> QED BY <3>1, <3>2
  <2>3. PICK d \in DeskStates :
          /\ desk' = [desk EXCEPT ![r] = d] /\ DeskPlaced(d)
          /\ \/ d.kind = "done"
             \/ b /\ d.kind = desk[r].kind /\ d.at = desk[r].at + 1 /\ d.on = desk[r].on /\ d.who = desk[r].who
          /\ b /\ desk[r].at < Len(StepsFor(desk[r].kind)) => d.kind # "done"
          /\ UNCHANGED <<active, deskFaults>>
    <3>1. PICK step : step = "write"
      OBVIOUS
    <3>2. AtDesk(r, step)
      BY <1>2, <3>1
    <3> HIDE DEF x
    <3> QED BY <2>1, <2>2, <3>2, OnwardIs
  <2> QED BY <2>2, <2>3
<1>7. desk'[r] = d /\ \A q \in DeskRequests \ {r} : desk'[q] = desk[q]
  BY <1>6 DEF DeskInv, DeskTypeOK
<1>8. ASSUME NEW c \in Convs
      PROVE  /\ conv'[c] \in [there : BOOLEAN, assigned : SUBSET Members,
                              status : {"NEW", "OPEN", "PENDING", "RESOLVED", "SNOOZED", "SPAM"}]
             /\ conv'[c].there = conv[c].there
             /\ conv'[c].assigned = conv[c].assigned \/ (assigns /\ c \in on /\ conv'[c].assigned = x.who)
  <2>1. conv[c] \in [there : BOOLEAN, assigned : SUBSET Members,
                     status : {"NEW", "OPEN", "PENDING", "RESOLVED", "SNOOZED", "SPAM"}]
    BY DEF DeskInv, DeskTypeOK
  <2>2. CASE c \notin on
    BY <1>2, <2>1, <2>2
  <2>3. CASE c \in on
    <3>1. PICK w \in SUBSET Members : /\ w = conv[c].assigned \/ (assigns /\ w = x.who)
                                      /\ conv'[c] = [conv[c] EXCEPT !.status = reached, !.assigned = w]
      <4> HIDE DEF on
      <4>1. conv'[c] = [conv[c] EXCEPT !.status = reached, !.assigned = IF assigns THEN x.who ELSE @]
        BY <1>2, <2>3
      <4>2. CASE assigns
        BY <1>5, <4>1, <4>2
      <4>3. CASE ~assigns
        BY <2>1, <4>1, <4>3
      <4> QED BY <4>2, <4>3
    <3> HIDE DEF on
    <3> QED BY <1>3, <2>1, <2>3, <3>1
  <2> QED BY <2>2, <2>3
<1>9. conv' \in [Convs -> [there : BOOLEAN, assigned : SUBSET Members,
                           status : {"NEW", "OPEN", "PENDING", "RESOLVED", "SNOOZED", "SPAM"}]]
  BY <1>2, <1>8
<1>10. DeskTypeOK'
  BY <1>2, <1>6, <1>9 DEF DeskInv, DeskTypeOK, DeskStates
<1>11. ASSUME NEW q \in DeskRequests
       PROVE  DeskPlaced(desk[q])' /\ RecordedFirst(desk[q])'
  <2>1. CASE q = r
    <3>1. ~Writes(d)
      BY <1>1, <1>6 DEF Writes
    <3> QED BY <1>6, <1>7, <2>1, <3>1 DEF RecordedFirst, DeskPlaced
  <2>2. CASE q # r
    <3>1. desk'[q] = desk[q] /\ desk[q].on \subseteq Convs /\ RecordedFirst(desk[q]) /\ DeskPlaced(desk[q])
      BY <1>7, <2>2 DEF DeskInv, DeskTypeOK
    <3> QED BY <1>2, <1>8, <3>1 DEF RecordedFirst, DeskPlaced
  <2> QED BY <2>1, <2>2
<1>12. ASSUME NEW c \in Convs, NEW m \in conv'[c].assigned
       PROVE  conv'[c].there /\ Known(c, m)'
  <2>1. ~DeskRecorded(x)
    BY <1>1 DEF DeskRecorded
  <2>2. CASE m \in conv[c].assigned
    <3>1. conv[c].there /\ Known(c, m)
      BY <2>2 DEF DeskInv
    <3>2. \A q \in DeskRequests : DeskRecorded(desk[q]) => desk'[q] = desk[q]
      BY <1>7, <2>1
    <3> QED BY <1>2, <1>8, <3>1, <3>2 DEF Known
  <2>3. CASE assigns /\ c \in on /\ m \in x.who
    <3>1. conv[c].there /\ conv'[c].there /\ c \in x.on
      BY <1>4, <1>5, <1>8, <2>3 DEF There
    <3>2. CASE x.kind = "assign"
      <4>1. <<c, m>> \in history
        BY <1>1, <2>3, <3>1, <3>2 DEF DeskInv, RecordedFirst, Writes
      <4> QED BY <1>2, <3>1, <4>1 DEF Known
    <3>3. CASE x.kind = "bulkAssign"
      <4>1. may
        BY <2>3
      <4>2. x.at = 3 /\ Len(StepsFor(x.kind)) = 4
        BY <1>1, <3>3
      <4>3. d.kind = "bulkAssign" /\ d.at = 4 /\ d.on = x.on /\ d.who = x.who
        <5>1. 3 < 4 /\ 3 + 1 = 4
          OBVIOUS
        <5> HIDE DEF may
        <5>2. d.kind # "done"
          BY <1>6, <4>1, <4>2, <5>1
        <5> QED BY <1>6, <3>3, <4>2, <5>1, <5>2
      <4> QED BY <1>7, <2>3, <3>1, <4>3 DEF Known, DeskRecorded
    <3> QED BY <2>3, <3>2, <3>3
  <2> QED BY <1>8, <2>2, <2>3
<1> QED BY <1>10, <1>11, <1>12 DEF DeskInv

\* The assignment is recorded.
LEMMA RecordKept ==
  ASSUME DeskInv, NEW r \in DeskRequests, RecordAssignment(r)
  PROVE  DeskInv'
<1> DEFINE x == desk[r]
           ok == x.on \subseteq There /\ x.who \subseteq active
<1>1. /\ x \in DeskStates /\ x.kind \in DeskKinds /\ x.at \in 1..Len(StepsFor(x.kind)) /\ x.on # {}
      /\ (x.kind = "assign" /\ x.at = 3) \/ DeskRecorded(x)
      /\ x.on \subseteq Convs /\ x.who \subseteq Members /\ x.saw \in SUBSET Convs
  BY StepPlaced, StepsPlaced DEF RecordAssignment, DeskRecorded, DeskStates
<1>2. /\ UNCHANGED <<conv, tagged, watching, notes, mergeNotes>>
      /\ AtDesk(r, "record") /\ Onward(r, ok, x.saw)
      /\ history' = IF ok THEN history \cup (x.on \X x.who) ELSE history
      /\ halfDone' = IF ok THEN halfDone ELSE halfDone \cup x.on
  BY DEF RecordAssignment
<1>3. /\ history \subseteq history' /\ history' \subseteq Convs \X Members /\ (ok => (x.on \X x.who) \subseteq history')
      /\ halfDone \subseteq halfDone' /\ halfDone' \subseteq Convs /\ (~ok => x.on \subseteq halfDone')
  <2>1. history \subseteq Convs \X Members /\ halfDone \subseteq Convs /\ (x.on \X x.who) \subseteq Convs \X Members
    BY <1>1 DEF DeskInv, DeskTypeOK
  <2> HIDE DEF ok
  <2>2. CASE ok
    BY <1>2, <2>1, <2>2
  <2>3. CASE ~ok
    BY <1>1, <1>2, <2>1, <2>3
  <2> QED BY <2>2, <2>3
<1>4. PICK d \in DeskStates :
        /\ desk' = [desk EXCEPT ![r] = d] /\ DeskPlaced(d)
        /\ d.kind = "done" \/ (ok /\ d.kind = x.kind /\ d.at = x.at + 1 /\ d.on = x.on /\ d.who = x.who)
        /\ UNCHANGED <<active, deskFaults>>
  <2> HIDE DEF ok
  <2> QED BY <1>1, <1>2, OnwardIs
<1>5. desk'[r] = d /\ \A q \in DeskRequests \ {r} : desk'[q] = desk[q]
  BY <1>4 DEF DeskInv, DeskTypeOK
<1> HIDE DEF ok
<1>6. DeskTypeOK'
  BY <1>2, <1>3, <1>4 DEF DeskInv, DeskTypeOK, DeskStates
<1>7. ASSUME NEW q \in DeskRequests
      PROVE  DeskPlaced(desk[q])' /\ RecordedFirst(desk[q])'
  <2>1. CASE q = r
    <3>1. ASSUME Writes(d) PROVE ok /\ d.on = x.on /\ d.who = x.who
      BY <1>4, <3>1 DEF Writes
    <3>2. DeskPlaced(desk[q])'
      BY <1>4, <1>5, <2>1 DEF DeskPlaced
    <3>3. ASSUME Writes(d), NEW c \in d.on, NEW m \in d.who PROVE <<c, m>> \in history'
      <4>1. <<c, m>> \in x.on \X x.who
        BY <3>1, <3>3
      <4>2. ok
        BY <3>1, <3>3
      <4> QED BY <1>3, <4>1, <4>2
    <3>4. RecordedFirst(d)'
      BY <3>3 DEF RecordedFirst, Writes
    <3> QED BY <1>5, <2>1, <3>2, <3>4 DEF RecordedFirst, Writes
  <2>2. CASE q # r
    <3>1. desk'[q] = desk[q] /\ RecordedFirst(desk[q]) /\ DeskPlaced(desk[q])
      BY <1>5, <2>2 DEF DeskInv
    <3> QED BY <1>2, <1>3, <3>1 DEF RecordedFirst, DeskPlaced
  <2> QED BY <2>1, <2>2
<1>8. ASSUME NEW c \in Convs, NEW m \in conv[c].assigned
      PROVE  conv[c].there /\ Known(c, m)'
  <2>1. conv[c].there /\ Known(c, m)
    BY DEF DeskInv
  <2>2. CASE <<c, m>> \in history \/ c \in halfDone
    BY <1>3, <2>1, <2>2 DEF Known
  <2>3. ASSUME NEW q \in DeskRequests, DeskRecorded(desk[q]), c \in desk[q].on, m \in desk[q].who
        PROVE  Known(c, m)'
    <3>1. CASE q = r
      <4>1. <<c, m>> \in x.on \X x.who /\ c \in x.on
        BY <2>3, <3>1
      <4>2. <<c, m>> \in history' \/ c \in halfDone'
        BY <1>3, <4>1
      <4> QED BY <4>2 DEF Known
    <3>2. CASE q # r
      BY <1>5, <2>3, <3>2 DEF Known, DeskRecorded
    <3> QED BY <3>1, <3>2
  <2> QED BY <2>1, <2>2, <2>3 DEF Known
<1> QED BY <1>2, <1>6, <1>7, <1>8 DEF DeskInv

\* A request that dies leaves what it has done.
LEMMA DiesKept ==
  ASSUME DeskInv, NEW r \in DeskRequests, RequestDies(r)
  PROVE  DeskInv'
<1>1. /\ desk' = [desk EXCEPT ![r] = Finished] /\ deskFaults' \in 0..DeskFaults
      /\ UNCHANGED <<conv, history, tagged, watching, notes, mergeNotes, active>>
      /\ desk[r] \in DeskStates
  BY DeskAssumption DEF RequestDies, deskRows, DeskInv, DeskTypeOK, DeskStates
<1>2. halfDone \subseteq halfDone' /\ halfDone' \subseteq Convs
  BY <1>1 DEF RequestDies, DeskInv, DeskTypeOK, DeskStates
<1>3. DeskRecorded(desk[r]) => desk[r].on \subseteq halfDone'
  <2>1. DeskRecorded(desk[r]) => AtDesk(r, "record")
    BY StepsAre DEF AtDesk, DeskRecorded
  <2> QED BY <2>1 DEF RequestDies, DeskRecorded
<1>4. DeskTypeOK'
  BY <1>1, <1>2, FinishedIs DEF DeskInv, DeskTypeOK, DeskStates
<1>5. DeskPlaced(Finished) /\ ~Writes(Finished)
  BY FinishedIs, KindsAre DEF DeskPlaced, Writes, DeskKinds
<1> QED BY <1>1, <1>2, <1>3, <1>4, <1>5, FinishedIs, Harmless

\* A conversation is purged with what is written of it.
LEMMA PurgeKept ==
  ASSUME DeskInv, NEW c \in Convs, PurgeConversation(c)
  PROVE  DeskInv'
<1>1. /\ conv' = [conv EXCEPT ![c] = [there |-> FALSE, status |-> "NEW", assigned |-> {}]]
      /\ history' = {h \in history : h[1] # c}
      /\ UNCHANGED <<active, desk, halfDone>> /\ deskFaults' \in 0..DeskFaults
      /\ watching' \subseteq watching /\ tagged' \subseteq tagged /\ notes' \subseteq notes /\ mergeNotes' \subseteq mergeNotes
  BY DeskAssumption DEF PurgeConversation, DeskInv, DeskTypeOK
<1>2. /\ conv' \in [Convs -> [there : BOOLEAN, assigned : SUBSET Members,
                              status : {"NEW", "OPEN", "PENDING", "RESOLVED", "SNOOZED", "SPAM"}]]
      /\ ~conv'[c].there /\ conv'[c].assigned = {}
      /\ \A e \in Convs \ {c} : conv'[e] = conv[e]
  BY <1>1 DEF DeskInv, DeskTypeOK
<1>3. DeskTypeOK'
  BY <1>1, <1>2 DEF DeskInv, DeskTypeOK
<1>4. \A e \in Convs \ {c} : \A m : <<e, m>> \in history => <<e, m>> \in history'
  BY <1>1
<1>5. ASSUME NEW q \in DeskRequests
      PROVE  DeskPlaced(desk[q])' /\ RecordedFirst(desk[q])'
  <2>1. RecordedFirst(desk[q]) /\ DeskPlaced(desk[q]) /\ desk[q].on \subseteq Convs
    BY DEF DeskInv, DeskTypeOK
  <2> QED BY <1>1, <1>2, <1>4, <2>1 DEF RecordedFirst, DeskPlaced, Writes
<1>6. ASSUME NEW e \in Convs, NEW m \in conv'[e].assigned
      PROVE  conv'[e].there /\ Known(e, m)'
  <2>1. e # c /\ conv'[e] = conv[e]
    BY <1>2
  <2>2. conv[e].there /\ Known(e, m)
    BY <2>1 DEF DeskInv
  <2> QED BY <1>1, <1>4, <2>1, <2>2 DEF Known
<1> QED BY <1>3, <1>5, <1>6 DEF DeskInv

\* A member is removed.
LEMMA RemoveKept ==
  ASSUME DeskInv, NEW m \in Members, RemoveMember(m)
  PROVE  DeskInv'
<1>1. /\ conv' = [c \in Convs |-> [conv[c] EXCEPT !.assigned = @ \ {m}]]
      /\ active' \subseteq Members /\ deskFaults' \in 0..DeskFaults
      /\ UNCHANGED <<history, tagged, watching, notes, mergeNotes, desk, halfDone>>
  BY DeskAssumption DEF RemoveMember, DeskInv, DeskTypeOK
<1>2. \A c \in Convs : conv'[c].there = conv[c].there /\ conv'[c].assigned \subseteq conv[c].assigned
  BY <1>1 DEF DeskInv, DeskTypeOK
<1>3. conv' \in [Convs -> [there : BOOLEAN, assigned : SUBSET Members,
                           status : {"NEW", "OPEN", "PENDING", "RESOLVED", "SNOOZED", "SPAM"}]]
  BY <1>1 DEF DeskInv, DeskTypeOK
<1>4. DeskTypeOK'
  BY <1>1, <1>3 DEF DeskInv, DeskTypeOK
<1>5. ASSUME NEW q \in DeskRequests
      PROVE  DeskPlaced(desk[q])' /\ RecordedFirst(desk[q])'
  <2>1. RecordedFirst(desk[q]) /\ DeskPlaced(desk[q]) /\ desk[q].on \subseteq Convs
    BY DEF DeskInv, DeskTypeOK
  <2> QED BY <1>1, <1>2, <2>1 DEF RecordedFirst, DeskPlaced
<1>6. ASSUME NEW e \in Convs, NEW k \in conv'[e].assigned
      PROVE  conv'[e].there /\ Known(e, k)'
  <2>1. k \in conv[e].assigned
    BY <1>2
  <2>2. conv[e].there /\ Known(e, k)
    BY <2>1 DEF DeskInv
  <2> QED BY <1>1, <1>2, <2>2 DEF Known
<1> QED BY <1>4, <1>5, <1>6 DEF DeskInv

\* Every step keeps the assignments recorded.
LEMMA DeskStep == DeskInv /\ [DeskNext]_deskVars => DeskInv'
<1> SUFFICES ASSUME DeskInv, [DeskNext]_deskVars PROVE DeskInv'
  OBVIOUS
<1>1. CASE UNCHANGED deskVars
  <2>1. DeskTypeOK' /\ \A r \in DeskRequests : DeskPlaced(desk[r])' /\ RecordedFirst(desk[r])'
    BY <1>1 DEF deskVars, deskRows, DeskInv, DeskTypeOK, DeskPlaced, RecordedFirst
  <2>2. \A c, m : Known(c, m) => Known(c, m)'
    BY <1>1 DEF deskVars, deskRows, Known
  <2> QED BY <1>1, <2>1, <2>2 DEF deskVars, deskRows, DeskInv
<1>2. CASE DeskNext
  BY <1>2, RequestComes, PlainKept, NarrowKept, WriteKept, RecordKept, DiesKept, PurgeKept,
     RemoveKept DEF DeskNext
<1> QED BY <1>1, <1>2

\* The invariant holds in every state.
LEMMA DeskInvariant == DeskSpec => []DeskInv
BY DeskStart, DeskStep, PTL DEF DeskSpec

\* Conversations, memberships and requests keep their types.
THEOREM DeskTypeCorrect == DeskSpec => []DeskTypeOK
<1>1. DeskInv => DeskTypeOK
  BY DEF DeskInv
<1> QED BY <1>1, DeskInvariant, PTL

\* Whoever a conversation is assigned to is in its history, but for a bulk assignment that is
\* about to write it, or was stopped there.
THEOREM DeskCorrect == DeskSpec => []AssignmentIsRecorded
<1>1. DeskInv => AssignmentIsRecorded
  <2> SUFFICES ASSUME DeskInv, NEW c \in Convs, NEW m \in Members, m \in conv[c].assigned
               PROVE  \/ <<c, m>> \in history
                      \/ c \in halfDone
                      \/ \E r \in DeskRequests : /\ desk[r].kind = "bulkAssign" /\ AtDesk(r, "record")
                                                 /\ c \in desk[r].on
    BY DEF AssignmentIsRecorded
  <2>1. Known(c, m)
    BY DEF DeskInv
  <2>2. \A r \in DeskRequests : DeskRecorded(desk[r]) => desk[r].kind = "bulkAssign" /\ AtDesk(r, "record")
    BY StepsAre DEF AtDesk, DeskRecorded
  <2> QED BY <2>1, <2>2 DEF Known
<1> QED BY <1>1, DeskInvariant, PTL

-----------------------------------------------------------------------------
(* The turns of a sale *)

\* One alert: whoever is about to tell the owner has claimed the row, and nobody has told yet.
OneAlert ==
  /\ ownerAlerts \in 0..1 /\ (ownerAlerts = 1 => alertRow)
  /\ \A s \in SalesMessages : sale[s].at = "tellOwner" => alertRow /\ ownerAlerts = 0
  /\ \A s, u \in SalesMessages : sale[s].at = "tellOwner" /\ sale[u].at = "tellOwner" => s = u

\* What was answered was sent.
AnsweredWas ==
  \A s \in replied : /\ sale[s].at \in {"sent", "handled", "support", "dead"}
                     /\ sale[s].at = "support" => s \in broken

\* Who asked not to be contacted is put on the list first, and goes no other way.
OptedOut ==
  \A s \in SalesMessages : sale[s].optOut =>
    /\ sale[s].at \in {"dnc", "contact", "handled", "support", "dead"} /\ s \notin replied
    /\ sale[s].at \in {"contact", "handled"} => dncListed

\* Of transitions that do not meet one at a time has written what it has not recorded.
InTrail ==
  interleaved \/
    /\ \A s \in SalesMessages : moving[s].at = "record" => leadNow = moving[s].to
    /\ \A s, u \in SalesMessages : moving[s].at = "record" /\ moving[u].at = "record" => s = u
    /\ trail = leadNow \/ \E s \in SalesMessages : moving[s].at = "record"

SalesInv == SalesTypeOK /\ OneAlert /\ AnsweredWas /\ OptedOut /\ InTrail

\* No message has come.
LEMMA SalesStart == SalesInit => SalesInv
<1> SUFFICES ASSUME SalesInit PROVE SalesInv
  OBVIOUS
<1>1. SalesTypeOK
  <2>1. sale \in [SalesMessages -> [at : SaleSteps, optOut : BOOLEAN, decision : SaleDecisions, hot : BOOLEAN]]
    BY DEF SalesInit, SaleSteps, SaleDecisions
  <2>2. moving \in [SalesMessages -> [at : {"no", "look", "write", "record"}, to : LeadStatuses]]
    BY DEF SalesInit, LeadStatuses, Still
  <2>3. {leadNow, trail} \subseteq LeadStatuses
    BY DEF SalesInit, LeadStatuses
  <2>4. dncListed \in BOOLEAN /\ alertRow \in BOOLEAN /\ interleaved \in BOOLEAN /\ ownerAlerts \in Nat
        /\ replied \subseteq SalesMessages /\ broken \subseteq SalesMessages /\ salesFaults \in 0..SalesFaults
    <3>1. salesFaults = 0 /\ 0 \in 0..SalesFaults
      BY SalesAssumption DEF SalesInit
    <3>2. dncListed = FALSE /\ alertRow = FALSE /\ interleaved = FALSE /\ ownerAlerts = 0 /\ replied = {} /\ broken = {}
      BY DEF SalesInit
    <3> QED BY <3>1, <3>2
  <2> QED BY <2>1, <2>2, <2>3, <2>4 DEF SalesTypeOK
<1>2. OneAlert
  <2>1. \A s \in SalesMessages : sale[s].at = "idle"
    BY DEF SalesInit
  <2> QED BY <2>1 DEF SalesInit, OneAlert
<1>3. AnsweredWas /\ OptedOut /\ InTrail
  <2>1. AnsweredWas
    BY DEF SalesInit, AnsweredWas
  <2>2. \A s \in SalesMessages : sale[s].optOut = FALSE
    BY DEF SalesInit
  <2>3. OptedOut
    BY <2>2 DEF OptedOut
  <2>4. InTrail
    <3>1. \A s \in SalesMessages : moving[s].at = "no"
      BY DEF SalesInit, Still
    <3>2. trail = leadNow
      BY DEF SalesInit
    <3> QED BY <3>1, <3>2 DEF InTrail
  <2> QED BY <2>1, <2>3, <2>4
<1> QED BY <1>1, <1>2, <1>3 DEF SalesInv

\* The statements of one handler, by what they do to it.
LEMMA Handled1 ==
  ASSUME SalesTypeOK, NEW s \in SalesMessages, NEW f \in SaleSteps, NEW to \in SaleSteps, Handles(s, f, to)
  PROVE  /\ sale' \in [SalesMessages -> [at : SaleSteps, optOut : BOOLEAN, decision : SaleDecisions, hot : BOOLEAN]]
         /\ sale[s].at = f /\ sale'[s].at = to /\ sale'[s].optOut = sale[s].optOut /\ moving[s].at = "no"
         /\ \A u \in SalesMessages \ {s} : sale'[u] = sale[u]
BY DEF Handles, SalesTypeOK

\* One handler moves, and stays what it is: a message that asked to be left alone, or not.
SaleTurns(s) ==
  /\ sale' \in [SalesMessages -> [at : SaleSteps, optOut : BOOLEAN, decision : SaleDecisions, hot : BOOLEAN]]
  /\ \A u \in SalesMessages \ {s} : sale'[u] = sale[u]

\* One transition moves, or is dropped.
Shifts(s) ==
  /\ moving' \in [SalesMessages -> [at : {"no", "look", "write", "record"}, to : LeadStatuses]]
  /\ \A u \in SalesMessages \ {s} : moving'[u] = moving[u]

\* Neither the lead nor its trail is touched.
Aside(s) == Shifts(s) /\ moving[s].at # "record" /\ moving'[s].at # "record" /\ UNCHANGED leadVars

\* What touches neither the lead nor its trail keeps them together.
LEMMA AsideKeepsTrail ==
  ASSUME InTrail, NEW s \in SalesMessages, Aside(s)
  PROVE  InTrail'
<1>1. \A u \in SalesMessages : moving'[u].at = "record" <=> moving[u].at = "record"
  BY DEF Aside, Shifts
<1>2. \A u \in SalesMessages : moving'[u].at = "record" => moving'[u] = moving[u]
  BY DEF Aside, Shifts
<1> QED BY <1>1, <1>2 DEF Aside, leadVars, InTrail

\* Nor the alert.
LEMMA QuietKeepsAlert ==
  ASSUME OneAlert, NEW s \in SalesMessages, SaleTurns(s), sale'[s].at # "tellOwner", UNCHANGED alertVars
  PROVE  OneAlert'
BY DEF OneAlert, SaleTurns, alertVars

\* Every step keeps the alert, the answers, the list and the trail.
LEMMA SalesStep == SalesInv /\ [SalesNext]_saleVars => SalesInv'
<1> SUFFICES ASSUME SalesInv, [SalesNext]_saleVars PROVE SalesInv'
  OBVIOUS
<1> USE DEF SalesInv
<1>0. CASE UNCHANGED saleVars
  BY <1>0 DEF saleVars, SalesTypeOK, OneAlert, AnsweredWas, OptedOut, InTrail
<1>i. SalesFaults \in Nat
  BY SalesAssumption
<1>1. ASSUME NEW s \in SalesMessages, NEW optOut \in BOOLEAN, SalesMessage(s, optOut) PROVE SalesInv'
  <2>1. /\ SaleTurns(s) /\ sale[s].at = "idle" /\ sale'[s].at = (IF optOut THEN "dnc" ELSE "read") /\ sale'[s].optOut = optOut
    <3> DEFINE to == IF optOut THEN "dnc" ELSE "read"
    <3>1. to \in SaleSteps
      BY DEF SaleSteps
    <3> HIDE DEF to
    <3>2. sale[s].at = "idle" /\ sale' = [sale EXCEPT ![s].at = to, ![s].optOut = optOut]
      BY <1>1 DEF SalesMessage, to
    <3>3. SaleTurns(s) /\ sale'[s].at = to /\ sale'[s].optOut = optOut
      BY <3>1, <3>2 DEF SalesTypeOK, SaleTurns
    <3> QED BY <3>2, <3>3 DEF to
  <2>2. UNCHANGED <<moving, leadVars, dncListed, alertVars, replied, failVars>>
    BY <1>1 DEF SalesMessage
  <2>3. SalesTypeOK' /\ InTrail'
    BY <2>1, <2>2 DEF SalesTypeOK, SaleTurns, leadVars, alertVars, failVars, InTrail
  <2>4. OneAlert'
    BY <2>1, <2>2, QuietKeepsAlert
  <2>5. AnsweredWas' /\ s \notin replied
    BY <2>1, <2>2 DEF SaleTurns, AnsweredWas, failVars, SalesTypeOK
  <2>6. OptedOut'
    BY <2>1, <2>2, <2>5 DEF SaleTurns, OptedOut
  <2> QED BY <2>3, <2>4, <2>5, <2>6
<1>2. ASSUME NEW s \in SalesMessages, AddToDnc(s) PROVE SalesInv'
  <2>1. SaleTurns(s) /\ sale[s].at = "dnc" /\ sale'[s].at = "contact" /\ sale'[s].optOut = sale[s].optOut
    BY <1>2, Handled1 DEF AddToDnc, SaleTurns, SaleSteps
  <2>2. UNCHANGED <<leadVars, alertVars, replied, failVars>> /\ dncListed' = TRUE /\ moving[s].at = "no" /\ AndMoves(s, "DO_NOT_CONTACT")
    BY <1>2 DEF AddToDnc, Handles
  <2>3. Aside(s)
    BY <2>2 DEF AndMoves, SalesTypeOK, Aside, Shifts, LeadStatuses
  <2>4. SalesTypeOK'
    BY <2>1, <2>2, <2>3 DEF SalesTypeOK, SaleTurns, Aside, Shifts, leadVars, alertVars, failVars
  <2>5. OneAlert' /\ InTrail'
    BY <2>1, <2>2, <2>3, QuietKeepsAlert, AsideKeepsTrail
  <2>6. AnsweredWas' /\ OptedOut'
    BY <2>1, <2>2 DEF AnsweredWas, OptedOut, SaleTurns, failVars, SalesTypeOK
  <2> QED BY <2>4, <2>5, <2>6
<1>3. ASSUME NEW s \in SalesMessages, OptOutContact(s) PROVE SalesInv'
  <2>1. SaleTurns(s) /\ sale[s].at = "contact" /\ sale'[s].at = "handled" /\ sale'[s].optOut = sale[s].optOut
    BY <1>3, Handled1 DEF OptOutContact, SaleTurns, SaleSteps
  <2>2. UNCHANGED <<leadVars, dncListed, alertVars, replied, failVars>> /\ moving[s].at = "no" /\ AndMoves(s, "DO_NOT_CONTACT")
    BY <1>3 DEF OptOutContact, Handles
  <2>3. Aside(s)
    BY <2>2 DEF AndMoves, SalesTypeOK, Aside, Shifts, LeadStatuses
  <2>4. SalesTypeOK'
    BY <2>1, <2>2, <2>3 DEF SalesTypeOK, SaleTurns, Aside, Shifts, leadVars, alertVars, failVars
  <2>5. OneAlert' /\ InTrail'
    BY <2>1, <2>2, <2>3, QuietKeepsAlert, AsideKeepsTrail
  <2>6. AnsweredWas' /\ OptedOut'
    BY <2>1, <2>2 DEF AnsweredWas, OptedOut, SaleTurns, failVars, SalesTypeOK
  <2> QED BY <2>4, <2>5, <2>6
<1>4. ASSUME NEW s \in SalesMessages, NothingToSell(s) PROVE SalesInv'
  <2>1. SaleTurns(s) /\ sale[s].at = "read" /\ sale'[s].at = "support" /\ sale'[s].optOut = sale[s].optOut
    BY <1>4, Handled1 DEF NothingToSell, SaleTurns, SaleSteps
  <2>2. UNCHANGED <<moving, leadVars, dncListed, alertVars, replied, failVars>>
    BY <1>4 DEF NothingToSell
  <2>3. SalesTypeOK' /\ InTrail'
    BY <2>1, <2>2 DEF SalesTypeOK, SaleTurns, leadVars, alertVars, failVars, InTrail
  <2>4. OneAlert'
    BY <2>1, <2>2, QuietKeepsAlert
  <2>5. AnsweredWas' /\ OptedOut'
    BY <2>1, <2>2 DEF SaleTurns, AnsweredWas, failVars, SalesTypeOK, OptedOut
  <2> QED BY <2>3, <2>4, <2>5
<1>5. ASSUME NEW s \in SalesMessages, NEW intent \in SaleIntents, NEW level \in InterestLevels, ClassifyIntent(s, intent, level)
      PROVE  SalesInv'
  <2>0. LeadStatusFor(intent, level, leadNow) \in LeadStatuses
    BY DEF LeadStatusFor, SalesTypeOK, LeadStatuses
  <2> DEFINE hot == intent = "PURCHASE_INTENT" \/ level = "READY_TO_BUY"
  <2>h. hot \in BOOLEAN
    OBVIOUS
  <2> HIDE DEF hot
  <2>c. sale' = [sale EXCEPT ![s].at = "turn", ![s].hot = hot] /\ sale[s].at = "read"
    BY <1>5 DEF ClassifyIntent, hot
  <2>1. SaleTurns(s) /\ sale[s].at = "read" /\ sale'[s].at = "turn" /\ sale'[s].optOut = sale[s].optOut
    BY <2>c, <2>h DEF SaleTurns, SaleSteps, SalesTypeOK
  <2>2. UNCHANGED <<leadVars, dncListed, alertVars, replied, failVars>> /\ moving[s].at = "no" /\ AndMoves(s, LeadStatusFor(intent, level, leadNow))
    BY <1>5 DEF ClassifyIntent
  <2>3. Aside(s)
    BY <2>0, <2>2 DEF AndMoves, SalesTypeOK, Aside, Shifts
  <2>4. SalesTypeOK'
    BY <2>1, <2>2, <2>3 DEF SalesTypeOK, SaleTurns, Aside, Shifts, leadVars, alertVars, failVars
  <2>5. OneAlert' /\ InTrail'
    BY <2>1, <2>2, <2>3, QuietKeepsAlert, AsideKeepsTrail
  <2>6. AnsweredWas' /\ OptedOut'
    BY <2>1, <2>2 DEF AnsweredWas, OptedOut, SaleTurns, failVars, SalesTypeOK
  <2> QED BY <2>4, <2>5, <2>6
<1>6. ASSUME NEW s \in SalesMessages, NEW decision \in SaleDecisions, TakeTurn(s, decision) PROVE SalesInv'
  <2>1. /\ SaleTurns(s) /\ sale[s].at = "turn" /\ sale'[s].at \in {"alert", "decide"} /\ sale'[s].optOut = sale[s].optOut
    <3>1. PICK to \in {"alert", "decide"} :
            sale' = [sale EXCEPT ![s].at = to, ![s].decision = decision, ![s].hot = FALSE]
      <4>1. CASE sale[s].hot \/ decision = "OFFER_DISCOUNT"
        BY <1>6, <4>1 DEF TakeTurn
      <4>2. CASE ~(sale[s].hot \/ decision = "OFFER_DISCOUNT")
        BY <1>6, <4>2 DEF TakeTurn
      <4> QED BY <4>1, <4>2
    <3>2. sale[s].at = "turn" /\ to \in SaleSteps
      BY <1>6 DEF TakeTurn, SaleSteps
    <3>3. SaleTurns(s) /\ sale'[s].at = to /\ sale'[s].optOut = sale[s].optOut
      BY <3>1, <3>2 DEF SaleTurns, SalesTypeOK
    <3> QED BY <3>2, <3>3
  <2>2. /\ UNCHANGED <<leadVars, dncListed, alertVars, replied, failVars>> /\ moving[s].at = "no"
        /\ AndMoves(s, "HOT") \/ UNCHANGED moving
    BY <1>6 DEF TakeTurn
  <2>3. Aside(s)
    BY <2>2 DEF AndMoves, SalesTypeOK, Aside, Shifts, LeadStatuses
  <2>4. SalesTypeOK'
    BY <2>1, <2>2, <2>3 DEF SalesTypeOK, SaleTurns, Aside, Shifts, leadVars, alertVars, failVars
  <2>5. OneAlert' /\ InTrail'
    BY <2>1, <2>2, <2>3, QuietKeepsAlert, AsideKeepsTrail
  <2>6. AnsweredWas' /\ OptedOut'
    BY <2>1, <2>2 DEF AnsweredWas, OptedOut, SaleTurns, failVars, SalesTypeOK
  <2> QED BY <2>4, <2>5, <2>6
<1>7. ASSUME NEW s \in SalesMessages, LookForAlert(s) \/ DecideNothing(s) PROVE SalesInv'
  <2>1. /\ SaleTurns(s) /\ sale'[s].optOut = sale[s].optOut
        /\ sale[s].at \in {"alert", "decide"} /\ sale'[s].at \in {"decide", "claim", "handled"}
    <3>1. CASE LookForAlert(s)
      BY <3>1, Handled1 DEF LookForAlert, SaleTurns, SaleSteps
    <3>2. CASE DecideNothing(s)
      BY <3>2 DEF DecideNothing, Decided, SaleTurns, SaleSteps, SalesTypeOK
    <3> QED BY <1>7, <3>1, <3>2
  <2>2. UNCHANGED <<moving, leadVars, dncListed, alertVars, replied, failVars>>
    BY <1>7 DEF LookForAlert, DecideNothing
  <2>3. SalesTypeOK' /\ InTrail'
    BY <2>1, <2>2 DEF SalesTypeOK, SaleTurns, leadVars, alertVars, failVars, InTrail
  <2>4. OneAlert'
    BY <2>1, <2>2, QuietKeepsAlert
  <2>5. AnsweredWas' /\ OptedOut'
    BY <2>1, <2>2 DEF SaleTurns, AnsweredWas, failVars, SalesTypeOK, OptedOut
  <2> QED BY <2>3, <2>4, <2>5
<1>8. ASSUME NEW s \in SalesMessages, ClaimAlert(s) PROVE SalesInv'
  <2>1. /\ SaleTurns(s) /\ sale'[s].optOut = sale[s].optOut /\ sale[s].at = "claim"
        /\ sale'[s].at = (IF alertRow THEN "support" ELSE "tellOwner")
    BY <1>8, Handled1 DEF ClaimAlert, SaleTurns, SaleSteps
  <2>2. UNCHANGED <<moving, leadVars, dncListed, ownerAlerts, replied, failVars>> /\ alertRow' = TRUE
    BY <1>8 DEF ClaimAlert
  <2>3. SalesTypeOK' /\ InTrail'
    BY <2>1, <2>2 DEF SalesTypeOK, SaleTurns, leadVars, failVars, InTrail
  <2>4. OneAlert'
    BY <2>1, <2>2 DEF OneAlert, SaleTurns, SalesTypeOK
  <2>5. AnsweredWas' /\ OptedOut'
    BY <2>1, <2>2 DEF SaleTurns, AnsweredWas, failVars, SalesTypeOK, OptedOut
  <2> QED BY <2>3, <2>4, <2>5
<1>9. ASSUME NEW s \in SalesMessages, TellOwner(s) PROVE SalesInv'
  <2>1. /\ SaleTurns(s) /\ sale'[s].optOut = sale[s].optOut /\ sale[s].at = "tellOwner" /\ sale'[s].at = "decide"
    BY <1>9, Handled1 DEF TellOwner, SaleTurns, SaleSteps
  <2>2. UNCHANGED <<moving, leadVars, dncListed, alertRow, replied, failVars>> /\ ownerAlerts' \in {ownerAlerts, ownerAlerts + 1}
    BY <1>9 DEF TellOwner
  <2>3. SalesTypeOK' /\ InTrail'
    BY <2>1, <2>2 DEF SalesTypeOK, SaleTurns, leadVars, failVars, InTrail
  <2>4. OneAlert'
    BY <2>1, <2>2 DEF OneAlert, SaleTurns
  <2>5. AnsweredWas' /\ OptedOut'
    BY <2>1, <2>2 DEF SaleTurns, AnsweredWas, failVars, SalesTypeOK, OptedOut
  <2> QED BY <2>3, <2>4, <2>5
<1>10. ASSUME NEW s \in SalesMessages, DecideReply(s) \/ MarkSalesSent(s) PROVE SalesInv'
  <2>1. /\ SaleTurns(s) /\ sale'[s].optOut = sale[s].optOut
        /\ \/ sale[s].at = "decide" /\ sale'[s].at = "send"
           \/ sale[s].at = "sent" /\ sale'[s].at = "handled"
    <3>1. CASE MarkSalesSent(s)
      BY <3>1, Handled1 DEF MarkSalesSent, SaleTurns, SaleSteps
    <3>2. CASE DecideReply(s)
      BY <3>2 DEF DecideReply, Decided, SaleTurns, SaleSteps, SaleDecisions, SalesTypeOK
    <3> QED BY <1>10, <3>1, <3>2
  <2>2. UNCHANGED <<moving, leadVars, dncListed, alertVars, replied, failVars>>
    BY <1>10 DEF DecideReply, MarkSalesSent
  <2>3. SalesTypeOK' /\ InTrail'
    BY <2>1, <2>2 DEF SalesTypeOK, SaleTurns, leadVars, alertVars, failVars, InTrail
  <2>4. OneAlert'
    BY <2>1, <2>2, QuietKeepsAlert
  <2>5. AnsweredWas' /\ OptedOut'
    BY <2>1, <2>2 DEF SaleTurns, AnsweredWas, failVars, SalesTypeOK, OptedOut
  <2> QED BY <2>3, <2>4, <2>5
<1>11. ASSUME NEW s \in SalesMessages, DecideHandOver(s) PROVE SalesInv'
  <2>1. /\ SaleTurns(s) /\ sale'[s].optOut = sale[s].optOut /\ sale[s].at = "decide" /\ sale'[s].at = "handled"
    BY <1>11 DEF DecideHandOver, Decided, SaleTurns, SaleSteps, SaleDecisions, SalesTypeOK
  <2>2. /\ UNCHANGED <<leadVars, dncListed, alertVars, replied, failVars>> /\ moving[s].at = "no"
        /\ AndMoves(s, "HANDED_TO_SUPPORT") \/ AndMoves(s, "CUSTOM_SOFTWARE_REQUEST")
    BY <1>11 DEF DecideHandOver, Decided
  <2>3. Aside(s)
    BY <2>2 DEF AndMoves, SalesTypeOK, Aside, Shifts, LeadStatuses
  <2>4. SalesTypeOK'
    BY <2>1, <2>2, <2>3 DEF SalesTypeOK, SaleTurns, Aside, Shifts, leadVars, alertVars, failVars
  <2>5. OneAlert' /\ InTrail'
    BY <2>1, <2>2, <2>3, QuietKeepsAlert, AsideKeepsTrail
  <2>6. AnsweredWas' /\ OptedOut'
    BY <2>1, <2>2 DEF AnsweredWas, OptedOut, SaleTurns, failVars, SalesTypeOK
  <2> QED BY <2>4, <2>5, <2>6
<1>12. ASSUME NEW s \in SalesMessages, SendReply(s) PROVE SalesInv'
  <2>1. /\ SaleTurns(s) /\ sale'[s].optOut = sale[s].optOut /\ sale[s].at = "send" /\ sale'[s].at \in {"sent", "handled"}
    BY <1>12, Handled1 DEF SendReply, SaleTurns, SaleSteps
  <2>2. UNCHANGED <<moving, leadVars, dncListed, alertVars, failVars>> /\ replied' \in {replied, replied \cup {s}}
    BY <1>12 DEF SendReply
  <2>3. SalesTypeOK' /\ InTrail'
    BY <2>1, <2>2 DEF SalesTypeOK, SaleTurns, leadVars, alertVars, failVars, InTrail
  <2>4. OneAlert'
    BY <2>1, <2>2, QuietKeepsAlert
  <2>5. AnsweredWas' /\ OptedOut'
    BY <2>1, <2>2 DEF SaleTurns, AnsweredWas, failVars, SalesTypeOK, OptedOut
  <2> QED BY <2>3, <2>4, <2>5
<1>13. ASSUME NEW s \in SalesMessages, LookAtLead(s) PROVE SalesInv'
  <2>1. Aside(s)
    BY <1>13 DEF LookAtLead, Aside, Shifts, SalesTypeOK, Still, LeadStatuses
  <2>2. InTrail'
    BY <2>1, AsideKeepsTrail
  <2> QED BY <1>13, <2>1, <2>2 DEF LookAtLead, Aside, Shifts, SalesTypeOK, leadVars, alertVars,
      failVars, OneAlert, AnsweredWas, OptedOut
<1>14. ASSUME NEW s \in SalesMessages, WriteLead(s) PROVE SalesInv'
  <2>1. /\ Shifts(s) /\ moving[s].at = "write" /\ moving'[s].at = "record" /\ moving'[s].to = moving[s].to
        /\ leadNow' = moving[s].to /\ leadNow' \in LeadStatuses
    BY <1>14 DEF WriteLead, Shifts, SalesTypeOK
  <2>2. UNCHANGED <<sale, trail, dncListed, alertVars, replied, failVars>> /\ interleaved' = (interleaved \/ MovingElsewhere(s))
    BY <1>14 DEF WriteLead
  <2>3. InTrail'
    <3>1. CASE interleaved \/ MovingElsewhere(s)
      BY <2>2, <3>1 DEF InTrail
    <3>2. CASE ~interleaved /\ ~MovingElsewhere(s)
      <4>1. \A u \in SalesMessages : moving'[u].at = "record" => u = s
        BY <2>1, <3>2 DEF MovingElsewhere, Shifts
      <4> QED BY <2>1, <4>1 DEF InTrail
    <3> QED BY <3>1, <3>2
  <2>4. MovingElsewhere(s) \in BOOLEAN
    BY DEF MovingElsewhere
  <2>5. SalesTypeOK'
    BY <2>1, <2>2, <2>4 DEF SalesTypeOK, Shifts, alertVars, failVars
  <2> QED BY <2>2, <2>3, <2>5 DEF alertVars, failVars, OneAlert, AnsweredWas, OptedOut
<1>15. ASSUME NEW s \in SalesMessages, RecordTransition(s) PROVE SalesInv'
  <2>1. /\ Shifts(s) /\ moving[s].at = "record" /\ moving'[s].at = "no"
        /\ trail' = moving[s].to /\ trail' \in LeadStatuses
    BY <1>15 DEF RecordTransition, Shifts, SalesTypeOK, Still, LeadStatuses
  <2>2. UNCHANGED <<sale, leadNow, interleaved, dncListed, alertVars, replied, failVars>>
    BY <1>15 DEF RecordTransition
  <2>3. InTrail'
    BY <2>1, <2>2 DEF InTrail, Shifts
  <2>5. SalesTypeOK'
    BY <2>1, <2>2 DEF SalesTypeOK, Shifts, alertVars, failVars
  <2> QED BY <2>2, <2>3, <2>5 DEF alertVars, failVars, OneAlert, AnsweredWas, OptedOut
<1>16. ASSUME NEW s \in SalesMessages, SalesFails(s) \/ SalesDies(s) PROVE SalesInv'
  <2>1. PICK at \in {"support", "dead"} : Stop(s, at) /\ SalesFault(s) /\ sale[s].at \notin {"idle", "support", "dead"}
    BY <1>16 DEF SalesFails, SalesDies
  <2>2. SaleTurns(s) /\ sale'[s].at = at /\ sale'[s].optOut = sale[s].optOut
    <3>1. sale' = [sale EXCEPT ![s].at = at, ![s].decision = "NO_REPLY", ![s].hot = FALSE]
      BY <2>1 DEF Stop
    <3>2. at \in SaleSteps /\ "NO_REPLY" \in SaleDecisions
      BY DEF SaleSteps, SaleDecisions
    <3> QED BY <3>1, <3>2 DEF SaleTurns, SalesTypeOK
  <2>3. /\ Shifts(s) /\ moving'[s].at = "no" /\ interleaved' = (interleaved \/ moving[s].at = "record")
        /\ UNCHANGED <<leadNow, trail, dncListed, alertVars, replied>>
    BY <2>1 DEF Stop, Shifts, Still, Lost, SalesTypeOK, LeadStatuses
  <2>4. broken' = broken \cup {s} /\ salesFaults' \in 0..SalesFaults
    BY <2>1, <1>i DEF SalesFault, SalesTypeOK
  <2>5. InTrail'
    BY <2>3 DEF InTrail, Shifts
  <2>6. OneAlert'
    BY <2>2, <2>3, QuietKeepsAlert
  <2>7. AnsweredWas' /\ OptedOut'
    BY <2>1, <2>2, <2>3, <2>4 DEF SaleTurns, AnsweredWas, SalesTypeOK, OptedOut
  <2>8. SalesTypeOK'
    BY <2>2, <2>3, <2>4 DEF SalesTypeOK, SaleTurns, Shifts, alertVars
  <2> QED BY <2>5, <2>6, <2>7, <2>8
<1> QED BY <1>0, <1>1, <1>2, <1>3, <1>4, <1>5, <1>6, <1>7, <1>8, <1>9, <1>10, <1>11, <1>12,
    <1>13, <1>14, <1>15, <1>16 DEF SalesNext

\* Handlers, transitions and the lead are what the code can store (sales-conversation.service.ts).
THEOREM SalesTypeCorrect == SalesSpec => []SalesTypeOK
<1>1. SalesInv => SalesTypeOK
  BY DEF SalesInv
<1> QED BY <1>1, SalesStart, SalesStep, PTL DEF SalesSpec

\* One alert, no answer to who opted out, and a trail that ends with the lead's status (sales-conversation.service.ts, leads.service.ts).
THEOREM SalesCorrect == SalesSpec => []SalesTurnsHold
<1>1. SalesInv => SalesTurnsHold
  BY DEF SalesInv, OneAlert, AnsweredWas, OptedOut, InTrail, SalesTurnsHold
<1> QED BY <1>1, SalesStart, SalesStep, PTL DEF SalesSpec

-----------------------------------------------------------------------------
(* The screens of the inbox *)

ScreenRows == (1 .. MaxItems) \X (0 .. Updates)
FetchStates == [at : {"none", "asked", "answered"}, rows : Seq(ScreenRows)]

ScreensTyped ==
  /\ page \in {"conversation", "inbox"} /\ items \in 1 .. MaxItems /\ status \in [1 .. MaxItems -> 0 .. Updates]
  /\ unsent \subseteq Events /\ wire \subseteq Events
  /\ token \in BOOLEAN /\ session \in BOOLEAN /\ up \in BOOLEAN /\ loaded \in BOOLEAN /\ failed \in BOOLEAN
  /\ tries \in 0 .. Reconnections /\ shown \in Seq(ScreenRows) /\ fetch \in [1 .. Fetches -> FetchStates]
  /\ raced \subseteq 1 .. MaxItems /\ missed \subseteq 1 .. MaxItems
  /\ updates \in 0 .. Updates /\ screenFaults \in 0 .. ScreenFaults

\* Rows of a page: each item once, and none ahead of itself.
RowsAgree(rows, st) ==
  /\ \A k, n \in DOMAIN rows : rows[k][1] = rows[n][1] => k = n
  /\ \A k \in DOMAIN rows : rows[k][2] <= st[rows[k][1]]

RowsSound == RowsAgree(shown, status) /\ \A f \in 1 .. Fetches : RowsAgree(fetch[f].rows, status)
EventsSound == \A e \in unsent \cup wire : e[3] <= status[e[2]] /\ (e[1] = "new" => e[3] = 0)
StatusSound == \A i \in 1 .. MaxItems : status[i] <= updates /\ (i > items => status[i] = 0)
SocketIsOurs == up => token
FirstLoad == page = "conversation" /\ token /\ ~loaded /\ ~failed => \E f \in 1 .. Fetches : fetch[f].at # "none"

\* How the page comes to know of an item: it is asked about, on its way, or known to every answer.
Says(rows, st, i) == \E k \in DOMAIN rows : rows[k] = <<i, st[i]>>
AskedFor == \E f \in 1 .. Fetches : fetch[f].at = "asked"
Coming(i) == \E e \in unsent \cup wire : e[2] = i /\ e[3] = status[i]
KnownToAll(i) == (\A f \in Answers : Says(fetch[f].rows, status, i)) /\ (Says(shown, status, i) \/ Answers # {})
Told(i) == i \in raced \cup missed \/ OffThePage(i) \/ AskedFor \/ Coming(i) \/ KnownToAll(i)
Watching == token /\ ~failed /\ (page = "inbox" \/ up)
AllTold == Watching => \A i \in 1 .. items : Told(i)

ScreensInv ==
  /\ ScreensTyped /\ RowsSound /\ EventsSound /\ StatusSound /\ SocketIsOurs /\ FirstLoad /\ AllTold

\* The bounds are numbers, and there is an item.
LEMMA ScreenConstants ==
  /\ MaxItems \in Nat /\ MaxItems > 0 /\ Updates \in Nat /\ PageLimit \in Nat /\ Reconnections \in Nat /\ Fetches \in Nat
  /\ ScreenFaults \in Nat
BY ScreensAssumption

\* A fault within the bound.
LEMMA OneMoreFault ==
  ASSUME ScreensTyped, Fails
  PROVE  screenFaults' \in 0 .. ScreenFaults
BY ScreenConstants DEF ScreensTyped, Fails

\* One more request, and what is known of those there are.
LEMMA OneMoreLoad ==
  ASSUME ScreensTyped, Load
  PROVE  /\ fetch' \in [1 .. Fetches -> FetchStates] /\ AskedFor'
         /\ \E f \in 1 .. Fetches : fetch'[f].at # "none"
         /\ \A f \in 1 .. Fetches : fetch'[f].rows = fetch[f].rows
<1>1. PICK f \in 1 .. Fetches : fetch[f].at = "none" /\ fetch' = [fetch EXCEPT ![f].at = "asked"]
  BY DEF Load
<1>2. fetch[f] \in FetchStates
  BY DEF ScreensTyped
<1>3. [fetch[f] EXCEPT !.at = "asked"] \in FetchStates /\ [fetch[f] EXCEPT !.at = "asked"].at = "asked"
      /\ [fetch[f] EXCEPT !.at = "asked"].rows = fetch[f].rows
  BY <1>2 DEF FetchStates
<1>4. fetch' = [fetch EXCEPT ![f] = [fetch[f] EXCEPT !.at = "asked"]]
  BY <1>1
<1>5. /\ fetch' \in [1 .. Fetches -> FetchStates] /\ fetch'[f].at = "asked"
      /\ \A g \in 1 .. Fetches : fetch'[g].rows = fetch[g].rows
  BY <1>3, <1>4 DEF ScreensTyped
<1> QED BY <1>5 DEF AskedFor

\* What is told of an item stays, where neither the item nor the page changes.
LEMMA ToldStays ==
  ASSUME NEW i \in 1 .. items, Told(i), page' = page, raced \subseteq raced', missed \subseteq missed',
         OffThePage(i) => OffThePage(i)', status'[i] = status[i],
         Coming(i) => Coming(i)' \/ i \in missed',
         fetch' = fetch, shown' = shown
  PROVE  Told(i)'
<1>1. KnownToAll(i) => KnownToAll(i)'
  BY DEF KnownToAll, Says, Answers
<1>2. AskedFor => AskedFor'
  BY DEF AskedFor
<1> QED BY <1>1, <1>2 DEF Told

\* An item that is off the page stays so, for items only come.
LEMMA StaysOff ==
  ASSUME ScreensTyped, page' = page, items' \in Nat, items <= items', NEW i \in 1 .. items
  PROVE  OffThePage(i) => OffThePage(i)'
BY ScreenConstants DEF ScreensTyped, OffThePage

\* Whoever is asked again is told of everything.
LEMMA AskedTellsAll ==
  ASSUME AskedFor
  PROVE  AllTold
BY DEF AllTold, Told

-----------------------------------------------------------------------------
\* A news that is new, and its event.
LEMMA NewRow ==
  ASSUME ScreensInv, items < MaxItems, items' = items + 1, unsent' = unsent \cup {<<"new", items + 1, 0>>},
         status' = status, wire' = wire, updates' = updates
  PROVE  /\ items' \in 1 .. MaxItems /\ unsent' \subseteq Events /\ EventsSound' /\ StatusSound'
         /\ (\A i \in 1 .. items' : i = items + 1 => Coming(i)')
         /\ \A i \in 1 .. items : Coming(i) => Coming(i)'
<1> USE ScreenConstants
<1>1. items' \in 1 .. MaxItems /\ items + 1 \in 1 .. MaxItems
  BY DEF ScreensInv, ScreensTyped
<1>2. status[items + 1] = 0
  BY <1>1 DEF ScreensInv, ScreensTyped, StatusSound
<1>3. <<"new", items + 1, 0>> \in Events
  BY <1>1 DEF Events
<1>4. EventsSound'
  <2> SUFFICES ASSUME NEW e \in unsent' \cup wire' PROVE e[3] <= status'[e[2]] /\ (e[1] = "new" => e[3] = 0)
    BY DEF EventsSound
  <2>1. CASE e \in unsent \cup wire
    BY <2>1 DEF ScreensInv, EventsSound
  <2>2. CASE e = <<"new", items + 1, 0>>
    BY <1>2, <2>2
  <2> QED BY <2>1, <2>2
<1>5. StatusSound'
  BY <1>1 DEF ScreensInv, ScreensTyped, StatusSound
<1>6. ASSUME NEW i \in 1 .. items', i = items + 1 PROVE Coming(i)'
  <2> DEFINE e == <<"new", items + 1, 0>>
  <2>1. e \in unsent' /\ e[2] = i /\ e[3] = status'[i]
    BY <1>2, <1>6
  <2> QED BY <2>1 DEF Coming
<1>7. \A i \in 1 .. items : Coming(i) => Coming(i)'
  BY DEF Coming
<1> QED BY <1>1, <1>3, <1>4, <1>5, <1>6, <1>7 DEF ScreensInv, ScreensTyped

\* An item that comes into being has its event to be emitted.
LEMMA CreateItemStep ==
  ASSUME ScreensInv, CreateItem
  PROVE  ScreensInv'
<1> USE DEF source, eventQueues, login, socket, excuses
<1>1. /\ items' \in 1 .. MaxItems /\ unsent' \subseteq Events /\ EventsSound' /\ StatusSound'
      /\ (\A i \in 1 .. items' : i = items + 1 => Coming(i)')
      /\ \A i \in 1 .. items : Coming(i) => Coming(i)'
  BY NewRow DEF CreateItem
<1>2. ScreensTyped'
  BY <1>1 DEF CreateItem, ScreensInv, ScreensTyped
<1>3. RowsSound' /\ SocketIsOurs' /\ FirstLoad'
  BY DEF CreateItem, ScreensInv, RowsSound, SocketIsOurs, FirstLoad
<1>4. AllTold'
  <2> SUFFICES ASSUME Watching', NEW i \in 1 .. items' PROVE Told(i)'
    BY DEF AllTold
  <2>1. CASE i = items + 1
    BY <1>1, <2>1 DEF Told
  <2>2. CASE i # items + 1
    <3>1. i \in 1 .. items
      BY <2>2 DEF CreateItem, ScreensInv, ScreensTyped
    <3>2. Told(i)
      BY <3>1 DEF CreateItem, ScreensInv, AllTold, Watching
    <3>3. OffThePage(i) => OffThePage(i)'
      BY <3>1, StaysOff DEF CreateItem, ScreensInv, ScreensTyped
    <3> QED BY <1>1, <3>1, <3>2, <3>3, ToldStays DEF CreateItem
  <2> QED BY <2>1, <2>2
<1> QED BY <1>1, <1>2, <1>3, <1>4 DEF ScreensInv

\* A message that is sent is asked for again.
LEMMA SendStep ==
  ASSUME ScreensInv, SendMessage
  PROVE  ScreensInv'
<1> USE DEF source, eventQueues, login, socket, excuses
<1>1. /\ items' \in 1 .. MaxItems /\ unsent' \subseteq Events /\ EventsSound' /\ StatusSound'
  BY NewRow DEF SendMessage
<1>2. /\ fetch' \in [1 .. Fetches -> FetchStates] /\ AskedFor' /\ \E f \in 1 .. Fetches : fetch'[f].at # "none"
      /\ \A f \in 1 .. Fetches : fetch'[f].rows = fetch[f].rows
  BY OneMoreLoad DEF SendMessage, ScreensInv
<1>3. ScreensTyped'
  BY <1>1, <1>2 DEF SendMessage, ScreensInv, ScreensTyped
<1>4. RowsSound' /\ SocketIsOurs' /\ FirstLoad'
  BY <1>2 DEF SendMessage, ScreensInv, RowsSound, SocketIsOurs, FirstLoad
<1>5. AllTold'
  BY <1>2, AskedTellsAll DEF AllTold, Told
<1> QED BY <1>1, <1>3, <1>4, <1>5 DEF ScreensInv

\* An action asks again.
LEMMA RunActionStep ==
  ASSUME ScreensInv, RunAction
  PROVE  ScreensInv'
<1> USE DEF source, eventQueues, login, socket, excuses
<1>2. /\ fetch' \in [1 .. Fetches -> FetchStates] /\ AskedFor' /\ \E f \in 1 .. Fetches : fetch'[f].at # "none"
      /\ \A f \in 1 .. Fetches : fetch'[f].rows = fetch[f].rows
  BY OneMoreLoad DEF RunAction, ScreensInv
<1>3. ScreensTyped'
  BY <1>2 DEF RunAction, ScreensInv, ScreensTyped
<1>4. RowsSound' /\ SocketIsOurs' /\ FirstLoad' /\ EventsSound' /\ StatusSound'
  BY <1>2 DEF RunAction, ScreensInv, RowsSound, SocketIsOurs, FirstLoad, EventsSound, StatusSound
<1>5. AllTold'
  BY <1>2 DEF AllTold, Told
<1> QED BY <1>3, <1>4, <1>5 DEF ScreensInv

\* A status that changes has its event to be emitted, which says more than any before it.
LEMMA ChangeStatusStep ==
  ASSUME ScreensInv, NEW j \in 1 .. MaxItems, ChangeStatus(j)
  PROVE  ScreensInv'
<1> USE DEF source, eventQueues, login, socket, excuses
<1> DEFINE new == <<"status", j, status[j] + 1>>
<1>0. j <= items /\ updates < Updates /\ updates' = updates + 1 /\ status' = [status EXCEPT ![j] = status[j] + 1]
      /\ unsent' = unsent \cup {new}
  BY DEF ChangeStatus
<1>1. /\ status[j] \in Nat /\ status[j] <= updates /\ updates \in Nat /\ Updates \in Nat /\ status[j] + 1 \in 0 .. Updates
      /\ updates' \in 0 .. Updates
  BY <1>0, ScreenConstants DEF ScreensInv, ScreensTyped, StatusSound
<1>2. /\ status' \in [1 .. MaxItems -> 0 .. Updates] /\ status'[j] = status[j] + 1
      /\ \A i \in 1 .. MaxItems : i # j => status'[i] = status[i]
  BY <1>0, <1>1 DEF ScreensInv, ScreensTyped
<1>3. \A i \in 1 .. MaxItems : \A n \in 0 .. Updates : n <= status[i] => n <= status'[i]
  <2> SUFFICES ASSUME NEW i \in 1 .. MaxItems, NEW n \in 0 .. Updates, n <= status[i] PROVE n <= status'[i]
    OBVIOUS
  <2>1. status[i] \in Nat /\ n \in Nat
    BY ScreenConstants DEF ScreensInv, ScreensTyped
  <2>2. status'[i] = status[i] \/ (status'[i] = status[i] + 1)
    BY <1>2
  <2> QED BY <2>1, <2>2
<1>4. new \in Events
  BY <1>1 DEF Events
<1>5. ScreensTyped'
  BY <1>0, <1>1, <1>2, <1>4 DEF ChangeStatus, ScreensInv, ScreensTyped
<1>6. ASSUME NEW rows \in Seq(ScreenRows), RowsAgree(rows, status) PROVE RowsAgree(rows, status')
  <2>1. \A k \in DOMAIN rows : rows[k] \in ScreenRows
    OBVIOUS
  <2>2. \A k \in DOMAIN rows : rows[k][1] \in 1 .. MaxItems /\ rows[k][2] \in 0 .. Updates
    BY <2>1 DEF ScreenRows
  <2> QED BY <1>3, <1>6, <2>2 DEF RowsAgree
<1>7. RowsSound'
  <2>1. \A f \in 1 .. Fetches : fetch[f].rows \in Seq(ScreenRows)
    BY DEF ScreensInv, ScreensTyped, FetchStates
  <2>2. shown \in Seq(ScreenRows) /\ shown' = shown /\ fetch' = fetch
    BY DEF ScreensInv, ScreensTyped, ChangeStatus
  <2> QED BY <1>6, <2>1, <2>2 DEF ScreensInv, RowsSound
<1>8. EventsSound'
  <2> SUFFICES ASSUME NEW e \in unsent' \cup wire' PROVE e[3] <= status'[e[2]] /\ (e[1] = "new" => e[3] = 0)
    BY DEF EventsSound
  <2>1. CASE e \in unsent \cup wire
    <3>1. e \in Events /\ e[3] <= status[e[2]] /\ (e[1] = "new" => e[3] = 0)
      BY <2>1 DEF ScreensInv, ScreensTyped, EventsSound
    <3>2. e[2] \in 1 .. MaxItems /\ e[3] \in 0 .. Updates
      BY <3>1 DEF Events
    <3> QED BY <1>3, <3>1, <3>2
  <2>2. CASE e = new
    BY <1>1, <1>2, <2>2
  <2> QED BY <1>0, <2>1, <2>2 DEF ChangeStatus
<1>9. StatusSound'
  BY <1>0, <1>1, <1>2, ScreenConstants DEF ChangeStatus, ScreensInv, ScreensTyped, StatusSound
<1>10. SocketIsOurs' /\ FirstLoad'
  BY DEF ChangeStatus, ScreensInv, SocketIsOurs, FirstLoad
<1>11. AllTold'
  <2> SUFFICES ASSUME Watching', NEW i \in 1 .. items' PROVE Told(i)'
    BY DEF AllTold
  <2>1. i \in 1 .. items /\ Told(i) /\ i \in 1 .. MaxItems
    <3>1. items' = items /\ items \in 1 .. MaxItems /\ MaxItems \in Nat
      BY ScreenConstants DEF ChangeStatus, ScreensInv, ScreensTyped
    <3>2. Watching
      BY DEF ChangeStatus, Watching
    <3>3. i \in 1 .. items /\ i \in 1 .. MaxItems
      BY <3>1
    <3> QED BY <3>2, <3>3 DEF ScreensInv, AllTold
  <2>2. CASE i = j
    <3>1. new \in unsent' /\ new[2] = j /\ new[3] = status'[j]
      BY <1>0, <1>2
    <3> QED BY <2>2, <3>1 DEF Told, Coming
  <2>3. CASE i # j
    <3>1. status'[i] = status[i]
      BY <1>2, <2>1, <2>3
    <3>2. Coming(i) => Coming(i)'
      BY <1>0, <3>1 DEF Coming, ChangeStatus
    <3>3. OffThePage(i) => OffThePage(i)'
      BY DEF OffThePage, ChangeStatus
    <3> QED BY <2>1, <3>1, <3>2, <3>3, ToldStays DEF ChangeStatus
  <2> QED BY <2>2, <2>3
<1> QED BY <1>5, <1>7, <1>8, <1>9, <1>10, <1>11 DEF ScreensInv

\* The event is on its way, or the page is not watching, or has missed it.
LEMMA EmitStep ==
  ASSUME ScreensInv, NEW e \in unsent, Emit(e)
  PROVE  ScreensInv'
<1> USE DEF source, eventQueues, login, socket, excuses
<1>1. e \in Events /\ e[2] \in 1 .. MaxItems
  BY DEF ScreensInv, ScreensTyped, Events
<1>2. /\ unsent' \subseteq Events /\ wire' \subseteq Events /\ unsent' \cup wire' \subseteq unsent \cup wire
      /\ missed \subseteq missed' /\ missed' \subseteq 1 .. MaxItems /\ screenFaults' \in 0 .. ScreenFaults
  BY <1>1, OneMoreFault DEF Emit, ScreensInv, ScreensTyped
<1>3. ScreensTyped'
  BY <1>2 DEF Emit, ScreensInv, ScreensTyped
<1>4. RowsSound' /\ SocketIsOurs' /\ FirstLoad' /\ StatusSound'
  BY DEF Emit, ScreensInv, RowsSound, SocketIsOurs, FirstLoad, StatusSound
<1>5. EventsSound'
  BY <1>2 DEF Emit, ScreensInv, EventsSound
<1>6. AllTold'
  <2> SUFFICES ASSUME Watching', NEW i \in 1 .. items' PROVE Told(i)'
    BY DEF AllTold
  <2>1. i \in 1 .. items /\ Told(i) /\ page' = page /\ status' = status /\ up' = up
    BY DEF Emit, ScreensInv, AllTold, Watching
  <2>2. ASSUME Coming(i) PROVE Coming(i)' \/ i \in missed'
    <3>1. PICK d \in unsent \cup wire : d[2] = i /\ d[3] = status[i]
      BY <2>2 DEF Coming
    <3>2. CASE d \in unsent' \cup wire'
      BY <2>1, <3>1, <3>2 DEF Coming
    <3>3. CASE d \notin unsent' \cup wire'
      <4>1. d = e /\ e \notin wire'
        BY <3>1, <3>3 DEF Emit
      <4>2. page = "inbox" \/ up
        BY <2>1 DEF Watching
      <4>3. e[2] \in missed'
        BY <4>1, <4>2 DEF Emit
      <4> QED BY <3>1, <4>1, <4>3
    <3> QED BY <3>2, <3>3
  <2>3. OffThePage(i) => OffThePage(i)'
    BY DEF OffThePage, Emit
  <2> QED BY <1>2, <2>1, <2>2, <2>3, ToldStays DEF Emit
<1> QED BY <1>3, <1>4, <1>5, <1>6 DEF ScreensInv

\* What the server answers: every item of the page, as it is.
LEMMA RowsAre ==
  ASSUME ScreensTyped
  PROVE  /\ Rows \in Seq(ScreenRows) /\ RowsAgree(Rows, status)
         /\ \A i \in 1 .. items : OffThePage(i) \/ Says(Rows, status, i)
<1> USE ScreenConstants
<1> DEFINE first == IF page = "inbox" /\ items > PageLimit THEN items - PageLimit ELSE 0
           number == IF items < PageLimit THEN items ELSE PageLimit
<1>1. items \in 1 .. MaxItems /\ status \in [1 .. MaxItems -> 0 .. Updates] /\ page \in {"conversation", "inbox"}
  BY DEF ScreensTyped
<1>2. first \in Nat /\ number \in Nat /\ first + number <= items
  BY <1>1
<1>3. Rows = [k \in 1 .. number |-> <<first + k, status[first + k]>>]
  BY DEF Rows
<1>4. \A i \in 1 .. items : ~OffThePage(i) => i > first /\ i - first \in 1 .. number
  BY <1>1 DEF OffThePage
<1> HIDE DEF first, number
<1>5. \A k \in 1 .. number : first + k \in 1 .. MaxItems /\ status[first + k] \in 0 .. Updates
  BY <1>1, <1>2
<1>6. \A k \in 1 .. number : <<first + k, status[first + k]>> \in ScreenRows
  BY <1>5 DEF ScreenRows
<1>7. Rows \in Seq(ScreenRows)
  <2>1. Rows \in [1 .. number -> ScreenRows]
    BY <1>3, <1>6
  <2> QED BY <1>2, <2>1, SeqDef
<1>8. DOMAIN Rows = 1 .. number /\ \A k \in 1 .. number : Rows[k] = <<first + k, status[first + k]>>
  BY <1>3
<1>9. RowsAgree(Rows, status)
  <2>1. \A k, n \in 1 .. number : Rows[k][1] = Rows[n][1] => k = n
    BY <1>2, <1>8
  <2>2. \A k \in 1 .. number : Rows[k][2] <= status[Rows[k][1]]
    BY <1>5, <1>8
  <2> QED BY <1>8, <2>1, <2>2 DEF RowsAgree
<1>10. ASSUME NEW i \in 1 .. items, ~OffThePage(i) PROVE Says(Rows, status, i)
  <2> DEFINE k == i - first
  <2>1. k \in 1 .. number /\ first + k = i
    BY <1>1, <1>2, <1>4, <1>10
  <2>2. k \in DOMAIN Rows /\ Rows[k] = <<i, status[i]>>
    BY <1>8, <2>1
  <2> QED BY <2>2 DEF Says
<1> QED BY <1>7, <1>9, <1>10

\* A page with no requests, and nothing on it.
LEMMA NothingFetched ==
  /\ [f \in 1 .. Fetches |-> NoAnswer] \in [1 .. Fetches -> FetchStates]
  /\ NoAnswer \in FetchStates /\ NoAnswer.at = "none" /\ NoAnswer.rows = <<>>
  /\ \A st : RowsAgree(<<>>, st)
BY DEF FetchStates, NoAnswer, RowsAgree

\* Nothing is promised to a page that has been left.
LEMMA LeaveStep ==
  ASSUME ScreensInv, Leave, session' \in BOOLEAN, screenFaults' \in 0 .. ScreenFaults,
         UNCHANGED <<page, source, unsent, excuses, updates>>
  PROVE  ScreensInv'
<1> USE DEF source, eventQueues, login, socket, excuses
<1>1. fetch' \in [1 .. Fetches -> FetchStates] /\ tries' \in 0 .. Reconnections /\ shown' = <<>>
      /\ (\A f \in 1 .. Fetches : fetch'[f].rows = <<>>)
  BY NothingFetched, ScreenConstants DEF Leave
<1>2. ScreensTyped'
  <2>1. shown' \in Seq(ScreenRows) /\ wire' \subseteq Events /\ loaded' \in BOOLEAN /\ up' \in BOOLEAN /\ token' \in BOOLEAN
    <3>1. shown' = <<>> /\ wire' = {} /\ loaded' = FALSE /\ up' = FALSE /\ token' = FALSE
      BY DEF Leave
    <3>2. <<>> \in Seq(ScreenRows)
      OBVIOUS
    <3>3. wire' \subseteq Events /\ shown' \in Seq(ScreenRows)
      BY <3>1, <3>2, Zenon
    <3>4. loaded' \in BOOLEAN /\ up' \in BOOLEAN /\ token' \in BOOLEAN
      BY <3>1, Zenon
    <3> QED BY <3>3, <3>4
  <2> QED BY <1>1, <2>1 DEF ScreensInv, ScreensTyped
<1>3. RowsSound'
  BY <1>1, NothingFetched DEF RowsSound
<1>4. EventsSound' /\ StatusSound' /\ SocketIsOurs' /\ FirstLoad' /\ AllTold'
  BY DEF Leave, ScreensInv, EventsSound, StatusSound, SocketIsOurs, FirstLoad, AllTold, Watching
<1> QED BY <1>2, <1>3, <1>4 DEF ScreensInv

\* Whoever signs out leaves the page.
LEMMA SignOutStep ==
  ASSUME ScreensInv, SignOut
  PROVE  ScreensInv'
<1>1. session' \in BOOLEAN
  BY DEF SignOut, ScreensInv, ScreensTyped
<1> QED BY <1>1, LeaveStep, OneMoreFault DEF SignOut, ScreensInv

\* The answer says what the page holds; one that is still under way knows less, or as much.
LEMMA AnswerStep ==
  ASSUME ScreensInv, NEW f \in 1 .. Fetches, Answer(f)
  PROVE  ScreensInv'
<1> USE DEF source, eventQueues, login, socket, excuses
<1>1. CASE ~session /\ Leave /\ UNCHANGED <<session, raced>>
  <2>1. session' \in BOOLEAN /\ screenFaults' \in 0 .. ScreenFaults /\ UNCHANGED <<page, source, unsent, excuses, updates>>
    BY <1>1 DEF Answer, ScreensInv, ScreensTyped
  <2> QED BY <1>1, <2>1, LeaveStep
<1>2. CASE session /\ fetch' = [fetch EXCEPT ![f] = [at |-> "answered", rows |-> Rows]]
  <2> DEFINE answer == [at |-> "answered", rows |-> Rows]
  <2>1. /\ Rows \in Seq(ScreenRows) /\ RowsAgree(Rows, status)
        /\ \A i \in 1 .. items : OffThePage(i) \/ Says(Rows, status, i)
    BY RowsAre DEF ScreensInv
  <2>2. answer \in FetchStates /\ answer.at = "answered" /\ answer.rows = Rows
    BY <2>1 DEF FetchStates
  <2> HIDE DEF answer
  <2>3. fetch' = [fetch EXCEPT ![f] = answer]
    BY <1>2 DEF answer
  <2>4. fetch' \in [1 .. Fetches -> FetchStates] /\ fetch'[f] = answer /\ \A g \in 1 .. Fetches : g # f => fetch'[g] = fetch[g]
    BY <2>2, <2>3 DEF ScreensInv, ScreensTyped
  <2>5. /\ raced' = raced \cup {i \in 1 .. items : \E g \in Answers : ~Has(fetch[g].rows, i)}
        /\ page' = page /\ items' = items /\ status' = status /\ unsent' = unsent /\ wire' = wire
        /\ token' = token /\ session' = session /\ up' = up /\ tries' = tries /\ loaded' = loaded /\ shown' = shown
        /\ missed' = missed /\ failed' = failed /\ updates' = updates /\ screenFaults' = screenFaults
    BY <1>2, Zenon DEF Answer
  <2>6. 1 .. items \subseteq 1 .. MaxItems
    BY ScreenConstants DEF ScreensInv, ScreensTyped
  <2>7. ScreensTyped'
    BY <2>4, <2>5, <2>6 DEF ScreensInv, ScreensTyped
  <2>8. RowsSound'
    BY <2>1, <2>2, <2>4, <2>5 DEF ScreensInv, RowsSound
  <2>9. EventsSound' /\ StatusSound' /\ SocketIsOurs'
    BY <2>5 DEF ScreensInv, EventsSound, StatusSound, SocketIsOurs
  <2>10. FirstLoad'
    BY <2>2, <2>4 DEF FirstLoad
  <2>11. AllTold'
    <3> SUFFICES ASSUME Watching', NEW i \in 1 .. items', i \notin raced' \cup missed', ~OffThePage(i)' PROVE Told(i)'
      BY DEF AllTold, Told
    <3>1. i \in 1 .. items /\ ~OffThePage(i)
      BY <2>5 DEF OffThePage
    <3>2. \A g \in Answers : Says(fetch[g].rows, status, i)
      BY <2>5, <3>1 DEF Says, Has
    <3>3. \A g \in 1 .. Fetches : fetch'[g].at = "answered" => Says(fetch'[g].rows, status', i)
      BY <2>1, <2>2, <2>4, <2>5, <3>1, <3>2 DEF Answers
    <3>4. fetch'[f].at = "answered"
      BY <2>2, <2>4
    <3> QED BY <3>3, <3>4 DEF Told, KnownToAll, Answers
  <2> QED BY <2>7, <2>8, <2>9, <2>10, <2>11 DEF ScreensInv
<1> QED BY <1>1, <1>2 DEF Answer

\* The page begins by asking.
LEMMA SignInStep ==
  ASSUME ScreensInv, SignIn
  PROVE  ScreensInv'
<1> USE DEF source, eventQueues, login, socket, excuses
<1>1. /\ fetch' \in [1 .. Fetches -> FetchStates] /\ AskedFor' /\ \E f \in 1 .. Fetches : fetch'[f].at # "none"
      /\ \A f \in 1 .. Fetches : fetch'[f].rows = fetch[f].rows
  BY OneMoreLoad DEF SignIn, ScreensInv
<1>2. missed' \subseteq 1 .. MaxItems
  BY DEF SignIn, ScreensInv, ScreensTyped, Events
<1>3. ScreensTyped'
  BY <1>1, <1>2 DEF SignIn, ScreensInv, ScreensTyped
<1>4. RowsSound' /\ SocketIsOurs' /\ FirstLoad' /\ EventsSound' /\ StatusSound'
  BY <1>1 DEF SignIn, ScreensInv, RowsSound, SocketIsOurs, FirstLoad, EventsSound, StatusSound
<1>5. AllTold'
  BY <1>1 DEF AllTold, Told
<1> QED BY <1>3, <1>4, <1>5 DEF ScreensInv

\* What the answer says is shown; what the page has learnt since has crossed it.
LEMMA ApplyStep ==
  ASSUME ScreensInv, NEW f \in 1 .. Fetches, ApplyAnswer(f)
  PROVE  ScreensInv'
<1> USE DEF source, eventQueues, login, socket, excuses
<1>1. /\ fetch' \in [1 .. Fetches -> FetchStates] /\ fetch'[f] = NoAnswer /\ \A g \in 1 .. Fetches : g # f => fetch'[g] = fetch[g]
  BY NothingFetched DEF ApplyAnswer, ScreensInv, ScreensTyped
<1>2. shown' = fetch[f].rows /\ shown' \in Seq(ScreenRows) /\ loaded' = TRUE /\ fetch[f].at = "answered"
  BY DEF ApplyAnswer, ScreensInv, ScreensTyped, FetchStates
<1>3. ScreensTyped'
  BY <1>1, <1>2 DEF ApplyAnswer, ScreensInv, ScreensTyped
<1>4. RowsSound'
  BY <1>1, <1>2, NothingFetched DEF ApplyAnswer, ScreensInv, RowsSound
<1>5. EventsSound' /\ StatusSound' /\ SocketIsOurs' /\ FirstLoad'
  BY <1>2 DEF ApplyAnswer, ScreensInv, EventsSound, StatusSound, SocketIsOurs, FirstLoad
<1>6. AllTold'
  <2> SUFFICES ASSUME Watching', NEW i \in 1 .. items' PROVE Told(i)'
    BY DEF AllTold
  <2>1. i \in 1 .. items /\ Told(i) /\ status' = status
    BY DEF ApplyAnswer, ScreensInv, AllTold, Watching
  <2>2. CASE i \in raced \cup missed \/ OffThePage(i) \/ Coming(i)
    BY <2>2 DEF ApplyAnswer, Told, OffThePage, Coming
  <2>3. CASE AskedFor
    BY <1>1, <1>2, <2>3 DEF Told, AskedFor
  <2>4. CASE KnownToAll(i)
    <3>1. Says(shown', status', i)
      BY <1>2, <2>1, <2>4 DEF KnownToAll, Answers
    <3>2. \A g \in 1 .. Fetches : fetch'[g].at = "answered" => g # f
      BY <1>1, NothingFetched
    <3>3. \A g \in 1 .. Fetches : fetch'[g].at = "answered" => Says(fetch'[g].rows, status', i)
      BY <1>1, <2>1, <2>4, <3>2 DEF KnownToAll, Answers
    <3> QED BY <3>1, <3>3 DEF Told, KnownToAll, Answers
  <2> QED BY <2>1, <2>2, <2>3, <2>4 DEF Told
<1> QED BY <1>3, <1>4, <1>5, <1>6 DEF ScreensInv

\* A load that failed is nobody's promise.
LEMMA LoadFailsStep ==
  ASSUME ScreensInv, NEW f \in 1 .. Fetches, LoadFails(f)
  PROVE  ScreensInv'
<1> USE DEF source, eventQueues, login, socket, excuses
<1>1. /\ fetch' \in [1 .. Fetches -> FetchStates] /\ fetch'[f] = NoAnswer /\ \A g \in 1 .. Fetches : g # f => fetch'[g] = fetch[g]
  BY NothingFetched DEF LoadFails, ScreensInv, ScreensTyped
<1>2. ScreensTyped'
  BY <1>1, OneMoreFault DEF LoadFails, ScreensInv, ScreensTyped
<1>3. RowsSound'
  BY <1>1, NothingFetched DEF LoadFails, ScreensInv, RowsSound
<1>4. EventsSound' /\ StatusSound' /\ SocketIsOurs' /\ FirstLoad' /\ AllTold'
  BY DEF LoadFails, ScreensInv, EventsSound, StatusSound, SocketIsOurs, FirstLoad, AllTold, Watching
<1> QED BY <1>2, <1>3, <1>4 DEF ScreensInv

\* What handling an event makes of the rows.
LEMMA HandledRows ==
  ASSUME ScreensInv, NEW e \in wire
  PROVE  /\ Handled(e) \in Seq(ScreenRows) /\ RowsAgree(Handled(e), status)
         /\ \A i \in 1 .. MaxItems : i # e[2] /\ Says(shown, status, i) => Says(Handled(e), status, i)
         /\ e[3] = status[e[2]] /\ (page = "conversation" => loaded) /\ (e[1] = "status" => Shows(e[2]))
              => Says(Handled(e), status, e[2])
<1> USE ScreenConstants
<1>1. /\ e \in Events /\ e[1] \in {"new", "status"} /\ e[2] \in 1 .. MaxItems /\ e[3] \in 0 .. Updates
      /\ e[3] <= status[e[2]] /\ (e[1] = "new" => e[3] = 0) /\ <<e[2], e[3]>> \in ScreenRows
  BY DEF ScreensInv, ScreensTyped, EventsSound, Events, ScreenRows
<1>2. /\ shown \in Seq(ScreenRows) /\ RowsAgree(shown, status) /\ Len(shown) \in Nat /\ DOMAIN shown = 1 .. Len(shown)
      /\ \A k \in DOMAIN shown : shown[k] \in ScreenRows
  BY DEF ScreensInv, ScreensTyped, RowsSound
<1>3. \A k \in DOMAIN shown : shown[k][1] \in 1 .. MaxItems /\ shown[k][2] \in 0 .. Updates /\ shown[k] = <<shown[k][1], shown[k][2]>>
  BY <1>2 DEF ScreenRows
<1>4. CASE page = "conversation" /\ ~loaded
  BY <1>2, <1>4 DEF Handled
<1>5. CASE ~(page = "conversation" /\ ~loaded) /\ e[1] = "new" /\ Shows(e[2])
  <2>1. Handled(e) = shown
    BY <1>5 DEF Handled
  <2>2. ASSUME e[3] = status[e[2]] PROVE Says(shown, status, e[2])
    <3>1. PICK k \in DOMAIN shown : shown[k][1] = e[2]
      BY <1>5 DEF Shows
    <3>2. shown[k][2] <= 0 /\ status[e[2]] = 0
      BY <1>1, <1>2, <1>5, <2>2, <3>1 DEF RowsAgree
    <3>3. shown[k] = <<e[2], status[e[2]]>>
      BY <1>3, <3>1, <3>2
    <3> QED BY <3>3 DEF Says
  <2> QED BY <1>2, <2>1, <2>2
<1>6. CASE ~(page = "conversation" /\ ~loaded) /\ e[1] = "new" /\ ~Shows(e[2])
  <2> DEFINE news == <<e[2], e[3]>>
  <2>1. Handled(e) = Append(shown, news)
    BY <1>6 DEF Handled
  <2>2. news \in ScreenRows /\ news[1] = e[2] /\ news[2] = e[3]
    BY <1>1
  <2>3. \A k \in DOMAIN shown : shown[k][1] # e[2]
    BY <1>6 DEF Shows
  <2> HIDE DEF news
  <2>4. /\ Append(shown, news) \in Seq(ScreenRows) /\ DOMAIN Append(shown, news) = 1 .. Len(shown) + 1
        /\ Append(shown, news)[Len(shown) + 1] = news /\ \A k \in DOMAIN shown : Append(shown, news)[k] = shown[k]
    BY <1>2, <2>2
  <2>5. RowsAgree(Append(shown, news), status)
    <3>1. \A k \in 1 .. Len(shown) + 1 : k \in DOMAIN shown \/ k = Len(shown) + 1
      BY <1>2
    <3> QED BY <1>1, <1>2, <2>2, <2>3, <2>4, <3>1 DEF RowsAgree
  <2>6. \A i \in 1 .. MaxItems : Says(shown, status, i) => Says(Append(shown, news), status, i)
    BY <1>2, <2>4 DEF Says
  <2>7. e[3] = status[e[2]] => Says(Append(shown, news), status, e[2])
    <3>1. Len(shown) + 1 \in DOMAIN Append(shown, news)
      BY <1>2, <2>4
    <3> QED BY <2>4, <3>1 DEF Says, news
  <2> QED BY <2>1, <2>4, <2>5, <2>6, <2>7
<1>7. CASE ~(page = "conversation" /\ ~loaded) /\ e[1] = "status"
  <2> DEFINE news == <<e[2], e[3]>>
             rows == [k \in DOMAIN shown |-> IF shown[k][1] = e[2] THEN news ELSE shown[k]]
  <2>1. Handled(e) = rows
    BY <1>7 DEF Handled
  <2>2. news \in ScreenRows /\ news[1] = e[2] /\ news[2] = e[3]
    BY <1>1
  <2>3. rows \in [1 .. Len(shown) -> ScreenRows]
    BY <1>2, <2>2
  <2>4. rows \in Seq(ScreenRows)
    BY <1>2, <2>3, SeqDef
  <2>5. DOMAIN rows = DOMAIN shown /\ \A k \in DOMAIN shown : rows[k] = IF shown[k][1] = e[2] THEN news ELSE shown[k]
    OBVIOUS
  <2> HIDE DEF news, rows
  <2>6. \A k \in DOMAIN shown : rows[k][1] = shown[k][1]
    BY <2>2, <2>5
  <2>7. \A k \in DOMAIN shown : rows[k][2] <= status[rows[k][1]]
    BY <1>1, <1>2, <2>2, <2>5 DEF RowsAgree
  <2>8. RowsAgree(rows, status)
    BY <1>2, <2>5, <2>6, <2>7 DEF RowsAgree
  <2>9. \A i \in 1 .. MaxItems : i # e[2] /\ Says(shown, status, i) => Says(rows, status, i)
    <3> SUFFICES ASSUME NEW i \in 1 .. MaxItems, i # e[2], Says(shown, status, i) PROVE Says(rows, status, i)
      OBVIOUS
    <3>1. PICK k \in DOMAIN shown : shown[k] = <<i, status[i]>>
      BY DEF Says
    <3>2. rows[k] = <<i, status[i]>>
      BY <2>5, <3>1
    <3> QED BY <2>5, <3>2 DEF Says
  <2>10. ASSUME e[3] = status[e[2]], Shows(e[2]) PROVE Says(rows, status, e[2])
    <3>1. PICK k \in DOMAIN shown : shown[k][1] = e[2]
      BY <2>10 DEF Shows
    <3>2. rows[k] = <<e[2], status[e[2]]>>
      BY <2>5, <2>10, <3>1 DEF news
    <3> QED BY <2>5, <3>2 DEF Says
  <2> QED BY <1>7, <2>1, <2>4, <2>8, <2>9, <2>10
<1> QED BY <1>1, <1>4, <1>5, <1>6, <1>7

\* An event that is handled is shown, or crosses, or an answer under way knows of it.
LEMMA DeliverStep ==
  ASSUME ScreensInv, NEW e \in wire, DeliverEvent(e)
  PROVE  ScreensInv'
<1> USE DEF source, eventQueues, login, socket, excuses
<1>1. /\ page' = page /\ items' = items /\ status' = status /\ unsent' = unsent /\ wire' = wire \ {e} /\ up
      /\ token' = token /\ session' = session /\ up' = up /\ tries' = tries /\ loaded' = loaded /\ fetch' = fetch
      /\ missed' = missed /\ failed' = failed /\ updates' = updates /\ screenFaults' = screenFaults
      /\ shown' = Handled(e)
  BY DEF DeliverEvent
<1>2. /\ e \in Events /\ e[1] \in {"new", "status"} /\ e[2] \in 1 .. MaxItems /\ e[3] \in 0 .. Updates /\ e[3] <= status[e[2]]
      /\ status[e[2]] \in 0 .. Updates
  BY DEF ScreensInv, ScreensTyped, EventsSound, Events
<1>3. /\ Handled(e) \in Seq(ScreenRows) /\ RowsAgree(Handled(e), status)
      /\ \A i \in 1 .. MaxItems : i # e[2] /\ Says(shown, status, i) => Says(Handled(e), status, i)
      /\ e[3] = status[e[2]] /\ (page = "conversation" => loaded) /\ (e[1] = "status" => Shows(e[2]))
              => Says(Handled(e), status, e[2])
  BY HandledRows
<1>4. raced \subseteq raced' /\ raced' \subseteq raced \cup {e[2]}
      /\ (Crosses(e) \/ (\E f \in Answers : ~Has(fetch[f].rows, e[2])) => e[2] \in raced')
  BY DEF DeliverEvent
<1>5. ScreensTyped'
  <2>1. wire' \subseteq Events /\ raced' \subseteq 1 .. MaxItems /\ shown' \in Seq(ScreenRows)
    BY <1>1, <1>2, <1>3, <1>4 DEF ScreensInv, ScreensTyped
  <2> QED BY <1>1, <2>1 DEF ScreensInv, ScreensTyped
<1>6. RowsSound' /\ EventsSound' /\ StatusSound' /\ SocketIsOurs' /\ FirstLoad'
  BY <1>1, <1>3 DEF ScreensInv, RowsSound, EventsSound, StatusSound, SocketIsOurs, FirstLoad
<1>7. AllTold'
  <2> SUFFICES ASSUME Watching', NEW i \in 1 .. items', i \notin raced' \cup missed', ~OffThePage(i)', ~AskedFor', ~Coming(i)'
               PROVE  KnownToAll(i)'
    BY DEF AllTold, Told
  <2>1. Watching /\ i \in 1 .. items /\ i \in 1 .. MaxItems /\ ~OffThePage(i) /\ ~AskedFor /\ i \notin raced \cup missed
    <3>1. items \in 1 .. MaxItems /\ MaxItems \in Nat
      BY ScreenConstants DEF ScreensInv, ScreensTyped
    <3> QED BY <1>1, <1>4, <3>1 DEF Watching, OffThePage, AskedFor
  <2>2. Told(i)
    BY <2>1 DEF ScreensInv, AllTold
  <2>3. CASE i # e[2]
    <3>1. ~Coming(i)
      BY <1>1, <2>3 DEF Coming
    <3>2. KnownToAll(i)
      BY <2>1, <2>2, <3>1 DEF Told
    <3> QED BY <1>1, <1>3, <2>1, <2>3, <3>2 DEF KnownToAll, Answers
  <2>4. CASE i = e[2]
    <3>1. ~Crosses(e) /\ \A f \in Answers : Says(fetch[f].rows, status, i)
      BY <1>4, <2>4 DEF Says, Has
    <3>2. e[3] = status[e[2]]
      <4>1. ~ \E later \in unsent \cup wire : later[2] = e[2] /\ later[3] = status[e[2]] /\ later # e
        BY <1>1, <2>4 DEF Coming
      <4>2. CASE e[3] < status[e[2]]
        BY <3>1, <4>1, <4>2 DEF Crosses
      <4> QED BY <1>2, <4>2, ScreenConstants
    <3>3. e[1] = "status" => Shows(e[2])
      BY <3>1 DEF Crosses
    <3>4. CASE page = "conversation" => loaded
      BY <1>1, <1>3, <2>4, <3>1, <3>2, <3>3, <3>4 DEF KnownToAll, Answers
    <3>5. CASE page = "conversation" /\ ~loaded
      <4>1. \E f \in 1 .. Fetches : fetch[f].at # "none"
        BY <2>1, <3>5 DEF ScreensInv, FirstLoad, Watching
      <4>2. \A f \in 1 .. Fetches : fetch[f].at \in {"none", "asked", "answered"}
        BY DEF ScreensInv, ScreensTyped, FetchStates
      <4>3. Answers # {}
        BY <2>1, <4>1, <4>2 DEF AskedFor, Answers
      <4> QED BY <1>1, <3>1, <4>3 DEF KnownToAll, Answers
    <3> QED BY <3>4, <3>5
  <2> QED BY <2>3, <2>4
<1> QED BY <1>5, <1>6, <1>7 DEF ScreensInv

-----------------------------------------------------------------------------
\* The conversation asks again once it is connected; the inbox has missed what was emitted.
LEMMA ConnectStep ==
  ASSUME ScreensInv, Connect
  PROVE  ScreensInv'
<1> USE DEF source, eventQueues, login, socket, excuses
<1>1. tries' \in 0 .. Reconnections /\ up' = TRUE /\ token
  BY ScreenConstants DEF Connect
<1>2. CASE page = "conversation"
  <2>1. /\ fetch' \in [1 .. Fetches -> FetchStates] /\ AskedFor' /\ \E f \in 1 .. Fetches : fetch'[f].at # "none"
        /\ \A f \in 1 .. Fetches : fetch'[f].rows = fetch[f].rows
    BY <1>2, OneMoreLoad DEF Connect, LoadOnChange, ScreensInv
  <2>2. ScreensTyped'
    BY <1>1, <2>1 DEF Connect, ScreensInv, ScreensTyped
  <2>3. RowsSound' /\ SocketIsOurs' /\ FirstLoad' /\ EventsSound' /\ StatusSound'
    BY <2>1 DEF Connect, ScreensInv, RowsSound, SocketIsOurs, FirstLoad, EventsSound, StatusSound
  <2>4. AllTold'
    BY <2>1 DEF AllTold, Told
  <2> QED BY <2>2, <2>3, <2>4 DEF ScreensInv
<1>3. CASE page # "conversation"
  <2>1. fetch' = fetch
    BY <1>3 DEF Connect, LoadOnChange
  <2>2. ScreensTyped'
    BY <1>1, <2>1 DEF Connect, ScreensInv, ScreensTyped
  <2>3. RowsSound' /\ SocketIsOurs' /\ FirstLoad' /\ EventsSound' /\ StatusSound'
    BY <2>1 DEF Connect, ScreensInv, RowsSound, SocketIsOurs, FirstLoad, EventsSound, StatusSound
  <2>4. page = "inbox"
    BY <1>3 DEF ScreensInv, ScreensTyped
  <2>5. AllTold'
    <3> SUFFICES ASSUME Watching', NEW i \in 1 .. items' PROVE Told(i)'
      BY DEF AllTold
    <3>1. i \in 1 .. items /\ Told(i)
      BY <2>4 DEF Connect, ScreensInv, AllTold, Watching
    <3>2. (Coming(i) => Coming(i)') /\ (OffThePage(i) => OffThePage(i)')
      BY DEF Connect, Coming, OffThePage
    <3> QED BY <2>1, <3>1, <3>2, ToldStays DEF Connect
  <2> QED BY <2>2, <2>3, <2>5 DEF ScreensInv
<1> QED BY <1>2, <1>3

\* A handshake that fails changes nothing that is shown.
LEMMA ConnectFailsStep ==
  ASSUME ScreensInv, ConnectFails
  PROVE  ScreensInv'
<1> USE DEF source, eventQueues, login, socket, excuses
<1>1. tries' \in 0 .. Reconnections /\ screenFaults' \in 0 .. ScreenFaults
  BY ScreenConstants, OneMoreFault DEF ConnectFails, ScreensInv, ScreensTyped
<1>2. ScreensTyped'
  BY <1>1 DEF ConnectFails, ScreensInv, ScreensTyped
<1>3. RowsSound' /\ SocketIsOurs' /\ FirstLoad' /\ EventsSound' /\ StatusSound'
  BY DEF ConnectFails, ScreensInv, RowsSound, SocketIsOurs, FirstLoad, EventsSound, StatusSound
<1>4. AllTold'
  <2> SUFFICES ASSUME Watching', NEW i \in 1 .. items' PROVE Told(i)'
    BY DEF AllTold
  <2>1. i \in 1 .. items /\ Told(i)
    BY DEF ConnectFails, ScreensInv, AllTold, Watching
  <2>2. (Coming(i) => Coming(i)') /\ (OffThePage(i) => OffThePage(i)')
    BY DEF ConnectFails, Coming, OffThePage
  <2> QED BY <2>1, <2>2, ToldStays DEF ConnectFails
<1> QED BY <1>2, <1>3, <1>4 DEF ScreensInv

\* The conversation does not watch while its socket is down; the inbox has missed what was on its way.
LEMMA DropsStep ==
  ASSUME ScreensInv, SocketDrops
  PROVE  ScreensInv'
<1> USE DEF source, eventQueues, login, socket, excuses
<1>1. /\ fetch' \in [1 .. Fetches -> FetchStates] /\ screenFaults' \in 0 .. ScreenFaults
      /\ \A f \in 1 .. Fetches : fetch'[f].rows = fetch[f].rows
      /\ (\E f \in 1 .. Fetches : fetch[f].at # "none") => \E f \in 1 .. Fetches : fetch'[f].at # "none"
  <2>1. CASE Load
    BY <2>1, OneMoreLoad, OneMoreFault DEF SocketDrops, ScreensInv
  <2>2. CASE UNCHANGED fetch
    BY <2>2, OneMoreFault DEF SocketDrops, ScreensInv, ScreensTyped
  <2> QED BY <2>1, <2>2 DEF SocketDrops, LoadOnChange
<1>2. missed \subseteq missed' /\ missed' \subseteq 1 .. MaxItems
  BY DEF SocketDrops, ScreensInv, ScreensTyped, Events
<1>3. ScreensTyped'
  BY <1>1, <1>2 DEF SocketDrops, ScreensInv, ScreensTyped
<1>4. RowsSound' /\ SocketIsOurs' /\ FirstLoad' /\ EventsSound' /\ StatusSound'
  BY <1>1 DEF SocketDrops, ScreensInv, RowsSound, SocketIsOurs, FirstLoad, EventsSound, StatusSound
<1>5. AllTold'
  <2> SUFFICES ASSUME Watching', NEW i \in 1 .. items' PROVE Told(i)'
    BY DEF AllTold
  <2>1. page = "inbox" /\ Watching /\ fetch' = fetch
    BY DEF SocketDrops, LoadOnChange, Watching
  <2>2. i \in 1 .. items /\ Told(i)
    BY <2>1 DEF SocketDrops, ScreensInv, AllTold
  <2>3. Coming(i) => Coming(i)' \/ i \in missed'
    BY <2>1 DEF SocketDrops, Coming
  <2>4. OffThePage(i) => OffThePage(i)'
    BY DEF SocketDrops, OffThePage
  <2> QED BY <1>2, <2>1, <2>2, <2>3, <2>4, ToldStays DEF SocketDrops
<1> QED BY <1>3, <1>4, <1>5 DEF ScreensInv

\* A session that ends leaves the page as it is.
LEMMA SessionEndsStep ==
  ASSUME ScreensInv, SessionEnds
  PROVE  ScreensInv'
<1> USE DEF source, eventQueues, login, socket, excuses
<1>1. ScreensTyped'
  BY OneMoreFault DEF SessionEnds, ScreensInv, ScreensTyped
<1>2. RowsSound' /\ SocketIsOurs' /\ FirstLoad' /\ EventsSound' /\ StatusSound'
  BY DEF SessionEnds, ScreensInv, RowsSound, SocketIsOurs, FirstLoad, EventsSound, StatusSound
<1>3. AllTold'
  <2> SUFFICES ASSUME Watching', NEW i \in 1 .. items' PROVE Told(i)'
    BY DEF AllTold
  <2>1. i \in 1 .. items /\ Told(i)
    BY DEF SessionEnds, ScreensInv, AllTold, Watching
  <2>2. (Coming(i) => Coming(i)') /\ (OffThePage(i) => OffThePage(i)')
    BY DEF SessionEnds, Coming, OffThePage
  <2> QED BY <2>1, <2>2, ToldStays DEF SessionEnds
<1> QED BY <1>1, <1>2, <1>3 DEF ScreensInv

\* At the start nobody watches.
LEMMA ScreensStart ==
  ASSUME ScreensInit
  PROVE  ScreensInv
<1>1. ScreensTyped
  <2>1. /\ items \in 1 .. MaxItems /\ status \in [1 .. MaxItems -> 0 .. Updates] /\ tries \in 0 .. Reconnections
        /\ updates \in 0 .. Updates /\ screenFaults \in 0 .. ScreenFaults
    BY ScreenConstants DEF ScreensInit
  <2>2. shown \in Seq(ScreenRows) /\ fetch \in [1 .. Fetches -> FetchStates]
    BY NothingFetched DEF ScreensInit
  <2> QED BY <2>1, <2>2 DEF ScreensInit, ScreensTyped
<1>2. RowsSound
  <2>1. shown = <<>> /\ \A f \in 1 .. Fetches : fetch[f].rows = <<>>
    BY NothingFetched DEF ScreensInit
  <2> QED BY <2>1, NothingFetched DEF RowsSound
<1>3. EventsSound /\ StatusSound /\ SocketIsOurs /\ FirstLoad /\ AllTold
  BY ScreenConstants DEF ScreensInit, EventsSound, StatusSound, SocketIsOurs, FirstLoad, AllTold,
     Watching
<1> QED BY <1>1, <1>2, <1>3 DEF ScreensInv

\* Every step keeps the page told of each item.
LEMMA ScreensStep ==
  ASSUME ScreensInv, [ScreensNext]_screenVars
  PROVE  ScreensInv'
<1>1. CASE UNCHANGED screenVars
  BY <1>1 DEF screenVars, source, eventQueues, login, socket, excuses, ScreensInv, ScreensTyped,
     RowsSound, EventsSound,
     StatusSound, SocketIsOurs, FirstLoad, AllTold, Watching, Told, AskedFor, Coming, KnownToAll, Answers, OffThePage
<1>2. CASE ScreensNext
  BY <1>2, CreateItemStep, SignInStep, SignOutStep, SendStep, RunActionStep, ConnectStep,
     ConnectFailsStep, DropsStep,
     SessionEndsStep, ChangeStatusStep, EmitStep, DeliverStep, AnswerStep, ApplyStep, LoadFailsStep DEF ScreensNext
<1> QED BY <1>1, <1>2

\* At rest what is told of is shown.
LEMMA ScreensMean ==
  ASSUME ScreensInv
  PROVE  ScreensTypeOK /\ ScreenIsTrue
<1>1. ScreensTypeOK
  <2>1. \A k \in DOMAIN shown : shown[k] \in ScreenRows
    BY DEF ScreensInv, ScreensTyped
  <2>2. \A f \in 1 .. Fetches : fetch[f].at \in {"none", "asked", "answered"}
    BY DEF ScreensInv, ScreensTyped, FetchStates
  <2> QED BY <2>1, <2>2 DEF ScreensTypeOK, ScreenRows, ScreensInv, ScreensTyped
<1>2. ASSUME Quiet, ~failed, NEW i \in 1 .. items PROVE Has(shown, i) \/ OffThePage(i) \/ i \in raced \cup missed
  <2>1. Watching
    BY <1>2 DEF Quiet, Watching, ScreensInv, SocketIsOurs
  <2>2. Told(i)
    BY <2>1 DEF ScreensInv, AllTold
  <2>3. ~AskedFor /\ ~Coming(i) /\ Answers = {}
    BY <1>2 DEF Quiet, AskedFor, Coming, Answers
  <2> QED BY <2>2, <2>3 DEF Told, KnownToAll, Says, Has
<1>3. /\ \A k, n \in DOMAIN shown : shown[k][1] = shown[n][1] => k = n
      /\ \A k \in DOMAIN shown : shown[k][2] <= status[shown[k][1]]
  BY DEF ScreensInv, RowsSound, RowsAgree
<1> QED BY <1>1, <1>2, <1>3 DEF ScreenIsTrue

\* Rows, events, requests and what is shown keep their types (useSocket.ts, inbox/page.tsx, inbox/[id]/page.tsx).
THEOREM ScreensTypeCorrect == ScreensSpec => []ScreensTypeOK
<1>1. ScreensInv => ScreensTypeOK
  BY ScreensMean
<1> QED BY <1>1, ScreensStart, ScreensStep, PTL DEF ScreensSpec

\* A page connected and at rest shows every row as it is, but for what it does not hold, what crossed and what the inbox missed; none twice, and none ahead of itself (inbox/page.tsx, inbox/[id]/page.tsx, realtime.gateway.ts).
THEOREM ScreensCorrect == ScreensSpec => []ScreenIsTrue
<1>1. ScreensInv => ScreenIsTrue
  BY ScreensMean
<1> QED BY <1>1, ScreensStart, ScreensStep, PTL DEF ScreensSpec

-----------------------------------------------------------------------------
(* The parts together *)

\* Each part starts as it does alone, and moves as it does alone, or not at all.
LEMMA MessagingParts ==
  /\ Init => EscalationInit /\ InboundInit /\ QueueInit /\ DeskInit /\ SalesInit /\ ScreensInit
  /\ [Next]_vars => /\ [EscalationNext]_escVars /\ [InboundNext]_inboundVars /\ [QueueNext]_queueVars
                    /\ [DeskNext]_deskVars /\ [SalesNext]_saleVars /\ [ScreensNext]_screenVars
<1>1. Init => EscalationInit /\ InboundInit /\ QueueInit /\ DeskInit /\ SalesInit /\ ScreensInit
  BY DEF Init
<1>2. ASSUME [Next]_vars
      PROVE  /\ [EscalationNext]_escVars /\ [InboundNext]_inboundVars /\ [QueueNext]_queueVars
             /\ [DeskNext]_deskVars /\ [SalesNext]_saleVars /\ [ScreensNext]_screenVars
  <2>1. CASE Next
    BY <2>1 DEF Next, Only
  <2>2. CASE UNCHANGED vars
    BY <2>2 DEF vars
  <2> QED BY <1>2, <2>1, <2>2
<1> QED BY <1>1, <1>2

\* Whatever part runs, messages, jobs, questions, desks, screens and sales keep their types
\* (conversations.processor.ts, messages.service.ts, support-team.service.ts, useSocket.ts).
THEOREM MessagingTypeCorrect == Spec => []MessagingTypeOK
<1>1. Spec => EscalationSpec /\ DeskSpec /\ SalesSpec /\ ScreensSpec
  BY MessagingParts, PTL DEF Spec, EscalationSpec, DeskSpec, SalesSpec, ScreensSpec
<1>2. EscalationTypeOK /\ InboundTypeOK /\ QueueTypeOK /\ DeskTypeOK /\ SalesTypeOK /\ ScreensTypeOK => MessagingTypeOK
  BY DEF MessagingTypeOK
<1>3. Spec => []InboundTypeOK
  BY MessagingParts, InvariantHolds, InboundMeansTypes, PTL DEF Spec
<1>4. Spec => []QueueTypeOK
  <2>1. QueueInv => QueueTypeOK
    BY DEF QueueInv
  <2> QED BY <2>1, MessagingParts, QueueInvariant, PTL DEF Spec
<1> QED BY <1>1, <1>2, <1>3, <1>4, EscalationTypeCorrect, DeskTypeCorrect, SalesTypeCorrect,
    ScreensTypeCorrect, PTL
=============================================================================
