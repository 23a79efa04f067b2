--------------------------- MODULE OutreachProofs ---------------------------
(***************************************************************************)
(* Proofs about what leads to a customer who is written to: the leads, the *)
(* profile of a site, the campaign with its list, the prices in a text, and*)
(* the one customer of calls, texts and messages; and the lines they are   *)
(* written to on, with their instances.  Each invariant joins to           *)
(* the properties what they rest on.                                       *)
(***************************************************************************)
EXTENDS LeadIntake, WebsiteProfiles, CampaignDrafts, QuotedPrices, CallerIdentity,
        WhatsappInstances, Integers,
        FiniteSetTheorems, SequenceTheorems, WellFoundedInduction, TLAPS

-----------------------------------------------------------------------------
(* Leads *)

\* What a request may still look at, and the requests themselves.
IntakeStates == [at : IntakeSteps, kind : IntakeKinds, rows : Seq(IntakePhones \cup {BadPhone}),
                 kept : Seq(IntakePhones), created : Nat]
Free(r) == IntakePhones \ blockedFirst[r]

\* The numbers a request holds are none that was on the list when it began, as soon as it has
\* looked at them.
RowsLooked(r, i) ==
  /\ i.kept \in Seq(Free(r))
  /\ i.kind = "caller" \/ (i.kind = "import" /\ i.at \notin {"idle", "preview"}) => i.rows \in Seq(Free(r))
  /\ i.at \in {"create", "record"} => i.rows # <<>> /\ Head(i.rows) \in Free(r)
  /\ i.at = "idle" => LeadsBy(r) = {} /\ i.kept = <<>>

\* The leads by a request that met no fault are counted and recorded, but the one that is
\* being recorded.
LeadsCounted(r, i) ==
  IF i.at = "record"
  THEN /\ Cardinality(LeadsBy(r)) = i.created + 1
       /\ \A p \in LeadsBy(r) : leadRow[p].recorded \/ Head(i.rows) = p
  ELSE /\ Cardinality(LeadsBy(r)) = i.created
       /\ \A p \in LeadsBy(r) : leadRow[p].recorded

IntakeGood(r) ==
  /\ blockedFirst[r] \subseteq blocked
  /\ RowsLooked(r, intake[r])
  /\ LeadsBy(r) \cap blockedFirst[r] = {}
  /\ IsFiniteSet(LeadsBy(r))
  /\ r \notin intakeHurt => LeadsCounted(r, intake[r])

IntakeInv == IntakeTypeOK /\ \A r \in Intakes : IntakeGood(r)

\* No request has begun.
LEMMA IntakeStart == IntakeInit => IntakeInv
<1> SUFFICES ASSUME IntakeInit PROVE IntakeInv
  OBVIOUS
<1>1. IntakeTypeOK
  <2>1. <<>> \in Seq(IntakePhones \cup {BadPhone}) /\ <<>> \in Seq(IntakePhones)
    BY EmptySeq
  <2>2. [at |-> "idle", kind |-> "import", rows |-> <<>>, kept |-> <<>>, created |-> 0] \in IntakeStates
    BY <2>1 DEF IntakeStates, IntakeSteps, IntakeKinds
  <2>3. leadRow \in [IntakePhones -> [by : Intakes \cup {"nobody"}, recorded : BOOLEAN]]
    BY DEF IntakeInit, NoLead
  <2>4. intakeFaults \in 0..IntakeFaults
    BY IntakeAssumption DEF IntakeInit
  <2> QED BY <2>2, <2>3, <2>4 DEF IntakeInit, IntakeTypeOK, IntakeStates
<1>2. ASSUME NEW r \in Intakes
      PROVE  IntakeGood(r)
  <2>1. LeadsBy(r) = {}
    BY IntakeAssumption DEF IntakeInit, LeadsBy, NoLead
  <2>2. IsFiniteSet(LeadsBy(r)) /\ Cardinality(LeadsBy(r)) = 0
    BY <2>1, FS_EmptySet
  <2>3. intake[r] = [at |-> "idle", kind |-> "import", rows |-> <<>>, kept |-> <<>>, created |-> 0]
    BY DEF IntakeInit
  <2>4. RowsLooked(r, intake[r]) /\ LeadsCounted(r, intake[r])
    BY <2>1, <2>2, <2>3, EmptySeq DEF RowsLooked, LeadsCounted
  <2> QED BY <2>1, <2>2, <2>4 DEF IntakeInit, IntakeGood
<1> QED BY <1>1, <1>2 DEF IntakeInv

\* A request moves on, and no lead does.
LEMMA RequestMoves ==
  ASSUME IntakeInv, NEW r \in Intakes, NEW i \in IntakeStates, Update(r, i), UNCHANGED <<leadRow, blocked>>,
         \/ UNCHANGED <<blockedFirst, intakeFaults, intakeHurt>>
         \/ UNCHANGED blockedFirst /\ IntakeFault(r),
         RowsLooked(r, i), intakeHurt' = intakeHurt /\ r \notin intakeHurt => LeadsCounted(r, i)
  PROVE  IntakeInv'
<1>1. /\ intake' = [intake EXCEPT ![r] = i] /\ intake' \in [Intakes -> IntakeStates]
      /\ intake'[r] = i /\ \A q \in Intakes \ {r} : intake'[q] = intake[q]
  BY DEF Update, IntakeInv, IntakeTypeOK, IntakeStates
<1>2. /\ intakeHurt \subseteq intakeHurt' /\ intakeHurt' \subseteq intakeHurt \cup {r}
      /\ intakeHurt' \subseteq Intakes /\ intakeFaults' \in 0..IntakeFaults
      /\ intakeHurt' # intakeHurt => r \in intakeHurt'
  BY IntakeAssumption DEF IntakeFault, IntakeInv, IntakeTypeOK
<1>3. IntakeTypeOK'
  BY <1>1, <1>2 DEF IntakeInv, IntakeTypeOK, IntakeStates
<1>4. ASSUME NEW q \in Intakes
      PROVE  IntakeGood(q)'
  <2>1. LeadsBy(q)' = LeadsBy(q) /\ Free(q)' = Free(q) /\ IntakeGood(q)
    BY DEF LeadsBy, Free, IntakeInv
  <2>2. RowsLooked(q, intake[q])' /\ (q \notin intakeHurt' => LeadsCounted(q, intake[q])')
    <3>1. CASE q = r
      <4>1. r \notin intakeHurt' => intakeHurt' = intakeHurt /\ r \notin intakeHurt
        BY <1>2
      <4>2. RowsLooked(r, i) /\ (r \notin intakeHurt' => LeadsCounted(r, i))
        BY <4>1
      <4> QED BY <1>1, <2>1, <3>1, <4>2 DEF RowsLooked, LeadsCounted
    <3>2. CASE q # r
      BY <1>1, <1>2, <2>1, <3>2 DEF IntakeGood, RowsLooked, LeadsCounted
    <3> QED BY <3>1, <3>2
  <2> QED BY <2>1, <2>2 DEF IntakeGood
<1> QED BY <1>3, <1>4 DEF IntakeInv

\* A request begins with the numbers of its file.
LEMMA BeginStep ==
  ASSUME IntakeInv, NEW r \in Intakes, NEW kind \in IntakeKinds, NEW rows \in IntakeRows,
         BeginIntake(r, kind, rows)
  PROVE  IntakeInv'
<1> DEFINE first == IF kind = "caller" THEN {} ELSE blocked
           n == intake[r].created
<1>1. intake[r] \in IntakeStates /\ intake[r].at = "idle" /\ IntakeGood(r)
  BY DEF BeginIntake, IntakeInv, IntakeTypeOK, IntakeStates
<1>2. LeadsBy(r) = {} /\ intake[r].kept = <<>>
  BY <1>1 DEF IntakeGood, RowsLooked
<1>3. PICK at \in {"preview", "next"} :
        /\ kind = "import" => at = "preview"
        /\ intake' = [intake EXCEPT ![r] = [intake[r] EXCEPT !.at = at, !.kind = kind, !.rows = rows]]
  BY DEF BeginIntake, Update
<1> DEFINE i == [intake[r] EXCEPT !.at = at, !.kind = kind, !.rows = rows]
<1>4. i.at = at /\ i.kind = kind /\ i.rows = rows /\ i.kept = <<>> /\ i.created = n
  BY <1>1, <1>2 DEF IntakeStates
<1>5. /\ blockedFirst' = [blockedFirst EXCEPT ![r] = first]
      /\ UNCHANGED <<leadRow, blocked, intakeFaults, intakeHurt>>
  BY DEF BeginIntake, hurtVars
<1>6. rows \in Seq(IntakePhones \cup {BadPhone}) /\ n \in Nat /\ first \subseteq blocked /\ blocked \subseteq IntakePhones
  BY <1>1, IntakeAssumption DEF IntakeStates, IntakeInv, IntakeTypeOK
<1>8. i \in IntakeStates
  BY <1>1, <1>6 DEF IntakeStates, IntakeSteps
<1>9. /\ intake' = [intake EXCEPT ![r] = i] /\ intake' \in [Intakes -> IntakeStates]
      /\ intake'[r] = i /\ \A q \in Intakes \ {r} : intake'[q] = intake[q]
  BY <1>3, <1>8 DEF IntakeInv, IntakeTypeOK, IntakeStates
<1> HIDE DEF i
<1>10. /\ blockedFirst' \in [Intakes -> SUBSET IntakePhones] /\ blockedFirst'[r] = first
       /\ \A q \in Intakes \ {r} : blockedFirst'[q] = blockedFirst[q]
  BY <1>5, <1>6 DEF IntakeInv, IntakeTypeOK
<1>11. IntakeTypeOK'
  BY <1>5, <1>9, <1>10 DEF IntakeInv, IntakeTypeOK, IntakeStates
<1>12. ASSUME NEW q \in Intakes
       PROVE  LeadsBy(q)' = LeadsBy(q)
  BY <1>5 DEF LeadsBy
<1>13. ASSUME NEW q \in Intakes, q # r
       PROVE  IntakeGood(q)'
  <2>1. IntakeGood(q)
    BY DEF IntakeInv
  <2>2. Free(q)' = Free(q)
    BY <1>10, <1>13 DEF Free
  <2> QED BY <1>5, <1>9, <1>10, <1>12, <1>13, <2>1, <2>2 DEF IntakeGood, RowsLooked, LeadsCounted
<1>14. IntakeGood(r)'
  <2>1. kind = "caller" => rows \in Seq(Free(r)')
    <3>1. SUFFICES ASSUME kind = "caller" PROVE rows \in Seq(IntakePhones)
      BY <1>10 DEF Free
    <3>2. Len(rows) = 1 /\ rows[1] # BadPhone
      BY <3>1 DEF BeginIntake
    <3>3. rows \in [1..1 -> IntakePhones \cup {BadPhone}]
      BY <1>6, <3>2, LenProperties
    <3>4. rows[1] \in IntakePhones
      BY <3>2, <3>3
    <3>5. rows \in [1..1 -> IntakePhones]
      BY <3>3, <3>4
    <3> QED BY <3>5, SeqDef
  <2>2. (RowsLooked(r, intake[r]))'
    <3>1. \A S : <<>> \in Seq(S)
      BY EmptySeq
    <3>2. LeadsBy(r)' = {} /\ <<>> \in Seq(Free(r)')
      BY <1>2, <1>12, <3>1
    <3>3. /\ i.kept \in Seq(Free(r)')
          /\ i.kind = "caller" \/ (i.kind = "import" /\ i.at \notin {"idle", "preview"}) => i.rows \in Seq(Free(r)')
          /\ i.at \notin {"create", "record", "idle"}
      BY <1>3, <1>4, <2>1, <3>2
    <3> QED BY <1>9, <3>3 DEF RowsLooked
  <2>3. intakeHurt' = intakeHurt /\ (r \notin intakeHurt => LeadsCounted(r, intake[r])')
    BY <1>1, <1>2, <1>4, <1>5, <1>9, <1>12 DEF IntakeGood, LeadsCounted
  <2> QED BY <1>1, <1>2, <1>5, <1>6, <1>10, <1>12, <2>2, <2>3 DEF IntakeGood
<1> QED BY <1>11, <1>13, <1>14 DEF IntakeInv

\* Nothing of the requests or leads is touched: a number is put on the list.
LEMMA BlockStep ==
  ASSUME IntakeInv, NEW p \in IntakePhones, Block(p)
  PROVE  IntakeInv'
<1>1. /\ blocked \subseteq blocked' /\ blocked' \subseteq IntakePhones
      /\ UNCHANGED <<intake, leadRow, blockedFirst, intakeFaults, intakeHurt>>
  BY DEF Block, hurtVars, IntakeInv, IntakeTypeOK
<1>2. IntakeTypeOK'
  BY <1>1 DEF IntakeInv, IntakeTypeOK
<1>3. ASSUME NEW r \in Intakes
      PROVE  IntakeGood(r)'
  <2>1. LeadsBy(r)' = LeadsBy(r) /\ Free(r)' = Free(r) /\ IntakeGood(r)
    BY <1>1 DEF LeadsBy, Free, IntakeInv
  <2> QED BY <1>1, <2>1 DEF IntakeGood, RowsLooked, LeadsCounted
<1> QED BY <1>2, <1>3 DEF IntakeInv

\* What an exception makes of a request.
LEMMA RaiseStays ==
  ASSUME IntakeInv, NEW r \in Intakes, intake[r].at \in {"create", "record"}
  PROVE  /\ Raise(intake[r]) \in IntakeStates /\ RowsLooked(r, Raise(intake[r]))
         /\ intake[r].at = "create" /\ r \notin intakeHurt => LeadsCounted(r, Raise(intake[r]))
<1> DEFINE i == intake[r]
<1>1. i \in IntakeStates /\ IntakeGood(r) /\ RowsLooked(r, i) /\ i.rows # <<>>
  BY DEF IntakeInv, IntakeTypeOK, IntakeStates, IntakeGood, RowsLooked
<1>2. /\ Tail(i.rows) \in Seq(IntakePhones \cup {BadPhone})
      /\ i.rows \in Seq(Free(r)) => Tail(i.rows) \in Seq(Free(r))
  BY <1>1, HeadTailProperties DEF IntakeStates
<1>3. \A S : <<>> \in Seq(S)
  BY EmptySeq
<1>4. CASE i.kind = "import"
  <2> DEFINE j == [at |-> "next", kind |-> i.kind, rows |-> Tail(i.rows), kept |-> i.kept, created |-> i.created]
  <2>1. Raise(i) = j
    BY <1>1, <1>4 DEF Raise, IntakeStates
  <2>2. j \in IntakeStates
    BY <1>1, <1>2 DEF IntakeStates, IntakeSteps
  <2>3. RowsLooked(r, j)
    BY <1>1, <1>2, <1>4 DEF RowsLooked
  <2>4. i.at = "create" /\ r \notin intakeHurt => LeadsCounted(r, j)
    BY <1>1 DEF IntakeGood, LeadsCounted
  <2> QED BY <2>1, <2>2, <2>3, <2>4
<1>5. CASE i.kind # "import"
  <2> DEFINE j == [at |-> "failed", kind |-> i.kind, rows |-> <<>>, kept |-> <<>>, created |-> i.created]
  <2>1. Raise(i) = j
    BY <1>1, <1>5 DEF Raise, Ended, IntakeStates
  <2>2. j \in IntakeStates
    BY <1>1, <1>3 DEF IntakeStates, IntakeSteps
  <2>3. RowsLooked(r, j)
    BY <1>1, <1>3 DEF RowsLooked
  <2>4. i.at = "create" /\ r \notin intakeHurt => LeadsCounted(r, j)
    BY <1>1 DEF IntakeGood, LeadsCounted
  <2> QED BY <2>1, <2>2, <2>3, <2>4
<1> QED BY <1>4, <1>5

\* The preview keeps the valid numbers that are not on the list.
LEMMA PreviewStep ==
  ASSUME IntakeInv, NEW r \in Intakes, PreviewRow(r)
  PROVE  IntakeInv'
<1> DEFINE i == intake[r]
           p == Head(i.rows)
<1>1. i \in IntakeStates /\ IntakeGood(r) /\ RowsLooked(r, i) /\ i.rows # <<>> /\ i.at = "preview"
  BY DEF PreviewRow, IntakeInv, IntakeTypeOK, IntakeStates, IntakeGood
<1>2. /\ Tail(i.rows) \in Seq(IntakePhones \cup {BadPhone}) /\ p \in IntakePhones \cup {BadPhone}
      /\ i.rows \in Seq(Free(r)) => Tail(i.rows) \in Seq(Free(r))
  BY <1>1, HeadTailProperties DEF IntakeStates
<1>3. PICK kept \in {i.kept, Append(i.kept, p)} :
        /\ kept = i.kept \/ (p # BadPhone /\ p \notin blocked)
        /\ intake' = [intake EXCEPT ![r] = [i EXCEPT !.rows = Tail(@), !.kept = kept]]
  BY DEF PreviewRow, Update
<1>4. kept \in Seq(IntakePhones) /\ kept \in Seq(Free(r))
  <2>1. i.kept \in Seq(IntakePhones) /\ i.kept \in Seq(Free(r))
    BY <1>1 DEF IntakeStates, RowsLooked
  <2>2. p # BadPhone /\ p \notin blocked => p \in Free(r) /\ p \in IntakePhones
    BY <1>1, <1>2 DEF Free, IntakeGood
  <2>3. CASE kept = i.kept
    BY <2>1, <2>3
  <2>4. CASE kept = Append(i.kept, p) /\ p # BadPhone /\ p \notin blocked
    BY <2>1, <2>2, <2>4, AppendProperties
  <2> QED BY <1>3, <2>3, <2>4
<1> DEFINE j == [i EXCEPT !.rows = Tail(@), !.kept = kept]
<1>5. /\ j.at = "preview" /\ j.kind = i.kind /\ j.rows = Tail(i.rows) /\ j.kept = kept
      /\ j.created = i.created
  BY <1>1 DEF IntakeStates
<1>6. j \in IntakeStates
  BY <1>1, <1>2, <1>4 DEF IntakeStates
<1>7. RowsLooked(r, j) /\ (r \notin intakeHurt => LeadsCounted(r, j))
  BY <1>1, <1>2, <1>4, <1>5 DEF RowsLooked, IntakeGood, LeadsCounted
<1>8. Update(r, j) /\ UNCHANGED <<leadRow, blocked, blockedFirst, intakeFaults, intakeHurt>>
  BY <1>3 DEF Update, PreviewRow, rowVars, hurtVars
<1> HIDE DEF j
<1> QED BY <1>6, <1>7, <1>8, RequestMoves

\* The import takes what the preview has kept.
LEMMA StartImportStep ==
  ASSUME IntakeInv, NEW r \in Intakes, StartImport(r)
  PROVE  IntakeInv'
<1> DEFINE i == intake[r]
           j == [i EXCEPT !.at = "next", !.rows = i.kept, !.kept = <<>>]
<1>1. i \in IntakeStates /\ IntakeGood(r) /\ RowsLooked(r, i) /\ i.at = "preview"
  BY DEF StartImport, IntakeInv, IntakeTypeOK, IntakeStates, IntakeGood
<1>2. \A S : <<>> \in Seq(S)
  BY EmptySeq
<1>3. i.kept \in Seq(IntakePhones \cup {BadPhone})
  BY <1>1, SeqMonotonic DEF IntakeStates
<1>4. /\ j.at = "next" /\ j.kind = i.kind /\ j.rows = i.kept /\ j.kept = <<>>
      /\ j.created = i.created
  BY <1>1 DEF IntakeStates
<1>5. j \in IntakeStates
  BY <1>1, <1>2, <1>3 DEF IntakeStates, IntakeSteps
<1>6. RowsLooked(r, j) /\ (r \notin intakeHurt => LeadsCounted(r, j))
  BY <1>1, <1>2, <1>4 DEF RowsLooked, IntakeGood, LeadsCounted
<1>7. Update(r, j) /\ UNCHANGED <<leadRow, blocked, blockedFirst, intakeFaults, intakeHurt>>
  BY DEF Update, StartImport, rowVars, hurtVars
<1> HIDE DEF j
<1> QED BY <1>5, <1>6, <1>7, RequestMoves

\* The next number is looked at.
LEMMA NextRowStep ==
  ASSUME IntakeInv, NEW r \in Intakes, NextRow(r)
  PROVE  IntakeInv'
<1> DEFINE i == intake[r]
           p == Head(i.rows)
           skipped == [i EXCEPT !.rows = Tail(@)]
           taken == [i EXCEPT !.at = "create"]
<1>1. i \in IntakeStates /\ IntakeGood(r) /\ RowsLooked(r, i) /\ i.rows # <<>> /\ i.at = "next"
  BY DEF NextRow, IntakeInv, IntakeTypeOK, IntakeStates, IntakeGood
<1>2. /\ Tail(i.rows) \in Seq(IntakePhones \cup {BadPhone}) /\ p \in IntakePhones \cup {BadPhone}
      /\ i.rows \in Seq(Free(r)) => Tail(i.rows) \in Seq(Free(r)) /\ p \in Free(r)
  BY <1>1, HeadTailProperties DEF IntakeStates
<1>3. UNCHANGED <<leadRow, blocked, blockedFirst, intakeFaults, intakeHurt>>
  BY DEF NextRow, rowVars, hurtVars
<1>4. /\ skipped.at = "next" /\ skipped.kind = i.kind /\ skipped.rows = Tail(i.rows)
      /\ skipped.kept = i.kept /\ skipped.created = i.created
      /\ taken.at = "create" /\ taken.kind = i.kind /\ taken.rows = i.rows
      /\ taken.kept = i.kept /\ taken.created = i.created
  BY <1>1 DEF IntakeStates
<1>5. skipped \in IntakeStates /\ taken \in IntakeStates
  BY <1>1, <1>2 DEF IntakeStates, IntakeSteps
<1>6. RowsLooked(r, skipped) /\ (r \notin intakeHurt => LeadsCounted(r, skipped) /\ LeadsCounted(r, taken))
  BY <1>1, <1>2, <1>4 DEF RowsLooked, IntakeGood, LeadsCounted
<1>7. Update(r, skipped) \/ (Update(r, taken) /\ (i.kind = "discover" => p # BadPhone /\ p \notin blocked))
  BY DEF NextRow
<1>8. CASE Update(r, skipped)
  <2> HIDE DEF skipped
  <2> QED BY <1>3, <1>5, <1>6, <1>8, RequestMoves
<1>9. CASE Update(r, taken) /\ (i.kind = "discover" => p # BadPhone /\ p \notin blocked)
  <2>1. p \in Free(r)
    <3>1. i.kind = "discover" => p \in Free(r)
      BY <1>1, <1>2, <1>9 DEF IntakeGood, Free
    <3>2. i.kind # "discover" => i.rows \in Seq(Free(r))
      BY <1>1 DEF RowsLooked, IntakeStates, IntakeKinds
    <3> QED BY <1>2, <3>1, <3>2
  <2>2. RowsLooked(r, taken)
    BY <1>1, <1>4, <2>1 DEF RowsLooked
  <2> HIDE DEF taken
  <2> QED BY <1>3, <1>5, <1>6, <1>9, <2>2, RequestMoves
<1> QED BY <1>7, <1>8, <1>9

\* Of two requests that create the lead of a number the first has it, the other an exception.
LEMMA CreateStep ==
  ASSUME IntakeInv, NEW r \in Intakes, CreateLead(r)
  PROVE  IntakeInv'
<1> DEFINE i == intake[r]
           p == Head(i.rows)
           j == [at |-> "record", kind |-> i.kind, rows |-> i.rows, kept |-> i.kept, created |-> i.created]
<1>1. i \in IntakeStates /\ IntakeGood(r) /\ RowsLooked(r, i) /\ i.at = "create" /\ p \in Free(r)
  BY DEF CreateLead, IntakeInv, IntakeTypeOK, IntakeStates, IntakeGood, RowsLooked
<1>2. UNCHANGED <<blocked, blockedFirst, intakeFaults, intakeHurt>>
  BY DEF CreateLead, hurtVars
<1>3. CASE Exists(p)
  <2>1. Update(r, Raise(i)) /\ UNCHANGED leadRow
    BY <1>3 DEF CreateLead
  <2>2. Raise(i) \in IntakeStates /\ RowsLooked(r, Raise(i)) /\ (r \notin intakeHurt => LeadsCounted(r, Raise(i)))
    BY <1>1, RaiseStays
  <2> QED BY <1>2, <2>1, <2>2, RequestMoves
<1>4. CASE ~Exists(p)
  <2>1. j \in IntakeStates /\ [i EXCEPT !.at = "record"] = j
    BY <1>1 DEF IntakeStates, IntakeSteps
  <2>2. /\ intake' = [intake EXCEPT ![r] = j] /\ leadRow' = [leadRow EXCEPT ![p] = [by |-> r, recorded |-> FALSE]]
    BY <1>4, <2>1 DEF CreateLead, Update
  <2>3. /\ intake' \in [Intakes -> IntakeStates]
        /\ intake'[r] = j /\ \A q \in Intakes \ {r} : intake'[q] = intake[q]
    BY <2>1, <2>2 DEF IntakeInv, IntakeTypeOK, IntakeStates
  <2>4. /\ leadRow' \in [IntakePhones -> [by : Intakes \cup {"nobody"}, recorded : BOOLEAN]]
        /\ leadRow'[p] = [by |-> r, recorded |-> FALSE]
        /\ \A k \in IntakePhones \ {p} : leadRow'[k] = leadRow[k]
    BY <1>1, <2>2 DEF IntakeInv, IntakeTypeOK, Free
  <2>5. IntakeTypeOK'
    BY <1>2, <2>3, <2>4 DEF IntakeInv, IntakeTypeOK, IntakeStates
  <2>6. leadRow[p].by = "nobody" /\ p \in IntakePhones
    BY <1>1, <1>4 DEF Exists, NoLead, Free
  <2>7. LeadsBy(r)' = LeadsBy(r) \cup {p} /\ p \notin LeadsBy(r)
    BY <2>4, <2>6, IntakeAssumption DEF LeadsBy
  <2>8. ASSUME NEW q \in Intakes, q # r
        PROVE  IntakeGood(q)'
    <3>1. LeadsBy(q)' = LeadsBy(q) /\ p \notin LeadsBy(q) /\ LeadsBy(q) \subseteq IntakePhones
      BY <2>4, <2>6, <2>8, IntakeAssumption DEF LeadsBy
    <3>2. \A k \in LeadsBy(q) : leadRow'[k] = leadRow[k]
      BY <2>4, <3>1
    <3>3. Free(q)' = Free(q) /\ IntakeGood(q) /\ intake'[q] = intake[q]
      BY <1>2, <2>3, <2>8 DEF Free, IntakeInv
    <3>4. RowsLooked(q, intake[q])'
      BY <3>1, <3>3 DEF IntakeGood, RowsLooked
    <3>5. q \notin intakeHurt => LeadsCounted(q, intake[q])'
      BY <3>1, <3>2, <3>3 DEF IntakeGood, LeadsCounted
    <3> QED BY <1>2, <3>1, <3>3, <3>4, <3>5 DEF IntakeGood
  <2>9. IntakeGood(r)'
    <3>1. IsFiniteSet(LeadsBy(r)') /\ Cardinality(LeadsBy(r)') = Cardinality(LeadsBy(r)) + 1
      BY <1>1, <2>7, FS_AddElement DEF IntakeGood
    <3>2. LeadsBy(r)' \cap blockedFirst[r] = {}
      BY <1>1, <2>7 DEF IntakeGood, Free
    <3>3. Free(r)' = Free(r)
      BY <1>2 DEF Free
    <3>4. RowsLooked(r, intake[r])'
      BY <1>1, <2>3, <3>3 DEF RowsLooked
    <3>5. \A k \in LeadsBy(r) : leadRow'[k] = leadRow[k]
      BY <2>4, <2>7 DEF LeadsBy
    <3>6. r \notin intakeHurt => LeadsCounted(r, intake[r])'
      BY <1>1, <2>3, <2>7, <3>1, <3>5 DEF IntakeGood, LeadsCounted
    <3> QED BY <1>1, <1>2, <3>1, <3>2, <3>4, <3>6 DEF IntakeGood
  <2> QED BY <2>5, <2>8, <2>9 DEF IntakeInv
<1> QED BY <1>3, <1>4

\* The first transition of the lead is recorded.
LEMMA RecordStep ==
  ASSUME IntakeInv, NEW r \in Intakes, RecordLead(r)
  PROVE  IntakeInv'
<1> DEFINE i == intake[r]
           p == Head(i.rows)
           j == [i EXCEPT !.at = "next", !.rows = Tail(@), !.created = @ + 1]
<1>1. i \in IntakeStates /\ IntakeGood(r) /\ RowsLooked(r, i) /\ i.at = "record" /\ p \in Free(r) /\ i.rows # <<>>
  BY DEF RecordLead, IntakeInv, IntakeTypeOK, IntakeStates, IntakeGood, RowsLooked
<1>2. UNCHANGED <<blocked, blockedFirst, intakeFaults, intakeHurt>>
  BY DEF RecordLead, hurtVars
<1>3. /\ Tail(i.rows) \in Seq(IntakePhones \cup {BadPhone})
      /\ i.rows \in Seq(Free(r)) => Tail(i.rows) \in Seq(Free(r))
  BY <1>1, HeadTailProperties DEF IntakeStates
<1>4. /\ j \in IntakeStates /\ j.at = "next" /\ j.kind = i.kind /\ j.rows = Tail(i.rows)
      /\ j.kept = i.kept /\ j.created = i.created + 1
  <2>1. i.created \in Nat /\ i.created + 1 \in Nat /\ "next" \in IntakeSteps
    BY <1>1 DEF IntakeStates, IntakeSteps
  <2>2. /\ j.at = "next" /\ j.kind = i.kind /\ j.rows = Tail(i.rows)
        /\ j.kept = i.kept /\ j.created = i.created + 1
    BY <1>1 DEF IntakeStates
  <2>3. j \in IntakeStates
    BY <1>1, <1>3, <2>1 DEF IntakeStates
  <2> QED BY <2>2, <2>3
<1>5. intake' = [intake EXCEPT ![r] = j] /\ leadRow' = [leadRow EXCEPT ![p].recorded = TRUE]
  BY DEF RecordLead, Update
<1>6. /\ intake' \in [Intakes -> IntakeStates]
      /\ intake'[r] = j /\ \A q \in Intakes \ {r} : intake'[q] = intake[q]
  BY <1>4, <1>5 DEF IntakeInv, IntakeTypeOK, IntakeStates
<1> HIDE DEF j
<1>7. /\ leadRow' \in [IntakePhones -> [by : Intakes \cup {"nobody"}, recorded : BOOLEAN]]
      /\ \A k \in IntakePhones : /\ leadRow'[k].by = leadRow[k].by
                                 /\ leadRow[k].recorded \/ k = p => leadRow'[k].recorded
  BY <1>1, <1>5 DEF IntakeInv, IntakeTypeOK, Free
<1>8. IntakeTypeOK'
  BY <1>2, <1>6, <1>7 DEF IntakeInv, IntakeTypeOK, IntakeStates
<1>9. ASSUME NEW q \in Intakes
      PROVE  LeadsBy(q)' = LeadsBy(q) /\ Free(q)' = Free(q) /\ IntakeGood(q)
  BY <1>2, <1>7 DEF LeadsBy, Free, IntakeInv
<1>10. \A q : LeadsBy(q) \subseteq IntakePhones
  BY DEF LeadsBy
<1>11. ASSUME NEW q \in Intakes, q # r
       PROVE  IntakeGood(q)'
  BY <1>2, <1>6, <1>7, <1>9, <1>10, <1>11 DEF IntakeGood, RowsLooked, LeadsCounted
<1>12. RowsLooked(r, intake[r])'
  BY <1>1, <1>3, <1>4, <1>6, <1>9 DEF RowsLooked
<1>13. r \notin intakeHurt => LeadsCounted(r, intake[r])'
  BY <1>1, <1>4, <1>6, <1>7, <1>9, <1>10 DEF IntakeGood, LeadsCounted
<1>14. IntakeGood(r)'
  BY <1>2, <1>9, <1>12, <1>13 DEF IntakeGood
<1> QED BY <1>8, <1>11, <1>14 DEF IntakeInv

\* A request ends, or fails.
LEMMA EndsStep ==
  ASSUME IntakeInv, NEW r \in Intakes, FinishIntake(r) \/ StatementFails(r) \/ IntakeDies(r)
  PROVE  IntakeInv'
<1> DEFINE i == intake[r]
<1>1. i \in IntakeStates /\ IntakeGood(r) /\ RowsLooked(r, i)
  BY DEF IntakeInv, IntakeTypeOK, IntakeStates, IntakeGood
<1>2. CASE FinishIntake(r)
  <2> DEFINE j == [at |-> "done", kind |-> i.kind, rows |-> i.rows, kept |-> i.kept, created |-> i.created]
  <2>1. j \in IntakeStates /\ [i EXCEPT !.at = "done"] = j
    BY <1>1 DEF IntakeStates, IntakeSteps
  <2>2. RowsLooked(r, j) /\ (r \notin intakeHurt => LeadsCounted(r, j))
    BY <1>1, <1>2 DEF RowsLooked, IntakeGood, LeadsCounted, FinishIntake
  <2>3. Update(r, j) /\ UNCHANGED <<leadRow, blocked, blockedFirst, intakeFaults, intakeHurt>>
    BY <1>2, <2>1 DEF FinishIntake, rowVars, hurtVars
  <2> HIDE DEF j
  <2> QED BY <2>1, <2>2, <2>3, RequestMoves
<1>3. CASE StatementFails(r)
  <2>1. i.at \in {"create", "record"} /\ IntakeFault(r) /\ Update(r, Raise(i)) /\ UNCHANGED <<leadRow, blocked, blockedFirst>>
    BY <1>3 DEF StatementFails, rowVars
  <2>2. intakeHurt' = intakeHurt => r \in intakeHurt
    BY <2>1 DEF IntakeFault
  <2> QED BY <2>1, <2>2, RaiseStays, RequestMoves
<1>4. CASE IntakeDies(r)
  <2> DEFINE j == [i EXCEPT !.at = "failed", !.rows = <<>>, !.kept = <<>>]
  <2>1. IntakeFault(r) /\ Update(r, j) /\ UNCHANGED <<leadRow, blocked, blockedFirst>>
    BY <1>4 DEF IntakeDies, Ended, rowVars
  <2>2. j \in IntakeStates /\ RowsLooked(r, j)
    BY <1>1, EmptySeq DEF IntakeStates, IntakeSteps, RowsLooked
  <2>3. intakeHurt' = intakeHurt => r \in intakeHurt
    BY <2>1 DEF IntakeFault
  <2> HIDE DEF j
  <2> QED BY <2>1, <2>2, <2>3, RequestMoves
<1> QED BY <1>2, <1>3, <1>4

\* Every step keeps the leads counted.
LEMMA IntakeStep == IntakeInv /\ [IntakeNext]_intakeVars => IntakeInv'
<1> SUFFICES ASSUME IntakeInv, [IntakeNext]_intakeVars PROVE IntakeInv'
  OBVIOUS
<1>1. CASE UNCHANGED intakeVars
  <2>1. IntakeTypeOK'
    BY <1>1 DEF intakeVars, IntakeInv, IntakeTypeOK
  <2>2. ASSUME NEW r \in Intakes
        PROVE  IntakeGood(r)'
    <3>1. LeadsBy(r)' = LeadsBy(r) /\ Free(r)' = Free(r) /\ IntakeGood(r)
      BY <1>1 DEF intakeVars, LeadsBy, Free, IntakeInv
    <3> QED BY <1>1, <3>1 DEF intakeVars, IntakeGood, RowsLooked, LeadsCounted
  <2> QED BY <2>1, <2>2 DEF IntakeInv
<1>2. CASE IntakeNext
  BY <1>2, BeginStep, PreviewStep, StartImportStep, NextRowStep, CreateStep, RecordStep,
     EndsStep, BlockStep
     DEF IntakeNext
<1> QED BY <1>1, <1>2

\* The invariant holds in every state.
LEMMA IntakeInvariant == IntakeSpec => []IntakeInv
BY IntakeStart, IntakeStep, PTL DEF IntakeSpec

\* Requests, leads and lists keep their types.
THEOREM IntakeTypeCorrect == IntakeSpec => []IntakeTypeOK
<1>1. IntakeInv => IntakeTypeOK
  BY DEF IntakeInv
<1> QED BY <1>1, IntakeInvariant, PTL

\* However requests race for a number, each reports the leads it made, each lead has its first
\* transition, and no number on the list becomes one from a file or a discovery.
THEOREM LeadsAreCounted == IntakeSpec => []LeadsAreAccounted
<1>1. IntakeInv => LeadsAreAccounted
  <2> SUFFICES ASSUME IntakeInv PROVE LeadsAreAccounted
    OBVIOUS
  <2>1. ASSUME NEW r \in Intakes \ intakeHurt
        PROVE  /\ intake[r].at = "done" => intake[r].created = Cardinality(LeadsBy(r))
               /\ \A p \in LeadsBy(r) : leadRow[p].recorded \/ (intake[r].at = "record" /\ Head(intake[r].rows) = p)
    BY DEF IntakeInv, IntakeGood, LeadsCounted
  <2>2. \A r \in Intakes : LeadsBy(r) \cap blockedFirst[r] = {}
    BY DEF IntakeInv, IntakeGood
  <2> QED BY <2>1, <2>2 DEF LeadsAreAccounted
<1> QED BY <1>1, IntakeInvariant, PTL

-----------------------------------------------------------------------------
(* Profiles of sites *)

SiteStates == [at : AnalysisSteps, lead : SiteLeads, left : 0..Subpages, hop : 0..MaxRedirects,
               pinned : Addresses, pages : 0..(Subpages + 1)]
SiteProfiles == [status : ProfileStatus, pages : 0..(Subpages + 1), fresh : BOOLEAN]

\* The requests that so many pages may cost.
Allowed(k) == k * (MaxRedirects + 1)

\* An analysis and the requests it has sent: the subpages left are within the limit, and every
\* page behind it has cost its share at most.
OnItsWay(a, n) ==
  /\ a.at \in {"idle", "create", "link"} => n = 0 /\ a.pages = 0 /\ a.left = 0 /\ a.hop = 0
  /\ a.at \in {"validate", "request"} =>
       \/ a.pages = 0 /\ a.left = 0 /\ n = a.hop
       \/ /\ a.pages > 0 /\ a.left > 0 /\ a.pages + a.left <= Subpages + 1
          /\ n <= Allowed(Subpages + 1 - a.left) + a.hop
  /\ a.at = "request" => a.pinned = "public"
  /\ a.at \in {"summarize", "write"} => a.pages > 0
  /\ n <= Allowed(Subpages + 1)

\* An analysis and the profile it makes: it is there once it was created, and decided when the
\* analysis is over, unless that was lost.
Decided(a, p, lost) ==
  /\ a.at \notin {"idle", "create", "done"} => p.status # "NONE"
  /\ p.status = "PENDING" => a.at \notin {"idle", "done"} \/ lost
  /\ p.status = "OK" => p.pages > 0

\* Who makes a profile, or has made one that may be used.
Counts(a, p) == a.at \notin {"idle", "done"} \/ (p.status = "OK" /\ p.fresh)

SitesInv ==
  /\ SitesTypeOK
  /\ reached \subseteq {"public"}
  /\ \A r \in Analyses : /\ OnItsWay(analysis[r], requested[r])
                         /\ Decided(analysis[r], profile[r], r \in lostWrite)
  /\ \A r, s \in Analyses : r # s /\ Counts(analysis[r], profile[r]) /\ Counts(analysis[s], profile[s]) =>
       r \in sideBySide /\ s \in sideBySide
  /\ LeadsAreLinked

\* The limits of an analysis are numbers.
LEMMA SiteConstants == MaxRedirects \in Nat /\ Subpages \in Nat /\ SiteFaults \in Nat /\ NoProfile \notin Analyses
BY SitesAssumption

\* The share of a page is its request and its redirects.
LEMMA Shares ==
  /\ Allowed(0) = 0
  /\ \A k \in Nat : Allowed(k) \in Nat /\ Allowed(k + 1) = Allowed(k) + MaxRedirects + 1
                    /\ Allowed(k) <= Allowed(k + 1)
<1>1. MaxRedirects \in Nat
  BY SiteConstants
<1> DEFINE M == MaxRedirects + 1
<1>2. M \in Nat /\ M >= 1
  BY <1>1
<1>3. \A k \in Nat : k * M \in Nat /\ (k + 1) * M = k * M + M
  BY <1>2
<1>4. 0 * M = 0
  BY <1>2
<1> QED BY <1>1, <1>2, <1>3, <1>4 DEF Allowed

\* More pages may cost more requests.
LEMMA SharesGrow ==
  ASSUME NEW j \in Nat, NEW k \in Nat, j <= k
  PROVE  Allowed(j) <= Allowed(k) /\ Allowed(j) \in Nat /\ Allowed(k) \in Nat
<1>1. MaxRedirects \in Nat
  BY SiteConstants
<1> DEFINE M == MaxRedirects + 1
<1>2. M \in Nat
  BY <1>1
<1>3. PICK d \in Nat : k = j + d
  <2>1. k - j \in Nat /\ k = j + (k - j)
    OBVIOUS
  <2> QED BY <2>1
<1>4. d * M \in Nat /\ j * M \in Nat /\ k * M = j * M + d * M
  BY <1>2, <1>3
<1> QED BY <1>4 DEF Allowed

\* No analysis has begun.
LEMMA SitesStart == SitesInit => SitesInv
<1> SUFFICES ASSUME SitesInit PROVE SitesInv
  OBVIOUS
<1> USE SiteConstants DEF SitesInit
<1>1. PICK l \in SiteLeads : analysis = [r \in Analyses |-> Unstarted(l)]
  BY SitesAssumption
<1>2. 0 \in 0..Subpages /\ 0 \in 0..MaxRedirects /\ 0 \in 0..(Subpages + 1) /\ 0 \in 0..SiteFaults
  OBVIOUS
<1>3. Unstarted(l) \in SiteStates
  BY <1>2 DEF Unstarted, SiteStates, AnalysisSteps, Addresses
<1>4. profile \in [Analyses -> SiteProfiles]
  BY <1>2 DEF SiteProfiles, ProfileStatus
<1>5. SitesTypeOK
  BY <1>1, <1>2, <1>3, <1>4 DEF SitesTypeOK, SiteStates, SiteProfiles, Addresses
<1>6. \A r \in Analyses : /\ OnItsWay(analysis[r], requested[r])
                          /\ Decided(analysis[r], profile[r], r \in lostWrite)
                          /\ ~Counts(analysis[r], profile[r])
  <2>1. Allowed(Subpages + 1) >= 0
    BY Shares
  <2> QED BY <1>1, <2>1 DEF OnItsWay, Decided, Counts, Unstarted
<1> QED BY <1>5, <1>6 DEF SitesInv, LeadsAreLinked

\* What an analysis does to itself, its profile and its lead keeps the invariant.
LEMMA SiteMoves ==
  ASSUME SitesInv, NEW r \in Analyses, NEW b \in SiteStates, NEW n \in Nat, NEW p \in SiteProfiles,
         analysis' = [analysis EXCEPT ![r] = b], requested' = [requested EXCEPT ![r] = n],
         profile' = [profile EXCEPT ![r] = p],
         reached' \subseteq {"public"}, resolves' \in Addresses, siteFaults' \in 0..SiteFaults,
         lostWrite \subseteq lostWrite', lostWrite' \subseteq Analyses, UNCHANGED sideBySide,
         siteOf' \in [SiteLeads -> Analyses \cup {NoProfile}],
         \A l \in SiteLeads : siteOf'[l] = siteOf[l] \/ (siteOf'[l] = r /\ p.status # "NONE"),
         profile[r].status # "NONE" => p.status # "NONE",
         Counts(b, p) => Counts(analysis[r], profile[r]),
         OnItsWay(b, n), Decided(b, p, r \in lostWrite')
  PROVE  SitesInv'
<1>1. /\ analysis'[r] = b /\ requested'[r] = n /\ profile'[r] = p
      /\ \A s \in Analyses : s # r => /\ analysis'[s] = analysis[s] /\ requested'[s] = requested[s]
                                      /\ profile'[s] = profile[s]
  BY DEF SitesInv, SitesTypeOK
<1>2. SitesTypeOK'
  <2>1. analysis' \in [Analyses -> SiteStates] /\ profile' \in [Analyses -> SiteProfiles] /\ requested' \in [Analyses -> Nat]
    BY DEF SitesInv, SitesTypeOK, SiteStates, SiteProfiles
  <2>2. reached' \subseteq Addresses /\ sideBySide' \subseteq Analyses
    BY DEF SitesInv, SitesTypeOK, Addresses
  <2> QED BY <2>1, <2>2 DEF SitesTypeOK, SiteStates, SiteProfiles
<1>3. ASSUME NEW s \in Analyses
      PROVE  OnItsWay(analysis'[s], requested'[s]) /\ Decided(analysis'[s], profile'[s], s \in lostWrite')
  <2>1. CASE s = r
    BY <1>1, <2>1
  <2>2. CASE s # r
    <3>1. OnItsWay(analysis[s], requested[s]) /\ Decided(analysis[s], profile[s], s \in lostWrite)
      BY DEF SitesInv
    <3>2. Decided(analysis[s], profile[s], s \in lostWrite')
      BY <3>1 DEF Decided
    <3> QED BY <1>1, <2>2, <3>1, <3>2
  <2> QED BY <2>1, <2>2
<1>4. \A s \in Analyses : Counts(analysis'[s], profile'[s]) => Counts(analysis[s], profile[s])
  BY <1>1
<1>5. LeadsAreLinked'
  <2> SUFFICES ASSUME NEW l \in SiteLeads, siteOf'[l] # NoProfile PROVE profile'[siteOf'[l]].status # "NONE"
    BY DEF LeadsAreLinked
  <2>1. CASE siteOf'[l] = r /\ p.status # "NONE"
    BY <1>1, <2>1
  <2>2. CASE siteOf'[l] = siteOf[l]
    <3>1. siteOf[l] \in Analyses /\ profile[siteOf[l]].status # "NONE"
      BY <2>2 DEF SitesInv, SitesTypeOK, LeadsAreLinked
    <3> QED BY <1>1, <2>2, <3>1
  <2> QED BY <2>1, <2>2
<1>6. \A i, k \in Analyses : i # k /\ Counts(analysis'[i], profile'[i]) /\ Counts(analysis'[k], profile'[k]) =>
        i \in sideBySide' /\ k \in sideBySide'
  BY <1>4 DEF SitesInv
<1> QED BY <1>2, <1>3, <1>5, <1>6 DEF SitesInv

\* What is known of one analysis.
LEMMA SiteIsTyped ==
  ASSUME SitesInv, NEW r \in Analyses
  PROVE  /\ analysis[r] \in SiteStates /\ profile[r] \in SiteProfiles /\ requested[r] \in Nat
         /\ analysis = [analysis EXCEPT ![r] = analysis[r]] /\ profile = [profile EXCEPT ![r] = profile[r]]
         /\ requested = [requested EXCEPT ![r] = requested[r]]
         /\ OnItsWay(analysis[r], requested[r]) /\ Decided(analysis[r], profile[r], r \in lostWrite)
         /\ siteOf \in [SiteLeads -> Analyses \cup {NoProfile}] /\ reached \subseteq {"public"}
         /\ resolves \in Addresses /\ siteFaults \in 0..SiteFaults /\ lostWrite \subseteq Analyses
BY DEF SitesInv, SitesTypeOK, SiteStates, SiteProfiles

\* To the next page, or to the summary.
LEMMA NextPaged ==
  ASSUME SitesInv, NEW r \in Analyses, NEW k \in 0..Subpages, NEW g \in 1..(Subpages + 1), NEW n \in Nat,
         NextPage(r, k, g), g + k <= Subpages + 1, n <= Allowed(Subpages + 1 - k),
         analysis[r].at = "request" \/ analysis[r].at = "validate"
  PROVE  \E b \in SiteStates : /\ analysis' = [analysis EXCEPT ![r] = b] /\ OnItsWay(b, n)
                               /\ b.at \notin {"idle", "create", "done"}
<1> USE SiteConstants
<1>1. analysis[r] \in SiteStates
  BY SiteIsTyped
<1>2. PICK at \in {"validate", "summarize"} : at = IF k > 0 THEN "validate" ELSE "summarize"
  OBVIOUS
<1> DEFINE b == [analysis[r] EXCEPT !.at = at, !.left = k, !.hop = 0, !.pages = g]
<1>3. analysis' = [analysis EXCEPT ![r] = b]
  <2>1. analysis' = [analysis EXCEPT ![r].at = at, ![r].left = k, ![r].hop = 0, ![r].pages = g]
    BY <1>2 DEF NextPage
  <2>2. analysis \in [Analyses -> SiteStates]
    BY DEF SitesInv, SitesTypeOK, SiteStates
  <2> QED BY <2>1, <2>2 DEF SiteStates
<1>4. b \in SiteStates /\ b.at = at /\ b.left = k /\ b.hop = 0 /\ b.pages = g
  <2>1. 0 \in 0..MaxRedirects /\ g \in 0..(Subpages + 1)
    OBVIOUS
  <2> QED BY <1>1, <2>1 DEF SiteStates, AnalysisSteps
<1> HIDE DEF b
<1>5. Subpages + 1 - k \in Nat /\ Allowed(Subpages + 1 - k) \in Nat /\ Allowed(Subpages + 1) \in Nat
      /\ Allowed(Subpages + 1 - k) <= Allowed(Subpages + 1)
  <2>1. Subpages + 1 - k \in Nat /\ Subpages + 1 \in Nat /\ Subpages + 1 - k <= Subpages + 1
    OBVIOUS
  <2> QED BY <2>1, SharesGrow
<1>6. n <= Allowed(Subpages + 1)
  BY <1>5
<1>7. OnItsWay(b, n)
  <2>1. CASE k > 0
    <3>1. n <= Allowed(Subpages + 1 - b.left) + b.hop
      BY <1>4, <1>5
    <3> QED BY <1>2, <1>4, <1>6, <2>1, <3>1 DEF OnItsWay
  <2>2. CASE k = 0
    BY <1>2, <1>4, <1>6, <2>2 DEF OnItsWay
  <2> QED BY <2>1, <2>2
<1> QED BY <1>2, <1>3, <1>4, <1>7

\* What a request may have cost so far, itself included.
LEMMA PageCosts ==
  ASSUME SitesInv, NEW r \in Analyses, analysis[r].at \in {"validate", "request"}
  PROVE  /\ analysis[r].pages = 0 => analysis[r].left = 0 /\ requested[r] + 1 <= Allowed(1)
         /\ analysis[r].pages > 0 =>
              /\ analysis[r].left > 0 /\ analysis[r].pages + analysis[r].left <= Subpages + 1
              /\ requested[r] + 1 <= Allowed(Subpages + 1 - (analysis[r].left - 1))
<1> USE SiteConstants
<1>1. analysis[r] \in SiteStates /\ requested[r] \in Nat /\ OnItsWay(analysis[r], requested[r])
  BY SiteIsTyped
<1>2. /\ analysis[r].left \in 0..Subpages /\ analysis[r].hop \in 0..MaxRedirects
      /\ analysis[r].pages \in 0..(Subpages + 1)
  BY <1>1 DEF SiteStates
<1>3. Allowed(1) = MaxRedirects + 1
  <2>1. Allowed(0 + 1) = Allowed(0) + MaxRedirects + 1 /\ 0 + 1 = 1 /\ Allowed(0) = 0
    BY Shares
  <2> QED BY <2>1
<1>4. CASE analysis[r].pages = 0
  BY <1>1, <1>2, <1>3, <1>4 DEF OnItsWay
<1>5. CASE analysis[r].pages > 0
  <2>1. /\ analysis[r].left > 0 /\ analysis[r].pages + analysis[r].left <= Subpages + 1
        /\ requested[r] <= Allowed(Subpages + 1 - analysis[r].left) + analysis[r].hop
    BY <1>1, <1>5 DEF OnItsWay
  <2>2. PICK k \in Nat : k = Subpages + 1 - analysis[r].left
    BY <1>2
  <2>3. Allowed(k + 1) = Allowed(k) + MaxRedirects + 1 /\ Allowed(k) \in Nat
    BY Shares
  <2>4. Subpages + 1 - (analysis[r].left - 1) = k + 1
    BY <1>2, <2>2
  <2>5. requested[r] + 1 <= Allowed(k + 1)
    BY <1>1, <1>2, <2>1, <2>2, <2>3
  <2> QED BY <1>5, <2>1, <2>4, <2>5
<1> QED BY <1>2, <1>4, <1>5

\* A page that is given up leaves the others.
LEMMA PageGivenUp ==
  ASSUME SitesInv, NEW r \in Analyses, NEW at \in {"fail", "block"}, NEW n \in Nat,
         GiveUpPage(r, at), analysis[r].at \in {"validate", "request"}, n = requested[r] \/ n = requested[r] + 1
  PROVE  \E b \in SiteStates : /\ analysis' = [analysis EXCEPT ![r] = b] /\ OnItsWay(b, n)
                               /\ b.at \notin {"idle", "create", "done"}
<1> USE SiteConstants
<1>1. analysis[r] \in SiteStates /\ requested[r] \in Nat
  BY SiteIsTyped
<1>2. /\ analysis[r].left \in 0..Subpages /\ analysis[r].pages \in 0..(Subpages + 1)
  BY <1>1 DEF SiteStates
<1>3. CASE analysis[r].pages = 0
  <2> DEFINE b == [analysis[r] EXCEPT !.at = at]
  <2>1. analysis' = [analysis EXCEPT ![r] = b]
    BY <1>3, SiteIsTyped DEF GiveUpPage, Goto, SitesInv, SitesTypeOK
  <2>2. b \in SiteStates /\ b.at = at
    BY <1>1 DEF SiteStates, AnalysisSteps
  <2> HIDE DEF b
  <2>3. n <= Allowed(1)
    <3>1. requested[r] + 1 <= Allowed(1) /\ Allowed(1) \in Nat
      BY <1>3, PageCosts, Shares
    <3> QED BY <1>1, <3>1
  <2>4. Allowed(1) <= Allowed(Subpages + 1) /\ Allowed(1) \in Nat /\ Allowed(Subpages + 1) \in Nat
    <3>1. 1 \in Nat /\ Subpages + 1 \in Nat /\ 1 <= Subpages + 1
      OBVIOUS
    <3> QED BY <3>1, SharesGrow
  <2>5. n <= Allowed(Subpages + 1)
    BY <2>3, <2>4
  <2> QED BY <2>1, <2>2, <2>5 DEF OnItsWay
<1>4. CASE analysis[r].pages > 0
  <2>1. /\ analysis[r].left > 0 /\ analysis[r].pages + analysis[r].left <= Subpages + 1
        /\ requested[r] + 1 <= Allowed(Subpages + 1 - (analysis[r].left - 1))
    BY <1>4, PageCosts
  <2>2. PICK k \in 0..Subpages : k = analysis[r].left - 1
    BY <1>2, <2>1
  <2>3. PICK g \in 1..(Subpages + 1) : g = analysis[r].pages
    BY <1>2, <1>4
  <2>4. g + k <= Subpages + 1
    BY <1>2, <2>1, <2>2, <2>3
  <2>5. Subpages + 1 - k \in Nat
    OBVIOUS
  <2>6. Allowed(Subpages + 1 - k) \in Nat
    BY <2>5, Shares
  <2>7. n <= Allowed(Subpages + 1 - k)
    BY <1>1, <2>1, <2>2, <2>6
  <2>8. NextPage(r, k, g)
    BY <1>4, <2>2, <2>3 DEF GiveUpPage
  <2> QED BY <2>4, <2>7, <2>8, NextPaged
<1> QED BY <1>2, <1>3, <1>4

-----------------------------------------------------------------------------
\* A recent profile is used again.
LEMMA FindRecentKept ==
  ASSUME SitesInv, NEW r \in Analyses, NEW l \in SiteLeads, FindRecent(r, l)
  PROVE  SitesInv'
<1> USE SiteConstants
<1>1. /\ analysis[r] \in SiteStates /\ analysis[r].at = "idle" /\ OnItsWay(analysis[r], requested[r])
      /\ Decided(analysis[r], profile[r], r \in lostWrite)
      /\ UNCHANGED <<profile, resolves, requested, reached, lostWrite, siteFaults>>
      /\ sideBySide' = IF Analysing = {} THEN sideBySide ELSE sideBySide \cup Analysing \cup {r}
  BY SiteIsTyped DEF FindRecent, traffic
<1>2. PICK b \in SiteStates :
        /\ analysis' = [analysis EXCEPT ![r] = b]
        /\ \/ b.at = "create" /\ Usable = {} /\ UNCHANGED siteOf
           \/ b.at = "done" /\ \E found \in Usable : siteOf' = [siteOf EXCEPT ![l] = found]
        /\ b.left = 0 /\ b.pages = 0 /\ b.hop = 0
  <2>1. PICK at \in {"create", "done"} :
          /\ analysis' = [analysis EXCEPT ![r].at = at, ![r].lead = l]
          /\ \/ at = "create" /\ Usable = {} /\ UNCHANGED siteOf
             \/ at = "done" /\ \E found \in Usable : siteOf' = [siteOf EXCEPT ![l] = found]
    BY DEF FindRecent
  <2> DEFINE b == [analysis[r] EXCEPT !.at = at, !.lead = l]
  <2>2. analysis' = [analysis EXCEPT ![r] = b]
    BY <2>1 DEF SitesInv, SitesTypeOK
  <2>3. b \in SiteStates /\ b.at = at /\ b.left = analysis[r].left /\ b.pages = analysis[r].pages
        /\ b.hop = analysis[r].hop
    BY <1>1 DEF SiteStates, AnalysisSteps
  <2>4. analysis[r].left = 0 /\ analysis[r].pages = 0 /\ analysis[r].hop = 0
    BY <1>1 DEF OnItsWay
  <2> HIDE DEF b
  <2> QED BY <2>1, <2>2, <2>3, <2>4
<1>3. analysis'[r] = b /\ \A s \in Analyses : s # r => analysis'[s] = analysis[s]
  BY <1>2 DEF SitesInv, SitesTypeOK
<1>4. requested[r] = 0 /\ OnItsWay(b, requested[r])
  <2>1. requested[r] = 0 /\ 0 <= Allowed(Subpages + 1)
    BY <1>1, Shares DEF OnItsWay
  <2> QED BY <1>2, <2>1 DEF OnItsWay
<1>5. Decided(b, profile[r], r \in lostWrite)
  BY <1>1, <1>2 DEF Decided
<1>6. SitesTypeOK'
  <2>1. analysis' \in [Analyses -> SiteStates]
    BY <1>2 DEF SitesInv, SitesTypeOK, SiteStates
  <2>2. siteOf' \in [SiteLeads -> Analyses \cup {NoProfile}]
    <3>1. CASE UNCHANGED siteOf
      BY <3>1 DEF SitesInv, SitesTypeOK
    <3>2. CASE \E found \in Usable : siteOf' = [siteOf EXCEPT ![l] = found]
      BY <3>2 DEF SitesInv, SitesTypeOK, Usable
    <3> QED BY <1>2, <3>1, <3>2
  <2>3. sideBySide' \subseteq Analyses
    BY <1>1 DEF SitesInv, SitesTypeOK, Analysing
  <2> QED BY <1>1, <2>1, <2>2, <2>3 DEF SitesInv, SitesTypeOK, SiteStates
<1>7. \A s \in Analyses : OnItsWay(analysis'[s], requested'[s]) /\ Decided(analysis'[s], profile'[s], s \in lostWrite')
  BY <1>1, <1>3, <1>4, <1>5 DEF SitesInv
<1>8. LeadsAreLinked'
  <2> SUFFICES ASSUME NEW k \in SiteLeads, siteOf'[k] # NoProfile PROVE profile[siteOf'[k]].status # "NONE"
    BY <1>1 DEF LeadsAreLinked
  <2>1. siteOf'[k] = siteOf[k] \/ siteOf'[k] \in Usable
    BY <1>2 DEF SitesInv, SitesTypeOK
  <2> QED BY <2>1 DEF SitesInv, LeadsAreLinked, Usable
<1>9. ASSUME NEW i \in Analyses, NEW k \in Analyses, i # k,
             Counts(analysis'[i], profile'[i]), Counts(analysis'[k], profile'[k])
      PROVE  i \in sideBySide' /\ k \in sideBySide'
  <2>1. sideBySide \subseteq sideBySide'
    BY <1>1
  <2>2. CASE Counts(analysis[i], profile[i]) /\ Counts(analysis[k], profile[k])
    BY <1>9, <2>1, <2>2 DEF SitesInv
  <2>3. \A s \in Analyses : Counts(analysis'[s], profile'[s]) /\ ~Counts(analysis[s], profile[s]) => s = r /\ b.at = "create"
    BY <1>1, <1>2, <1>3 DEF Counts
  <2>4. \A s \in Analyses : Counts(analysis[s], profile[s]) => s \in Analysing \cup Usable
    BY DEF Counts, Analysing, Usable
  <2>5. ASSUME NEW s \in Analyses, Counts(analysis'[s], profile'[s]), s # r, b.at = "create"
        PROVE  s \in sideBySide' /\ r \in sideBySide'
    <3>1. Usable = {}
      BY <1>2, <2>5
    <3>2. s \in Analysing
      BY <2>3, <2>4, <2>5, <3>1
    <3> QED BY <1>1, <3>2
  <2> QED BY <1>9, <2>2, <2>3, <2>5
<1> QED BY <1>1, <1>6, <1>7, <1>8, <1>9, SiteIsTyped DEF SitesInv

\* A name that comes to mean another address changes nothing that was decided.
LEMMA NameMovesKept == ASSUME SitesInv, NameMoves PROVE SitesInv'
<1>1. /\ UNCHANGED <<profile, siteOf, analysis, requested, reached, sideBySide, lostWrite>>
      /\ resolves' \in Addresses /\ siteFaults' \in 0..SiteFaults
  BY SiteConstants DEF NameMoves, SiteFault, Addresses, SitesInv, SitesTypeOK
<1> QED BY <1>1 DEF SitesInv, SitesTypeOK, LeadsAreLinked

\* The steps that fetch.
LEMMA FetchKept ==
  ASSUME SitesInv, NEW r \in Analyses,
         \/ ValidateUrl(r) \/ FollowRedirect(r)
         \/ \E links \in 0..Subpages : GetPage(r, links)
         \/ \E at \in {"fail", "block"} : PageFails(r, at)
  PROVE  SitesInv'
<1> USE SiteConstants
<1>1. /\ analysis[r] \in SiteStates /\ requested[r] \in Nat /\ OnItsWay(analysis[r], requested[r])
      /\ Decided(analysis[r], profile[r], r \in lostWrite) /\ profile[r] \in SiteProfiles
      /\ profile = [profile EXCEPT ![r] = profile[r]] /\ requested = [requested EXCEPT ![r] = requested[r]]
      /\ siteOf \in [SiteLeads -> Analyses \cup {NoProfile}] /\ reached \subseteq {"public"}
      /\ resolves \in Addresses /\ siteFaults \in 0..SiteFaults /\ lostWrite \subseteq Analyses
  BY SiteIsTyped
<1>2. /\ UNCHANGED <<profile, siteOf, resolves, sideBySide, lostWrite>>
      /\ siteFaults' \in 0..SiteFaults
      /\ analysis[r].at \in {"validate", "request"}
  BY <1>1 DEF ValidateUrl, FollowRedirect, GetPage, PageFails, SendRequest, RequestPinned,
     traffic, SiteFault
<1>3. \E b \in SiteStates, n \in Nat :
        /\ analysis' = [analysis EXCEPT ![r] = b] /\ requested' = [requested EXCEPT ![r] = n]
        /\ OnItsWay(b, n) /\ b.at \notin {"idle", "create", "done"} /\ reached' \subseteq {"public"}
  <2>1. CASE ValidateUrl(r)
    <3>1. UNCHANGED <<requested, reached>> /\ analysis[r].at = "validate"
      BY <2>1 DEF ValidateUrl, traffic
    <3>2. CASE resolves = "public"
      <4> DEFINE b == [analysis[r] EXCEPT !.at = "request", !.pinned = resolves]
      <4>1. analysis' = [analysis EXCEPT ![r] = b]
        BY <2>1, <3>2 DEF ValidateUrl, SitesInv, SitesTypeOK
      <4>2. /\ b \in SiteStates /\ b.at = "request" /\ b.pinned = "public" /\ b.left = analysis[r].left
            /\ b.hop = analysis[r].hop /\ b.pages = analysis[r].pages
        BY <1>1, <3>2 DEF SiteStates, AnalysisSteps
      <4> HIDE DEF b
      <4>3. OnItsWay(b, requested[r])
        BY <1>1, <3>1, <4>2 DEF OnItsWay
      <4> QED BY <1>1, <3>1, <4>1, <4>2, <4>3
    <3>3. CASE resolves # "public"
      <4>1. GiveUpPage(r, "block")
        BY <2>1, <3>3 DEF ValidateUrl
      <4>2. PICK at \in {"fail", "block"} : GiveUpPage(r, at)
        BY <4>1
      <4>3. \E b \in SiteStates : /\ analysis' = [analysis EXCEPT ![r] = b] /\ OnItsWay(b, requested[r])
                                  /\ b.at \notin {"idle", "create", "done"}
        BY <1>1, <1>2, <4>2, PageGivenUp
      <4> QED BY <1>1, <3>1, <4>3
    <3> QED BY <3>2, <3>3
  <2>2. ASSUME analysis[r].at = "request", RequestPinned(r)
        PROVE  requested' = [requested EXCEPT ![r] = requested[r] + 1] /\ reached' \subseteq {"public"}
               /\ requested[r] + 1 \in Nat
    BY <1>1, <2>2 DEF RequestPinned, SendRequest, OnItsWay
  <2>3. CASE \E links \in 0..Subpages : GetPage(r, links)
    <3>1. PICK links \in 0..Subpages : GetPage(r, links)
      BY <2>3
    <3>2. analysis[r].at = "request" /\ RequestPinned(r)
      BY <3>1 DEF GetPage
    <3>3. /\ analysis[r].left \in 0..Subpages /\ analysis[r].pages \in 0..(Subpages + 1)
      BY <1>1 DEF SiteStates
    <3>4. PICK k \in 0..Subpages, g \in 1..(Subpages + 1) :
            NextPage(r, k, g) /\ g + k <= Subpages + 1 /\ requested[r] + 1 <= Allowed(Subpages + 1 - k)
      <4>1. CASE analysis[r].pages = 0
        <5>1. NextPage(r, links, 1)
          BY <3>1, <4>1 DEF GetPage
        <5>2. requested[r] + 1 <= Allowed(1)
          BY <1>2, <4>1, PageCosts
        <5>3. 1 \in Nat /\ Subpages + 1 - links \in Nat /\ 1 <= Subpages + 1 - links /\ 1 \in 1..(Subpages + 1)
              /\ 1 + links <= Subpages + 1
          OBVIOUS
        <5>4. Allowed(1) <= Allowed(Subpages + 1 - links) /\ Allowed(1) \in Nat /\ Allowed(Subpages + 1 - links) \in Nat
          BY <5>3, SharesGrow
        <5>5. requested[r] + 1 <= Allowed(Subpages + 1 - links)
          BY <1>1, <5>2, <5>4
        <5> QED BY <5>1, <5>3, <5>5
      <4>2. CASE analysis[r].pages > 0
        <5>1. NextPage(r, analysis[r].left - 1, analysis[r].pages + 1)
          BY <3>1, <4>2 DEF GetPage
        <5>2. /\ analysis[r].left > 0 /\ analysis[r].pages + analysis[r].left <= Subpages + 1
              /\ requested[r] + 1 <= Allowed(Subpages + 1 - (analysis[r].left - 1))
          BY <1>2, <4>2, PageCosts
        <5>3. analysis[r].left - 1 \in 0..Subpages /\ analysis[r].pages + 1 \in 1..(Subpages + 1)
              /\ (analysis[r].pages + 1) + (analysis[r].left - 1) <= Subpages + 1
          BY <3>3, <4>2, <5>2
        <5> QED BY <5>1, <5>2, <5>3
      <4> QED BY <3>3, <4>1, <4>2
    <3>5. requested' = [requested EXCEPT ![r] = requested[r] + 1] /\ reached' \subseteq {"public"}
          /\ requested[r] + 1 \in Nat
      BY <2>2, <3>2
    <3>6. \E b \in SiteStates : /\ analysis' = [analysis EXCEPT ![r] = b] /\ OnItsWay(b, requested[r] + 1)
                                /\ b.at \notin {"idle", "create", "done"}
      BY <3>2, <3>4, <3>5, NextPaged
    <3> QED BY <3>5, <3>6
  <2>4. CASE FollowRedirect(r) /\ analysis[r].hop < MaxRedirects
    <3> DEFINE b == [analysis[r] EXCEPT !.at = "validate", !.hop = @ + 1]
    <3>1. analysis' = [analysis EXCEPT ![r] = b]
      BY <2>4 DEF FollowRedirect, SitesInv, SitesTypeOK
    <3>2. analysis[r].hop \in Nat /\ analysis[r].hop + 1 \in 0..MaxRedirects
      BY <1>1, <2>4 DEF SiteStates
    <3>3. /\ b \in SiteStates /\ b.at = "validate" /\ b.left = analysis[r].left
          /\ b.hop = analysis[r].hop + 1 /\ b.pages = analysis[r].pages
      BY <1>1, <3>2 DEF SiteStates, AnalysisSteps
    <3> HIDE DEF b
    <3>4. analysis[r].at = "request" /\ RequestPinned(r)
      BY <2>4 DEF FollowRedirect
    <3>5. requested' = [requested EXCEPT ![r] = requested[r] + 1] /\ reached' \subseteq {"public"}
          /\ requested[r] + 1 \in Nat
      BY <2>2, <3>4
    <3>6. requested[r] + 1 <= Allowed(Subpages + 1)
      <4>0. analysis[r].left \in 0..Subpages /\ analysis[r].pages \in 0..(Subpages + 1)
        BY <1>1 DEF SiteStates
      <4>1. CASE analysis[r].pages = 0
        <5>1. requested[r] + 1 <= Allowed(1)
          BY <1>2, <4>1, PageCosts
        <5>2. 1 \in Nat /\ Subpages + 1 \in Nat /\ 1 <= Subpages + 1
          OBVIOUS
        <5>3. Allowed(1) <= Allowed(Subpages + 1) /\ Allowed(1) \in Nat /\ Allowed(Subpages + 1) \in Nat
          BY <5>2, SharesGrow
        <5> QED BY <1>1, <5>1, <5>3
      <4>2. CASE analysis[r].pages > 0
        <5>1. PICK j \in Nat : j = Subpages + 1 - (analysis[r].left - 1) /\ j <= Subpages + 1
          <6>1. analysis[r].left > 0
            BY <1>2, <4>2, PageCosts
          <6> QED BY <4>0, <6>1
        <5>2. requested[r] + 1 <= Allowed(j)
          BY <1>2, <4>2, <5>1, PageCosts
        <5>3. Subpages + 1 \in Nat
          OBVIOUS
        <5>4. Allowed(j) <= Allowed(Subpages + 1) /\ Allowed(j) \in Nat /\ Allowed(Subpages + 1) \in Nat
          BY <5>1, <5>3, SharesGrow
        <5> QED BY <1>1, <5>2, <5>4
      <4> QED BY <4>0, <4>1, <4>2
    <3>7. OnItsWay(b, requested[r] + 1)
      <4>1. CASE analysis[r].pages = 0 /\ analysis[r].left = 0 /\ requested[r] = analysis[r].hop
        BY <3>3, <3>6, <4>1 DEF OnItsWay
      <4>2. CASE /\ analysis[r].pages > 0 /\ analysis[r].left > 0 /\ analysis[r].pages + analysis[r].left <= Subpages + 1
                 /\ requested[r] <= Allowed(Subpages + 1 - analysis[r].left) + analysis[r].hop
        <5>1. Subpages + 1 - analysis[r].left \in Nat
          BY <1>1 DEF SiteStates
        <5>2. Allowed(Subpages + 1 - analysis[r].left) \in Nat
          BY <5>1, Shares
        <5>3. requested[r] + 1 <= Allowed(Subpages + 1 - b.left) + b.hop
          BY <1>1, <3>2, <3>3, <4>2, <5>2
        <5> QED BY <3>3, <3>6, <4>2, <5>3 DEF OnItsWay
      <4> QED BY <1>1, <3>4, <4>1, <4>2 DEF OnItsWay
    <3> QED BY <3>1, <3>3, <3>5, <3>7
  <2>5. CASE \/ FollowRedirect(r) /\ ~(analysis[r].hop < MaxRedirects)
             \/ \E at \in {"fail", "block"} : PageFails(r, at)
    <3>1. PICK at \in {"fail", "block"} : GiveUpPage(r, at) /\ analysis[r].at = "request" /\ RequestPinned(r)
      BY <2>5 DEF FollowRedirect, PageFails
    <3>2. requested' = [requested EXCEPT ![r] = requested[r] + 1] /\ reached' \subseteq {"public"}
          /\ requested[r] + 1 \in Nat
      BY <2>2, <3>1
    <3>3. \E b \in SiteStates : /\ analysis' = [analysis EXCEPT ![r] = b] /\ OnItsWay(b, requested[r] + 1)
                                /\ b.at \notin {"idle", "create", "done"}
      BY <1>1, <1>2, <3>1, <3>2, PageGivenUp
    <3> QED BY <3>2, <3>3
  <2> QED BY <2>1, <2>3, <2>4, <2>5
<1>4. PICK b \in SiteStates, n \in Nat :
        /\ analysis' = [analysis EXCEPT ![r] = b] /\ requested' = [requested EXCEPT ![r] = n]
        /\ OnItsWay(b, n) /\ b.at \notin {"idle", "create", "done"} /\ reached' \subseteq {"public"}
  BY <1>3
<1>5. Decided(b, profile[r], r \in lostWrite') /\ Counts(analysis[r], profile[r])
  BY <1>1, <1>2, <1>4 DEF Decided, Counts
<1>6. /\ profile' = [profile EXCEPT ![r] = profile[r]]
      /\ siteOf' \in [SiteLeads -> Analyses \cup {NoProfile}]
      /\ \A l \in SiteLeads : siteOf'[l] = siteOf[l]
      /\ resolves' \in Addresses /\ lostWrite \subseteq lostWrite' /\ lostWrite' \subseteq Analyses
  BY <1>1, <1>2
<1> QED BY <1>1, <1>2, <1>4, <1>5, <1>6, SiteMoves

\* The steps that create the profile, link it and write what it is.
LEMMA WritesKept ==
  ASSUME SitesInv, NEW r \in Analyses,
         \/ CreateProfile(r) \/ LinkProfile(r) \/ SummarizeSite(r) \/ SummaryFails(r) \/ WriteSummary(r)
         \/ WriteFailure(r) \/ AnalysisDies(r) \/ Expire(r)
  PROVE  SitesInv'
<1> USE SiteConstants
<1>1. /\ analysis[r] \in SiteStates /\ requested[r] \in Nat /\ OnItsWay(analysis[r], requested[r])
      /\ Decided(analysis[r], profile[r], r \in lostWrite) /\ profile[r] \in SiteProfiles
      /\ analysis = [analysis EXCEPT ![r] = analysis[r]]
      /\ profile = [profile EXCEPT ![r] = profile[r]] /\ requested = [requested EXCEPT ![r] = requested[r]]
      /\ siteOf \in [SiteLeads -> Analyses \cup {NoProfile}] /\ reached \subseteq {"public"}
      /\ resolves \in Addresses /\ siteFaults \in 0..SiteFaults /\ lostWrite \subseteq Analyses
  BY SiteIsTyped
<1>2. /\ UNCHANGED <<resolves, requested, reached, sideBySide>> /\ siteFaults' \in 0..SiteFaults
      /\ lostWrite' \in {lostWrite, lostWrite \cup {r}}
  BY <1>1 DEF CreateProfile, LinkProfile, SummarizeSite, SummaryFails, WriteSummary,
     WriteFailure, AnalysisDies,
              Expire, SiteFault, traffic
<1>3. \E b \in SiteStates, p \in SiteProfiles :
        /\ analysis' = [analysis EXCEPT ![r] = b] /\ profile' = [profile EXCEPT ![r] = p]
        /\ OnItsWay(b, requested[r]) /\ Decided(b, p, r \in lostWrite')
        /\ Counts(b, p) => Counts(analysis[r], profile[r])
        /\ profile[r].status # "NONE" => p.status # "NONE"
        /\ UNCHANGED siteOf \/ (siteOf' = [siteOf EXCEPT ![analysis[r].lead] = r] /\ p.status # "NONE")
  <2>1. CASE CreateProfile(r)
    <3> DEFINE b == [analysis[r] EXCEPT !.at = "link"]
               p == [profile[r] EXCEPT !.status = "PENDING"]
    <3>1. /\ analysis' = [analysis EXCEPT ![r] = b] /\ profile' = [profile EXCEPT ![r] = p] /\ UNCHANGED siteOf
          /\ analysis[r].at = "create"
      BY <2>1 DEF CreateProfile, Goto, SitesInv, SitesTypeOK
    <3>2. /\ b \in SiteStates /\ b.at = "link" /\ b.left = analysis[r].left
          /\ b.hop = analysis[r].hop /\ b.pages = analysis[r].pages
      BY <1>1 DEF SiteStates, AnalysisSteps
    <3>3. p \in SiteProfiles /\ p.status = "PENDING"
      BY <1>1 DEF SiteProfiles, ProfileStatus
    <3> HIDE DEF b, p
    <3>4. OnItsWay(b, requested[r])
      BY <1>1, <3>1, <3>2 DEF OnItsWay
    <3>5. Decided(b, p, r \in lostWrite') /\ Counts(analysis[r], profile[r])
      BY <3>1, <3>2, <3>3 DEF Decided, Counts
    <3> QED BY <3>1, <3>2, <3>3, <3>4, <3>5
  <2>2. CASE LinkProfile(r)
    <3> DEFINE b == [analysis[r] EXCEPT !.at = "validate"]
    <3>1. /\ analysis' = [analysis EXCEPT ![r] = b] /\ UNCHANGED <<profile, lostWrite>>
          /\ siteOf' = [siteOf EXCEPT ![analysis[r].lead] = r]
          /\ analysis[r].at = "link"
      BY <2>2 DEF LinkProfile, Goto, SitesInv, SitesTypeOK
    <3>2. /\ b \in SiteStates /\ b.at = "validate" /\ b.left = analysis[r].left
          /\ b.hop = analysis[r].hop /\ b.pages = analysis[r].pages
      BY <1>1 DEF SiteStates, AnalysisSteps
    <3> HIDE DEF b
    <3>3. OnItsWay(b, requested[r])
      BY <1>1, <3>1, <3>2 DEF OnItsWay
    <3>4. Decided(b, profile[r], r \in lostWrite') /\ Counts(analysis[r], profile[r]) /\ profile[r].status # "NONE"
      BY <1>1, <3>1, <3>2 DEF Decided, Counts
    <3> QED BY <1>1, <3>1, <3>2, <3>3, <3>4
  <2>3. CASE SummarizeSite(r) \/ SummaryFails(r)
    <3>1. PICK at \in {"write", "fail"} :
            /\ analysis' = [analysis EXCEPT ![r].at = at] /\ UNCHANGED <<profile, siteOf, lostWrite>>
            /\ analysis[r].at \in {"summarize", "write"}
      BY <2>3 DEF SummarizeSite, SummaryFails, Goto
    <3> DEFINE b == [analysis[r] EXCEPT !.at = at]
    <3>2. analysis' = [analysis EXCEPT ![r] = b]
      BY <3>1 DEF SitesInv, SitesTypeOK
    <3>3. b \in SiteStates /\ b.at = at /\ b.pages = analysis[r].pages
      BY <1>1 DEF SiteStates, AnalysisSteps
    <3> HIDE DEF b
    <3>4. OnItsWay(b, requested[r])
      BY <1>1, <3>1, <3>3 DEF OnItsWay
    <3>5. Decided(b, profile[r], r \in lostWrite') /\ Counts(analysis[r], profile[r])
      BY <1>1, <3>1, <3>3 DEF Decided, Counts
    <3> QED BY <1>1, <3>1, <3>2, <3>3, <3>4, <3>5
  <2>4. CASE WriteSummary(r) \/ WriteFailure(r) \/ AnalysisDies(r)
    <3> DEFINE b == [Unstarted(analysis[r].lead) EXCEPT !.at = "done"]
    <3>1. analysis' = [analysis EXCEPT ![r] = b] /\ UNCHANGED siteOf
      BY <2>4 DEF WriteSummary, WriteFailure, AnalysisDies, Finish, SitesInv, SitesTypeOK
    <3>2. b \in SiteStates /\ b.at = "done"
      <4>1. 0 \in 0..Subpages /\ 0 \in 0..MaxRedirects /\ 0 \in 0..(Subpages + 1) /\ analysis[r].lead \in SiteLeads
        BY <1>1 DEF SiteStates
      <4> QED BY <4>1 DEF Unstarted, SiteStates, AnalysisSteps, Addresses
    <3> HIDE DEF b
    <3>3. OnItsWay(b, requested[r])
      BY <1>1, <3>2 DEF OnItsWay
    <3>4. CASE WriteSummary(r)
      <4> DEFINE p == [status |-> "OK", pages |-> analysis[r].pages, fresh |-> TRUE]
      <4>1. profile' = [profile EXCEPT ![r] = p] /\ analysis[r].at = "write"
        BY <3>4 DEF WriteSummary
      <4>2. p \in SiteProfiles /\ p.status = "OK" /\ p.pages = analysis[r].pages
        BY <1>1 DEF SiteStates, SiteProfiles, ProfileStatus
      <4> HIDE DEF p
      <4>3. Decided(b, p, r \in lostWrite') /\ Counts(analysis[r], profile[r])
        BY <1>1, <3>2, <4>1, <4>2 DEF OnItsWay, Decided, Counts
      <4> QED BY <3>1, <3>2, <3>3, <4>1, <4>2, <4>3
    <3>5. CASE WriteFailure(r)
      <4>1. PICK status \in {"FAILED", "BLOCKED"} :
              profile' = [profile EXCEPT ![r].status = status] /\ analysis[r].at \in {"fail", "block"}
        BY <3>5 DEF WriteFailure
      <4> DEFINE p == [profile[r] EXCEPT !.status = status]
      <4>2. profile' = [profile EXCEPT ![r] = p]
        BY <4>1 DEF SitesInv, SitesTypeOK
      <4>3. p \in SiteProfiles /\ p.status = status
        BY <1>1 DEF SiteProfiles, ProfileStatus
      <4> HIDE DEF p
      <4>4. Decided(b, p, r \in lostWrite') /\ Counts(analysis[r], profile[r])
        BY <3>2, <4>1, <4>3 DEF Decided, Counts
      <4> QED BY <3>1, <3>2, <3>3, <4>2, <4>3, <4>4
    <3>6. CASE AnalysisDies(r)
      <4>1. UNCHANGED profile /\ r \in lostWrite' /\ analysis[r].at \notin {"idle", "done"}
        BY <3>6 DEF AnalysisDies, Analysing
      <4>2. Decided(b, profile[r], r \in lostWrite') /\ Counts(analysis[r], profile[r])
        BY <1>1, <3>2, <4>1 DEF Decided, Counts
      <4> QED BY <1>1, <3>1, <3>2, <3>3, <4>1, <4>2
    <3> QED BY <2>4, <3>4, <3>5, <3>6
  <2>5. CASE Expire(r)
    <3> DEFINE p == [profile[r] EXCEPT !.fresh = FALSE]
    <3>1. profile' = [profile EXCEPT ![r] = p] /\ UNCHANGED <<siteOf, analysis, lostWrite>>
      BY <2>5 DEF Expire, SitesInv, SitesTypeOK
    <3>2. p \in SiteProfiles /\ p.status = profile[r].status /\ p.pages = profile[r].pages
      BY <1>1 DEF SiteProfiles
    <3>3. Counts(analysis[r], profile[r])
      BY <2>5 DEF Expire, Usable, Counts
    <3> HIDE DEF p
    <3>4. Decided(analysis[r], p, r \in lostWrite')
      BY <1>1, <3>1, <3>2 DEF Decided
    <3> QED BY <1>1, <3>1, <3>2, <3>3, <3>4
  <2> QED BY <2>1, <2>2, <2>3, <2>4, <2>5
<1>4. PICK b \in SiteStates, p \in SiteProfiles :
        /\ analysis' = [analysis EXCEPT ![r] = b] /\ profile' = [profile EXCEPT ![r] = p]
        /\ OnItsWay(b, requested[r]) /\ Decided(b, p, r \in lostWrite')
        /\ Counts(b, p) => Counts(analysis[r], profile[r])
        /\ profile[r].status # "NONE" => p.status # "NONE"
        /\ UNCHANGED siteOf \/ (siteOf' = [siteOf EXCEPT ![analysis[r].lead] = r] /\ p.status # "NONE")
  BY <1>3
<1>5. /\ siteOf' \in [SiteLeads -> Analyses \cup {NoProfile}]
      /\ \A l \in SiteLeads : siteOf'[l] = siteOf[l] \/ (siteOf'[l] = r /\ p.status # "NONE")
  BY <1>1, <1>4
<1>6. /\ requested' = [requested EXCEPT ![r] = requested[r]] /\ reached' \subseteq {"public"}
      /\ resolves' \in Addresses /\ lostWrite \subseteq lostWrite' /\ lostWrite' \subseteq Analyses
  BY <1>1, <1>2
<1> QED BY <1>1, <1>2, <1>4, <1>5, <1>6, SiteMoves

\* Every step keeps the profiles and the requests counted.
LEMMA SitesStep == SitesInv /\ [SitesNext]_siteVars => SitesInv'
<1> SUFFICES ASSUME SitesInv, [SitesNext]_siteVars PROVE SitesInv'
  OBVIOUS
<1>1. CASE UNCHANGED siteVars
  BY <1>1 DEF siteVars, SitesInv, SitesTypeOK, LeadsAreLinked
<1>2. CASE SitesNext
  BY <1>2, FindRecentKept, NameMovesKept, FetchKept, WritesKept DEF SitesNext
<1> QED BY <1>1, <1>2

\* The invariant holds in every state.
LEMMA SitesInvariant == SitesSpec => []SitesInv
BY SitesStart, SitesStep, PTL DEF SitesSpec

\* Analyses and profiles are what the code can store (website-intelligence.service.ts).
THEOREM SitesTypeCorrect == SitesSpec => []SitesTypeOK
<1>1. SitesInv => SitesTypeOK
  BY DEF SitesInv
<1> QED BY <1>1, SitesInvariant, PTL

\* The invariant gives the properties.
LEMMA SitesInvHolds == SitesInv => ProfilesHold
<1> SUFFICES ASSUME SitesInv PROVE ProfilesHold
  OBVIOUS
<1>1. RequestsAreApproved
  BY DEF SitesInv, RequestsAreApproved, OnItsWay, Allowed
<1>2. ProfilesAreDecided
  BY DEF SitesInv, ProfilesAreDecided, Decided, Analysing
<1>3. OneProfile
  BY DEF SitesInv, OneProfile, Counts, Usable
<1> QED BY <1>1, <1>2, <1>3 DEF SitesInv, ProfilesHold

\* Only public addresses are asked, within the limit, and each lead has one decided profile (website-intelligence.service.ts).
THEOREM SitesCorrect == SitesSpec => []ProfilesHold
BY SitesInvHolds, SitesInvariant, PTL

-----------------------------------------------------------------------------
(* Campaigns and their lists *)

DraftRecords == [status : DraftStatus, total : Nat, skipped : Nat]
CreationRecords == [at : CreationSteps, left : Seq(Leads), override : BOOLEAN,
                    enrolled : Nat, skipped : Nat, finding : RowStatus]
RowRecords == [status : RowStatus, text : {"PENDING", "READY", "FAILED"}]
DraftRows == [Leads -> RowRecords]
Creating == {"check", "enrol"}

TakenIn(rows) == {l \in Leads : rows[l].status \in {"PENDING", "QUEUED", "SENT", "FAILED"}}
WrittenIn(rows) == {l \in Leads : rows[l] # NoRow}

\* The counts of a creation are ahead of the rows by the lead that has been checked.
CountsAgree(d, c, k, rows, mud) ==
  /\ Cardinality(TakenIn(rows)) <= EnrolCap
  /\ k.at \in Creating => k.enrolled <= EnrolCap
  /\ k.at = "check" => Cardinality(TakenIn(rows)) <= k.enrolled
  /\ k.at = "enrol" => Cardinality(TakenIn(rows)) + (IF k.finding = "PENDING" THEN 1 ELSE 0) <= k.enrolled
  /\ k.at = "done" => Cardinality(TakenIn(rows)) <= c.total
  /\ k.at \in Creating /\ d \notin mud =>
       IsInjective(k.left) /\ \A i \in 1..Len(k.left) : rows[k.left[i]] = NoRow
  /\ k.at = "check" /\ d \notin mud => k.enrolled + k.skipped = Cardinality(WrittenIn(rows))
  /\ k.at = "enrol" /\ d \notin mud => k.enrolled + k.skipped = Cardinality(WrittenIn(rows)) + 1
  /\ k.at = "done" /\ d \notin mud => c.total + c.skipped = Cardinality(WrittenIn(rows))

\* Where a creation and its campaign stand together, and what a row has by then.
StagesAgree(d, c, k, rows, mud) ==
  /\ k.at = "idle" <=> c.status = "NONE"
  /\ k.at = "idle" => k.enrolled = 0 /\ k.skipped = 0 /\ \A l \in Leads : rows[l] = NoRow
  /\ k.at = "enrol" => k.left # <<>> /\ k.finding \in {"PENDING", "SKIPPED"}
  /\ k.at \in Creating /\ c.status \in {"PREPARING", "READY", "RUNNING"} => d \in mud
  /\ c.status \in {"READY", "RUNNING"} /\ d \notin mud =>
       \A l \in Leads : rows[l].status \in {"PENDING", "QUEUED"} => rows[l].text # "PENDING"
  /\ \A l \in Leads : (rows[l].status = "QUEUED" => rows[l].text = "READY")
                      /\ (rows[l].status = "NONE" => rows[l] = NoRow)

\* A message to the lead is sent, or may still be.
MayReach(c, k, rows, l) ==
  \/ rows[l].status = "SENT"
  \/ rows[l].status \in {"PENDING", "QUEUED"} /\ c.status \in Open
  \/ k.at = "enrol" /\ Head(k.left) = l /\ k.finding = "PENDING"

\* What a dry run has left out stays so.
Withheld(row, l, dnc) ==
  row.status # "SENT" /\ (l \in dnc \/ row.status \notin {"PENDING", "QUEUED", "FAILED"} \/ row.text # "READY")

DraftsInv ==
  /\ DraftsTypeOK
  /\ \A d \in Drafts : CountsAgree(d, campaign[d], creation[d], enrolled[d], muddled)
  /\ \A d \in Drafts : StagesAgree(d, campaign[d], creation[d], enrolled[d], muddled)
  /\ \A d \in Drafts : \A l \in leftOut[d] : Withheld(enrolled[d][l], l, onDncList)
  /\ \A d \in Drafts : creation[d].at \in Creating /\ creation[d].override => d \in doubled
  /\ \A d, e \in Drafts : d # e /\ creation[d].at \in Creating /\ creation[e].at \in Creating => d \in doubled
  /\ \A d, e \in Drafts : \A l \in Leads :
       d # e /\ MayReach(campaign[d], creation[d], enrolled[d], l) /\ MayReach(campaign[e], creation[e], enrolled[e], l)
       => d \in doubled \/ e \in doubled

\* The types as the lemmas need them.
LEMMA DraftsTyped ==
  ASSUME DraftsInv
  PROVE  /\ campaign \in [Drafts -> DraftRecords] /\ creation \in [Drafts -> CreationRecords]
         /\ enrolled \in [Drafts -> DraftRows] /\ leftOut \in [Drafts -> SUBSET Leads]
         /\ draftFaults \in 0..DraftFaults /\ onDncList \subseteq Leads /\ muddled \subseteq Drafts /\ doubled \subseteq Drafts
BY DEF DraftsInv, DraftsTypeOK, DraftRecords, CreationRecords, DraftRows, RowRecords

\* The rows of a campaign can be counted.
LEMMA RowsAreFinite ==
  ASSUME NEW rows
  PROVE  /\ IsFiniteSet(TakenIn(rows)) /\ Cardinality(TakenIn(rows)) \in Nat
         /\ IsFiniteSet(WrittenIn(rows)) /\ Cardinality(WrittenIn(rows)) \in Nat
<1>1. IsFiniteSet(Leads) /\ TakenIn(rows) \subseteq Leads /\ WrittenIn(rows) \subseteq Leads
  BY DraftsAssumption DEF TakenIn, WrittenIn
<1>2. IsFiniteSet(TakenIn(rows)) /\ IsFiniteSet(WrittenIn(rows))
  BY <1>1, FS_Subset
<1> QED BY <1>2, FS_CardinalityType

\* Nothing has gone wrong.
LEMMA NoDraftFault == 0 \in 0..DraftFaults
<1>1. DraftFaults \in Nat
  BY DraftsAssumption
<1> QED BY <1>1

\* No creation has begun, and no row is there.
LEMMA NothingCreated ==
  /\ NoRow \in RowRecords /\ NoRow.status = "NONE" /\ NoRow.text = "PENDING"
  /\ NoCreation \in CreationRecords /\ NoCreation.at = "idle"
  /\ NoCreation.enrolled = 0 /\ NoCreation.skipped = 0
<1>1. <<>> \in Seq(Leads)
  OBVIOUS
<1> QED BY <1>1 DEF NoRow, RowRecords, NoCreation, CreationRecords, RowStatus, CreationSteps

\* No campaign is there.
LEMMA DraftsStart == DraftsInit => DraftsInv
<1> SUFFICES ASSUME DraftsInit PROVE DraftsInv
  OBVIOUS
<1> USE NothingCreated DEF DraftsInit
<1>1. /\ campaign \in [Drafts -> DraftRecords] /\ \A d \in Drafts : campaign[d].status = "NONE"
  BY DEF DraftRecords, DraftStatus
<1>2. creation \in [Drafts -> CreationRecords] /\ \A d \in Drafts : creation[d] = NoCreation
  OBVIOUS
<1>3. enrolled \in [Drafts -> DraftRows] /\ \A d \in Drafts : \A l \in Leads : enrolled[d][l] = NoRow
  BY DEF DraftRows
<1>4. leftOut \in [Drafts -> SUBSET Leads]
  OBVIOUS
<1>5. draftFaults \in 0..DraftFaults
  <2>1. draftFaults = 0
    OBVIOUS
  <2> QED BY <2>1, NoDraftFault
<1>6. DraftsTypeOK
  BY <1>1, <1>2, <1>3, <1>4, <1>5 DEF DraftsTypeOK, DraftRecords, CreationRecords, DraftRows,
     RowRecords
<1>7. ASSUME NEW d \in Drafts PROVE CountsAgree(d, campaign[d], creation[d], enrolled[d], muddled)
  <2>1. TakenIn(enrolled[d]) = {}
    BY <1>3 DEF TakenIn
  <2>2. Cardinality(TakenIn(enrolled[d])) = 0 /\ EnrolCap \in Nat
    BY <2>1, FS_EmptySet, DraftsAssumption
  <2>3. creation[d].at = "idle"
    BY <1>2
  <2> QED BY <2>2, <2>3 DEF CountsAgree, Creating
<1>8. ASSUME NEW d \in Drafts PROVE StagesAgree(d, campaign[d], creation[d], enrolled[d], muddled)
  BY <1>1, <1>2, <1>3 DEF StagesAgree, Creating
<1>9. \A d \in Drafts : \A l \in Leads : ~MayReach(campaign[d], creation[d], enrolled[d], l)
  BY <1>2, <1>3 DEF MayReach
<1> QED BY <1>2, <1>6, <1>7, <1>8, <1>9 DEF DraftsInv, Creating

\* Rows that are only moved on: none appears, and none is enrolled again.
LaterRows(rows, more) ==
  \A l \in Leads : /\ rows[l] = NoRow <=> more[l] = NoRow
                   /\ more[l].status \in {"PENDING", "QUEUED", "SENT", "FAILED"} =>
                        rows[l].status \in {"PENDING", "QUEUED", "SENT", "FAILED"}

\* Rows that move on keep the counts.
LEMMA CountsStay ==
  ASSUME NEW d, NEW c \in DraftRecords, NEW b \in DraftRecords, NEW k \in CreationRecords,
         NEW rows \in DraftRows, NEW more \in DraftRows, NEW mud, NEW worse, mud \subseteq worse,
         b.total = c.total, b.skipped = c.skipped, LaterRows(rows, more), CountsAgree(d, c, k, rows, mud)
  PROVE  CountsAgree(d, b, k, more, worse)
<1>1. WrittenIn(more) = WrittenIn(rows) /\ TakenIn(more) \subseteq TakenIn(rows)
  BY DEF LaterRows, WrittenIn, TakenIn
<1>2. Cardinality(TakenIn(more)) <= Cardinality(TakenIn(rows))
  BY <1>1, RowsAreFinite, FS_Subset
<1>3. /\ Cardinality(TakenIn(more)) \in Nat /\ Cardinality(TakenIn(rows)) \in Nat /\ EnrolCap \in Nat
      /\ k.enrolled \in Nat /\ c.total \in Nat
  BY RowsAreFinite, DraftsAssumption DEF CreationRecords, DraftRecords
<1>4. \A m \in Nat : Cardinality(TakenIn(rows)) <= m => Cardinality(TakenIn(more)) <= m
  BY <1>2, <1>3
<1>5. \A x \in {0, 1} : \A m \in Nat : Cardinality(TakenIn(rows)) + x <= m => Cardinality(TakenIn(more)) + x <= m
  BY <1>2, <1>3
<1>6. k.at \in Creating /\ d \notin worse => \A i \in 1..Len(k.left) : more[k.left[i]] = NoRow
  <2>1. \A i \in 1..Len(k.left) : k.left[i] \in Leads
    BY DEF CreationRecords
  <2> QED BY <2>1 DEF CountsAgree, LaterRows
<1>7. d \notin worse => d \notin mud
  OBVIOUS
<1> USE <1>3, <1>4 DEF CountsAgree
<1>8. Cardinality(TakenIn(more)) <= EnrolCap /\ (k.at \in Creating => k.enrolled <= EnrolCap)
  OBVIOUS
<1>9. k.at = "check" => Cardinality(TakenIn(more)) <= k.enrolled
  OBVIOUS
<1>10. k.at = "enrol" => Cardinality(TakenIn(more)) + (IF k.finding = "PENDING" THEN 1 ELSE 0) <= k.enrolled
  BY <1>5
<1>11. k.at = "done" => Cardinality(TakenIn(more)) <= b.total
  OBVIOUS
<1>12. /\ k.at \in Creating /\ d \notin worse => IsInjective(k.left)
       /\ k.at = "check" /\ d \notin worse => k.enrolled + k.skipped = Cardinality(WrittenIn(more))
       /\ k.at = "enrol" /\ d \notin worse => k.enrolled + k.skipped = Cardinality(WrittenIn(more)) + 1
       /\ k.at = "done" /\ d \notin worse => b.total + b.skipped = Cardinality(WrittenIn(more))
  BY <1>1, <1>7
<1> QED BY <1>6, <1>8, <1>9, <1>10, <1>11, <1>12

\* What is muddled stays so.
LEMMA StagesStay ==
  ASSUME NEW d, NEW c, NEW k, NEW rows, NEW mud, NEW worse, mud \subseteq worse, StagesAgree(d, c, k, rows, mud)
  PROVE  StagesAgree(d, c, k, rows, worse)
BY DEF StagesAgree

\* One campaign moves, and its creation and its rows with it.
DraftMoved(d, c, k, rows) ==
  /\ c \in DraftRecords /\ k \in CreationRecords /\ rows \in DraftRows
  /\ campaign' = [campaign EXCEPT ![d] = c] /\ enrolled' = [enrolled EXCEPT ![d] = rows]
  /\ creation' \in [Drafts -> CreationRecords] /\ creation'[d] = k
  /\ \A e \in Drafts : e # d => creation'[e] = creation[e]
  /\ product' \in {"none", "live", "removed"} /\ draftFaults' \in 0..DraftFaults
  /\ onDncList' = onDncList /\ muddled \subseteq muddled' /\ muddled' \subseteq Drafts
  /\ doubled \subseteq doubled' /\ doubled' \subseteq Drafts
  /\ leftOut' \in [Drafts -> SUBSET Leads] /\ \A e \in Drafts : e # d => leftOut'[e] \subseteq leftOut[e]
  /\ CountsAgree(d, c, k, rows, muddled') /\ StagesAgree(d, c, k, rows, muddled')
  /\ \A l \in leftOut'[d] : Withheld(rows[l], l, onDncList)
  /\ k.at \in Creating /\ k.override => d \in doubled'
  /\ \A e \in Drafts : e # d /\ k.at \in Creating /\ creation[e].at \in Creating => d \in doubled' /\ e \in doubled'
  /\ \A l \in Leads : MayReach(c, k, rows, l) =>
       \/ MayReach(campaign[d], creation[d], enrolled[d], l) \/ d \in doubled'
       \/ \A e \in Drafts : e # d => ~MayReach(campaign[e], creation[e], enrolled[e], l)

\* Such a move keeps the invariant.
LEMMA DraftMoves ==
  ASSUME DraftsInv, NEW d \in Drafts, NEW c, NEW k, NEW rows, DraftMoved(d, c, k, rows)
  PROVE  DraftsInv'
<1> USE DEF DraftMoved
<1>1. /\ campaign'[d] = c /\ creation'[d] = k /\ enrolled'[d] = rows
      /\ \A e \in Drafts : e # d => campaign'[e] = campaign[e] /\ creation'[e] = creation[e] /\ enrolled'[e] = enrolled[e]
  BY DraftsTyped
<1>2. campaign' \in [Drafts -> DraftRecords] /\ creation' \in [Drafts -> CreationRecords] /\ enrolled' \in [Drafts -> DraftRows]
  BY DraftsTyped
<1>3. DraftsTypeOK'
  BY <1>2, DraftsTyped DEF DraftsTypeOK, DraftRecords, CreationRecords, DraftRows, RowRecords
<1>4. ASSUME NEW e \in Drafts PROVE CountsAgree(e, campaign'[e], creation'[e], enrolled'[e], muddled')
  <2>1. CASE e = d
    BY <1>1, <2>1
  <2>2. CASE e # d
    <3>1. /\ campaign[e] \in DraftRecords /\ creation[e] \in CreationRecords /\ enrolled[e] \in DraftRows
          /\ CountsAgree(e, campaign[e], creation[e], enrolled[e], muddled) /\ LaterRows(enrolled[e], enrolled[e])
      BY DraftsTyped DEF DraftsInv, LaterRows
    <3>2. CountsAgree(e, campaign[e], creation[e], enrolled[e], muddled')
      BY <3>1, CountsStay
    <3> QED BY <1>1, <2>2, <3>2
  <2> QED BY <2>1, <2>2
<1>5. ASSUME NEW e \in Drafts PROVE StagesAgree(e, campaign'[e], creation'[e], enrolled'[e], muddled')
  <2>1. CASE e = d
    BY <1>1, <2>1
  <2>2. CASE e # d
    <3>1. StagesAgree(e, campaign[e], creation[e], enrolled[e], muddled)
      BY DEF DraftsInv
    <3>2. StagesAgree(e, campaign[e], creation[e], enrolled[e], muddled')
      BY <3>1, StagesStay
    <3> QED BY <1>1, <2>2, <3>2
  <2> QED BY <2>1, <2>2
<1>6. \A e \in Drafts : \A l \in leftOut'[e] : Withheld(enrolled'[e][l], l, onDncList')
  BY <1>1 DEF DraftsInv
<1>7. \A e \in Drafts : creation'[e].at \in Creating /\ creation'[e].override => e \in doubled'
  BY <1>1 DEF DraftsInv
<1>8. \A e, f \in Drafts : e # f /\ creation'[e].at \in Creating /\ creation'[f].at \in Creating => e \in doubled'
  BY <1>1 DEF DraftsInv
<1>9. ASSUME NEW e \in Drafts, NEW f \in Drafts, NEW l \in Leads, e # f,
             MayReach(campaign'[e], creation'[e], enrolled'[e], l), MayReach(campaign'[f], creation'[f], enrolled'[f], l)
      PROVE  e \in doubled' \/ f \in doubled'
  <2>1. MayReach(campaign[e], creation[e], enrolled[e], l) /\ MayReach(campaign[f], creation[f], enrolled[f], l)
          => e \in doubled \/ f \in doubled
    BY <1>9 DEF DraftsInv
  <2>2. CASE e # d /\ f # d
    BY <1>1, <1>9, <2>1, <2>2
  <2>3. CASE e = d
    BY <1>1, <1>9, <2>1, <2>3
  <2>4. CASE f = d
    BY <1>1, <1>9, <2>1, <2>4
  <2> QED BY <2>2, <2>3, <2>4
<1> QED BY <1>3, <1>4, <1>5, <1>6, <1>7, <1>8, <1>9 DEF DraftsInv

\* What is known of one campaign.
LEMMA DraftFacts ==
  ASSUME DraftsInv, NEW d \in Drafts
  PROVE  /\ campaign[d] \in DraftRecords /\ creation[d] \in CreationRecords /\ enrolled[d] \in DraftRows
         /\ CountsAgree(d, campaign[d], creation[d], enrolled[d], muddled)
         /\ StagesAgree(d, campaign[d], creation[d], enrolled[d], muddled)
         /\ \A l \in leftOut[d] : Withheld(enrolled[d][l], l, onDncList)
         /\ leftOut[d] \subseteq Leads
         /\ (creation[d].at \in Creating /\ creation[d].override => d \in doubled)
         /\ \A e \in Drafts : e # d /\ creation[d].at \in Creating /\ creation[e].at \in Creating
              => d \in doubled /\ e \in doubled
BY DraftsTyped DEF DraftsInv

\* What is known of the rest.
LEMMA DraftsSame ==
  ASSUME DraftsInv
  PROVE  /\ product \in {"none", "live", "removed"} /\ draftFaults \in 0..DraftFaults
         /\ muddled \subseteq Drafts /\ doubled \subseteq Drafts
         /\ leftOut \in [Drafts -> SUBSET Leads]
BY DEF DraftsInv, DraftsTypeOK

\* What goes wrong is counted.
LEMMA DraftFaultCounts ==
  ASSUME draftFaults \in 0..DraftFaults, NEW rare \in BOOLEAN, OnceIf(rare)
  PROVE  draftFaults' \in 0..DraftFaults
BY DraftsAssumption DEF OnceIf, Once

\* What touches no campaign's rows, and what a dry run sees.
LEMMA OthersStay ==
  ASSUME DraftsInv, UNCHANGED <<creating, enrolled, doubled, muddled>>,
         product' \in {"none", "live", "removed"}, draftFaults' \in 0..DraftFaults,
         onDncList' \subseteq Leads, leftOut' \in [Drafts -> SUBSET Leads],
         \A d \in Drafts : \A l \in leftOut'[d] : Withheld(enrolled[d][l], l, onDncList')
  PROVE  DraftsInv'
<1>1. UNCHANGED <<campaign, creation, enrolled, doubled, muddled>>
  BY DEF creating
<1>2. DraftsTypeOK'
  BY <1>1 DEF DraftsInv, DraftsTypeOK
<1>3. \A d \in Drafts : CountsAgree(d, campaign, creation, enrolled, muddled) <=> CountsAgree(d, campaign', creation', enrolled', muddled')
  BY <1>1
<1> QED BY <1>1, <1>2 DEF DraftsInv

\* The product, the list and the dry runs touch no row.
LEMMA OutsideMoves ==
  ASSUME DraftsInv, CreateProduct \/ RemoveProduct \/ (\E l \in Leads : OptOut(l)) \/ \E d \in Drafts : DryRun(d)
  PROVE  DraftsInv'
<1>1. CASE CreateProduct \/ RemoveProduct
  <2>1. /\ UNCHANGED <<creating, enrolled, onDncList, leftOut, doubled, muddled>>
        /\ product' \in {"none", "live", "removed"} /\ draftFaults' \in 0..DraftFaults
    BY <1>1, DraftsSame, DraftsAssumption DEF CreateProduct, RemoveProduct, draftHistory,
       settled, Once
  <2> QED BY <2>1, DraftsTyped, OthersStay DEF DraftsInv
<1>2. ASSUME NEW l \in Leads, OptOut(l) PROVE DraftsInv'
  <2>1. /\ UNCHANGED <<creating, enrolled, product, doubled, muddled>> /\ onDncList' = onDncList \cup {l}
        /\ leftOut' = [d \in Drafts |-> leftOut[d] \ {l}] /\ draftFaults' \in 0..DraftFaults
    BY <1>2, DraftsSame, DraftsAssumption DEF OptOut, Touch, Once
  <2>2. \A d \in Drafts : \A x \in leftOut'[d] : Withheld(enrolled[d][x], x, onDncList')
    BY <2>1 DEF DraftsInv, Withheld
  <2>3. leftOut' \in [Drafts -> SUBSET Leads] /\ onDncList' \subseteq Leads
    BY <2>1, DraftsTyped
  <2> QED BY <2>1, <2>2, <2>3, DraftsSame, OthersStay
<1>3. ASSUME NEW d \in Drafts, DryRun(d) PROVE DraftsInv'
  <2> DEFINE out == {l \in Leads : enrolled[d][l].status # "SENT" /\ ~WouldSend(d, l)}
  <2>1. /\ UNCHANGED <<creating, enrolled, product, onDncList, doubled, muddled>>
        /\ leftOut' = [leftOut EXCEPT ![d] = out] /\ draftFaults' \in 0..DraftFaults
    BY <1>3, DraftsSame, DraftsAssumption DEF DryRun, Once
  <2>2. \A l \in out : Withheld(enrolled[d][l], l, onDncList)
    <3> SUFFICES ASSUME NEW l \in out PROVE Withheld(enrolled[d][l], l, onDncList)
      OBVIOUS
    <3>1. CheckEligibility(l) = "DNC" => l \in onDncList
      BY DEF CheckEligibility
    <3>2. enrolled[d][l].status # "SENT" /\ ~WouldSend(d, l)
      OBVIOUS
    <3> QED BY <3>1, <3>2 DEF Withheld, WouldSend
  <2>3. out \subseteq Leads
    OBVIOUS
  <2> HIDE DEF out
  <2>4. \A e \in Drafts : \A l \in leftOut'[e] : Withheld(enrolled[e][l], l, onDncList')
    BY <2>1, <2>2, DraftsSame DEF DraftsInv
  <2>5. leftOut' \in [Drafts -> SUBSET Leads] /\ onDncList' \subseteq Leads
    BY <2>1, <2>3, DraftsTyped
  <2> QED BY <2>1, <2>4, <2>5, DraftsSame, OthersStay
<1> QED BY <1>1, <1>2, <1>3

-----------------------------------------------------------------------------
\* Rows that move on while the creation stays where it is.
LEMMA RowsMove ==
  ASSUME DraftsInv, NEW d \in Drafts, NEW c \in DraftRecords, NEW rows \in DraftRows,
         campaign' = [campaign EXCEPT ![d] = c], creation' = creation,
         enrolled' = [enrolled EXCEPT ![d] = rows],
         c.total = campaign[d].total, c.skipped = campaign[d].skipped, LaterRows(enrolled[d], rows),
         product' = product, draftFaults' \in 0..DraftFaults, onDncList' = onDncList, doubled' = doubled,
         muddled \subseteq muddled', muddled' \subseteq Drafts,
         leftOut' \in [Drafts -> SUBSET Leads], \A e \in Drafts : leftOut'[e] \subseteq leftOut[e],
         StagesAgree(d, c, creation[d], rows, muddled'),
         \A l \in leftOut'[d] : Withheld(rows[l], l, onDncList),
         \A l \in Leads : MayReach(c, creation[d], rows, l) =>
           MayReach(campaign[d], creation[d], enrolled[d], l)
  PROVE  DraftsInv'
<1>1. /\ creation' \in [Drafts -> CreationRecords] /\ creation'[d] = creation[d]
      /\ \A e \in Drafts : e # d => creation'[e] = creation[e]
  BY DraftsTyped
<1>2. CountsAgree(d, c, creation[d], rows, muddled')
  BY DraftFacts, CountsStay
<1>3. /\ creation[d] \in CreationRecords /\ product' \in {"none", "live", "removed"}
      /\ doubled \subseteq doubled' /\ doubled' \subseteq Drafts
  BY DraftFacts, DraftsSame
<1>4. creation[d].at \in Creating /\ creation[d].override => d \in doubled'
  BY DraftFacts
<1>5. \A e \in Drafts : e # d /\ creation[d].at \in Creating /\ creation[e].at \in Creating
                        => d \in doubled' /\ e \in doubled'
  BY DraftFacts
<1>6. DraftMoved(d, c, creation[d], rows)
  BY <1>1, <1>2, <1>3, <1>4, <1>5 DEF DraftMoved
<1> QED BY <1>6, DraftMoves

\* The preparation begins.
LEMMA PrepareMoves == ASSUME DraftsInv, NEW d \in Drafts, PrepareDraft(d) PROVE DraftsInv'
<1> DEFINE c == [campaign[d] EXCEPT !.status = "PREPARING"]
<1>1. /\ c \in DraftRecords /\ c.total = campaign[d].total /\ c.skipped = campaign[d].skipped /\ c.status = "PREPARING"
      /\ campaign[d].status = "DRAFT" /\ campaign' = [campaign EXCEPT ![d] = c]
  BY DraftFacts DEF PrepareDraft, DraftRecords, DraftStatus
<1> HIDE DEF c
<1>2. /\ UNCHANGED <<product, creation, enrolled, onDncList, leftOut, doubled, draftFaults>>
      /\ muddled \subseteq muddled' /\ muddled' \subseteq Drafts
      /\ creation[d].at \in {"done", "failed"} \/ d \in muddled'
  BY DraftsSame DEF PrepareDraft
<1>3. enrolled' = [enrolled EXCEPT ![d] = enrolled[d]] /\ LaterRows(enrolled[d], enrolled[d])
  BY <1>2, DraftsTyped DEF LaterRows
<1>4. StagesAgree(d, c, creation[d], enrolled[d], muddled')
  BY <1>1, <1>2, DraftFacts DEF StagesAgree, Creating
<1>5. \A l \in Leads : MayReach(c, creation[d], enrolled[d], l) => MayReach(campaign[d], creation[d], enrolled[d], l)
  BY <1>1 DEF MayReach, Open
<1> QED BY <1>1, <1>2, <1>3, <1>4, <1>5, DraftFacts, DraftsSame, RowsMove

\* The texts are written, or given up.
LEMMA BatchMoves ==
  ASSUME DraftsInv, NEW d \in Drafts, NEW written \in SUBSET Unwritten(d), PrepareBatch(d, written)
  PROVE  DraftsInv'
<1> DEFINE c == [campaign[d] EXCEPT !.status = "READY"]
           old == enrolled[d]
           rows == [l \in Leads |-> IF l \in Unwritten(d)
                                    THEN [old[l] EXCEPT !.text = IF l \in written THEN "READY" ELSE "FAILED"]
                                    ELSE old[l]]
<1>1. /\ c \in DraftRecords /\ c.total = campaign[d].total /\ c.skipped = campaign[d].skipped /\ c.status = "READY"
      /\ campaign[d].status = "PREPARING" /\ campaign' = [campaign EXCEPT ![d] = c]
  BY DraftFacts DEF PrepareBatch, DraftRecords, DraftStatus
<1> HIDE DEF c
<1>2. /\ UNCHANGED <<product, creation, onDncList, doubled, muddled>>
      /\ enrolled' = [enrolled EXCEPT ![d] = rows]
      /\ leftOut' = [e \in Drafts |-> leftOut[e] \ Unwritten(d)]
  BY DEF PrepareBatch, Touch
<1>3. draftFaults' \in 0..DraftFaults
  BY DraftsSame, DraftFaultCounts DEF PrepareBatch
<1>4. old \in DraftRows /\ Unwritten(d) \subseteq Leads
  BY DraftFacts DEF Unwritten
<1>5. rows \in DraftRows
  BY <1>4 DEF DraftRows, RowRecords
<1>6. \A l \in Leads : /\ rows[l].status = old[l].status
                       /\ l \notin Unwritten(d) => rows[l] = old[l]
                       /\ l \in Unwritten(d) => rows[l].text \in {"READY", "FAILED"} /\ old[l].text = "PENDING"
                                                /\ old[l].status \in {"PENDING", "QUEUED"}
  BY <1>4 DEF DraftRows, RowRecords, Unwritten
<1>7. \A l \in Leads : l \notin Unwritten(d) => ~(old[l].text = "PENDING" /\ old[l].status \in {"PENDING", "QUEUED"})
  BY DEF Unwritten
<1> HIDE DEF rows, old
<1>8. StagesAgree(d, campaign[d], creation[d], old, muddled)
  BY DraftFacts DEF old
<1>9. StagesAgree(d, c, creation[d], rows, muddled')
  <2>1. creation[d].at \notin Creating \/ d \in muddled
    BY <1>1, <1>8 DEF StagesAgree
  <2>2. \A l \in Leads : rows[l].status \in {"PENDING", "QUEUED"} => rows[l].text # "PENDING"
    BY <1>6, <1>7
  <2>3. \A l \in Leads : /\ (rows[l].status = "QUEUED" => rows[l].text = "READY")
                         /\ (rows[l].status = "NONE" => rows[l] = NoRow)
    <3>1. \A l \in Leads : old[l].status = "QUEUED" => old[l].text = "READY"
      BY <1>8 DEF StagesAgree
    <3>2. \A l \in Leads : l \in Unwritten(d) => rows[l].status = "PENDING"
      BY <1>6, <3>1
    <3> QED BY <1>6, <1>8, <3>1, <3>2 DEF StagesAgree
  <2> QED BY <1>1, <1>2, <1>8, <2>1, <2>2, <2>3 DEF StagesAgree
<1>10. LaterRows(old, rows)
  BY <1>6, NothingCreated DEF LaterRows
<1>11. \A l \in leftOut'[d] : Withheld(rows[l], l, onDncList)
  <2>1. \A l \in leftOut'[d] : l \in Leads /\ l \in leftOut[d] /\ l \notin Unwritten(d)
    BY <1>2, DraftFacts
  <2> QED BY <1>6, <2>1, DraftFacts DEF old
<1>12. \A l \in Leads : MayReach(c, creation[d], rows, l) => MayReach(campaign[d], creation[d], old, l)
  BY <1>1, <1>6 DEF MayReach, Open
<1>13. leftOut' \in [Drafts -> SUBSET Leads] /\ \A e \in Drafts : leftOut'[e] \subseteq leftOut[e]
  BY <1>2, DraftsSame
<1> QED BY <1>1, <1>2, <1>3, <1>5, <1>9, <1>10, <1>11, <1>12, <1>13, DraftsSame, RowsMove DEF old

\* The rows that have a text are queued.
LEMMA StartMoves == ASSUME DraftsInv, NEW d \in Drafts, StartDraft(d) PROVE DraftsInv'
<1> DEFINE c == [campaign[d] EXCEPT !.status = "RUNNING"]
           old == enrolled[d]
           rows == [l \in Leads |-> IF old[l].status = "PENDING" /\ old[l].text = "READY"
                                    THEN [old[l] EXCEPT !.status = "QUEUED"] ELSE old[l]]
<1>1. /\ c \in DraftRecords /\ c.total = campaign[d].total /\ c.skipped = campaign[d].skipped /\ c.status = "RUNNING"
      /\ campaign[d].status = "READY" /\ campaign' = [campaign EXCEPT ![d] = c]
  BY DraftFacts DEF StartDraft, DraftRecords, DraftStatus
<1> HIDE DEF c
<1>2. /\ UNCHANGED <<product, creation, onDncList, leftOut, doubled, muddled, draftFaults>>
      /\ enrolled' = [enrolled EXCEPT ![d] = rows]
  BY DEF StartDraft, draftHistory
<1>4. old \in DraftRows
  BY DraftFacts
<1>5. rows \in DraftRows
  BY <1>4 DEF DraftRows, RowRecords, RowStatus
<1>6. \A l \in Leads : /\ rows[l].text = old[l].text
                       /\ rows[l] = old[l] \/ (rows[l].status = "QUEUED" /\ old[l].status = "PENDING" /\ old[l].text = "READY")
  BY <1>4 DEF DraftRows, RowRecords
<1> HIDE DEF rows, old
<1>8. StagesAgree(d, campaign[d], creation[d], old, muddled) /\ CountsAgree(d, campaign[d], creation[d], old, muddled)
  BY DraftFacts DEF old
<1>9. StagesAgree(d, c, creation[d], rows, muddled')
  <2>1. \A l \in Leads : rows[l].status \in {"PENDING", "QUEUED"} => old[l].status \in {"PENDING", "QUEUED"}
    BY <1>6
  <2>2. \A l \in Leads : /\ (rows[l].status = "QUEUED" => rows[l].text = "READY")
                         /\ (rows[l].status = "NONE" => rows[l] = NoRow)
    BY <1>6, <1>8 DEF StagesAgree
  <2>3. creation[d].at # "idle"
    BY <1>1, <1>8 DEF StagesAgree
  <2> QED BY <1>1, <1>2, <1>6, <1>8, <2>1, <2>2, <2>3 DEF StagesAgree
<1>10. LaterRows(old, rows)
  BY <1>6, NothingCreated DEF LaterRows
<1>11. \A l \in leftOut'[d] : Withheld(rows[l], l, onDncList)
  <2>1. \A l \in leftOut'[d] : l \in Leads /\ Withheld(old[l], l, onDncList)
    BY <1>2, DraftFacts DEF old
  <2> QED BY <1>6, <2>1 DEF Withheld
<1>12. \A l \in Leads : MayReach(c, creation[d], rows, l) => MayReach(campaign[d], creation[d], old, l)
  BY <1>1, <1>6 DEF MayReach, Open
<1>13. campaign' = [campaign EXCEPT ![d] = c] /\ leftOut' \in [Drafts -> SUBSET Leads]
       /\ muddled' \subseteq Drafts /\ draftFaults' \in 0..DraftFaults
  BY <1>1, <1>2, DraftsSame
<1> QED BY <1>1, <1>2, <1>5, <1>9, <1>10, <1>11, <1>12, <1>13, RowsMove DEF old

\* The rows that wait are cancelled.
LEMMA CancelMoves == ASSUME DraftsInv, NEW d \in Drafts, CancelDraft(d) PROVE DraftsInv'
<1> DEFINE c == [campaign[d] EXCEPT !.status = "CANCELLED"]
           old == enrolled[d]
           rows == [l \in Leads |-> IF old[l].status \in {"PENDING", "QUEUED"}
                                    THEN [old[l] EXCEPT !.status = "CANCELLED"] ELSE old[l]]
<1>1. /\ c \in DraftRecords /\ c.total = campaign[d].total /\ c.skipped = campaign[d].skipped /\ c.status = "CANCELLED"
      /\ campaign[d].status # "NONE" /\ campaign' = [campaign EXCEPT ![d] = c]
  BY DraftFacts DEF CancelDraft, DraftRecords, DraftStatus, Open
<1> HIDE DEF c
<1>2. /\ UNCHANGED <<product, creation, onDncList, leftOut, doubled, muddled>>
      /\ enrolled' = [enrolled EXCEPT ![d] = rows]
  BY DEF CancelDraft, settled
<1>3. draftFaults' \in 0..DraftFaults
  BY DraftsSame, DraftsAssumption DEF CancelDraft, Once
<1>4. old \in DraftRows
  BY DraftFacts
<1>5. rows \in DraftRows
  BY <1>4 DEF DraftRows, RowRecords, RowStatus
<1>6. \A l \in Leads : rows[l] = old[l] \/ (rows[l].status = "CANCELLED" /\ old[l].status \in {"PENDING", "QUEUED"})
  BY <1>4 DEF DraftRows, RowRecords
<1> HIDE DEF rows, old
<1>8. StagesAgree(d, campaign[d], creation[d], old, muddled)
  BY DraftFacts DEF old
<1>9. StagesAgree(d, c, creation[d], rows, muddled')
  <2>2. \A l \in Leads : /\ (rows[l].status = "QUEUED" => rows[l].text = "READY")
                         /\ (rows[l].status = "NONE" => rows[l] = NoRow)
    BY <1>6, <1>8 DEF StagesAgree
  <2>3. creation[d].at # "idle"
    BY <1>1, <1>8 DEF StagesAgree
  <2> QED BY <1>1, <1>2, <1>8, <2>2, <2>3 DEF StagesAgree
<1>10. LaterRows(old, rows)
  BY <1>6, NothingCreated DEF LaterRows
<1>11. \A l \in leftOut'[d] : Withheld(rows[l], l, onDncList)
  <2>1. \A l \in leftOut'[d] : l \in Leads /\ Withheld(old[l], l, onDncList)
    BY <1>2, DraftFacts DEF old
  <2> QED BY <1>6, <2>1 DEF Withheld
<1>12. \A l \in Leads : MayReach(c, creation[d], rows, l) => MayReach(campaign[d], creation[d], old, l)
  BY <1>1, <1>6 DEF MayReach, Open
<1>13. leftOut' \in [Drafts -> SUBSET Leads] /\ muddled' \subseteq Drafts
  BY <1>2, DraftsSame
<1> QED BY <1>1, <1>2, <1>3, <1>5, <1>9, <1>10, <1>11, <1>12, <1>13, RowsMove DEF old

\* A row is sent, fails or is skipped.
LEMMA SendMoves ==
  ASSUME DraftsInv, NEW d \in Drafts, NEW l \in Leads, NEW outcome \in {"SENT", "FAILED"}, SendRow(d, l, outcome)
  PROVE  DraftsInv'
<1> DEFINE old == enrolled[d]
<1>1. PICK end \in {"SENT", "FAILED", "SKIPPED"} :
        /\ (l \in onDncList => end = "SKIPPED")
        /\ enrolled' = [enrolled EXCEPT ![d] = [old EXCEPT ![l] = [old[l] EXCEPT !.status = end]]]
  <2>1. enrolled' = [enrolled EXCEPT ![d][l].status = IF l \in onDncList THEN "SKIPPED" ELSE outcome]
    BY DEF SendRow
  <2>2. CASE l \in onDncList
    BY <2>1, <2>2
  <2>3. CASE l \notin onDncList
    BY <2>1, <2>3
  <2> QED BY <2>2, <2>3
<1> DEFINE rows == [old EXCEPT ![l] = [old[l] EXCEPT !.status = end]]
<1>2. /\ UNCHANGED <<product, campaign, creation, onDncList, leftOut, doubled, muddled>>
      /\ campaign[d].status = "RUNNING" /\ old[l].status = "QUEUED"
  BY DEF SendRow, creating, settled
<1>3. draftFaults' \in 0..DraftFaults
  <2>1. (outcome = "FAILED") \in BOOLEAN
    OBVIOUS
  <2> QED BY <2>1, DraftsSame, DraftFaultCounts DEF SendRow
<1>4. old \in DraftRows /\ campaign' = [campaign EXCEPT ![d] = campaign[d]]
  BY <1>2, DraftFacts, DraftsTyped
<1>5. rows \in DraftRows
  BY <1>4 DEF DraftRows, RowRecords, RowStatus
<1>6. rows[l].status = end /\ rows[l].text = old[l].text /\ \A m \in Leads : m # l => rows[m] = old[m]
  BY <1>4 DEF DraftRows, RowRecords
<1>7. enrolled' = [enrolled EXCEPT ![d] = rows]
  BY <1>1
<1> HIDE DEF rows, old
<1>8. StagesAgree(d, campaign[d], creation[d], old, muddled)
  BY DraftFacts DEF old
<1>9. StagesAgree(d, campaign[d], creation[d], rows, muddled')
  <2>2. \A m \in Leads : /\ (rows[m].status = "QUEUED" => rows[m].text = "READY")
                         /\ (rows[m].status = "NONE" => rows[m] = NoRow)
                         /\ rows[m].status \in {"PENDING", "QUEUED"} => rows[m] = old[m]
    BY <1>6, <1>8 DEF StagesAgree
  <2>3. creation[d].at # "idle"
    BY <1>2, <1>8 DEF StagesAgree
  <2> QED BY <1>2, <1>8, <2>2, <2>3 DEF StagesAgree
<1>10. LaterRows(old, rows)
  <2>1. \A m \in Leads : m # l => rows[m] = old[m]
    BY <1>6
  <2>2. old[l] # NoRow /\ rows[l] # NoRow
    BY <1>2, <1>6, NothingCreated
  <2> QED BY <1>2, <2>1, <2>2 DEF LaterRows
<1>11. \A m \in leftOut'[d] : Withheld(rows[m], m, onDncList)
  <2>1. \A m \in leftOut'[d] : m \in Leads /\ Withheld(old[m], m, onDncList)
    BY <1>2, DraftFacts DEF old
  <2>2. old[l].text = "READY"
    BY <1>2, <1>8 DEF StagesAgree
  <2>3. l \in leftOut'[d] => l \in onDncList
    BY <1>2, <2>1, <2>2 DEF Withheld
  <2> QED BY <1>1, <1>6, <2>1, <2>3 DEF Withheld
<1>12. \A m \in Leads : MayReach(campaign[d], creation[d], rows, m) => MayReach(campaign[d], creation[d], old, m)
  BY <1>2, <1>6 DEF MayReach, Open
<1>13. leftOut' \in [Drafts -> SUBSET Leads] /\ muddled' \subseteq Drafts /\ campaign[d] \in DraftRecords
  BY <1>2, DraftsSame, DraftFacts
<1> QED BY <1>2, <1>3, <1>4, <1>5, <1>7, <1>9, <1>10, <1>11, <1>12, <1>13, RowsMove DEF old

-----------------------------------------------------------------------------
\* A creation that moves on while the campaign and its rows stay.
LEMMA CreationMoves ==
  ASSUME DraftsInv, NEW d \in Drafts, NEW k \in CreationRecords,
         creation' = [creation EXCEPT ![d] = k], UNCHANGED <<product, campaign, enrolled, onDncList, leftOut, doubled>>,
         draftFaults' \in 0..DraftFaults, muddled \subseteq muddled', muddled' \subseteq Drafts,
         creation[d].at \in Creating, k.override => creation[d].override,
         CountsAgree(d, campaign[d], k, enrolled[d], muddled'), StagesAgree(d, campaign[d], k, enrolled[d], muddled'),
         \A l \in Leads : k.at = "enrol" /\ Head(k.left) = l /\ k.finding = "PENDING" =>
           d \in doubled \/ \A e \in Drafts : e # d => ~MayReach(campaign[e], creation[e], enrolled[e], l)
  PROVE  DraftsInv'
<1>1. /\ campaign' = [campaign EXCEPT ![d] = campaign[d]] /\ enrolled' = [enrolled EXCEPT ![d] = enrolled[d]]
      /\ leftOut' \in [Drafts -> SUBSET Leads] /\ \A e \in Drafts : leftOut'[e] \subseteq leftOut[e]
      /\ product' \in {"none", "live", "removed"} /\ doubled \subseteq doubled' /\ doubled' \subseteq Drafts
  BY DraftsTyped, DraftsSame
<1>2. campaign[d] \in DraftRecords /\ enrolled[d] \in DraftRows
  BY DraftFacts
<1>3. \A l \in leftOut'[d] : Withheld(enrolled[d][l], l, onDncList)
  BY DraftFacts
<1>4. k.at \in Creating /\ k.override => d \in doubled'
  BY DraftFacts
<1>5. \A e \in Drafts : e # d /\ k.at \in Creating /\ creation[e].at \in Creating => d \in doubled' /\ e \in doubled'
  BY DraftFacts
<1>7. /\ creation' \in [Drafts -> CreationRecords] /\ creation'[d] = k
      /\ \A e \in Drafts : e # d => creation'[e] = creation[e]
  BY DraftsTyped
<1>6. \A l \in Leads : MayReach(campaign[d], k, enrolled[d], l) =>
           \/ MayReach(campaign[d], creation[d], enrolled[d], l) \/ d \in doubled'
           \/ \A e \in Drafts : e # d => ~MayReach(campaign[e], creation[e], enrolled[e], l)
  BY DEF MayReach
<1>8. DraftMoved(d, campaign[d], k, enrolled[d])
  BY <1>1, <1>2, <1>3, <1>4, <1>5, <1>6, <1>7 DEF DraftMoved
<1> QED BY <1>8, DraftMoves

\* A lead is checked and counted before its row is there.
LEMMA LeadChecked == ASSUME DraftsInv, NEW d \in Drafts, CheckLead(d) PROVE DraftsInv'
<1> DEFINE l == Head(creation[d].left)
           found == CheckEligibility(l)
<1>1. creation[d].at = "check" /\ creation[d].left # <<>> /\ creation[d] \in CreationRecords
      /\ UNCHANGED <<product, campaign, enrolled, onDncList, leftOut, doubled, muddled, draftFaults>>
  BY DraftFacts DEF CheckLead, draftHistory
<1>2. l \in Leads
  BY <1>1 DEF CreationRecords
<1>3. PICK status \in {"PENDING", "SKIPPED"}, one \in {0, 1} :
        /\ one = (IF status = "PENDING" THEN 1 ELSE 0)
        /\ status = "PENDING" => MayEnrol(d, found) /\ creation[d].enrolled < EnrolCap
        /\ creation' = [creation EXCEPT ![d] = [creation[d] EXCEPT !.at = "enrol", !.finding = status,
                               !.enrolled = creation[d].enrolled + one, !.skipped = creation[d].skipped + 1 - one]]
  <2> DEFINE st == EnrolStatus(d, found)
  <2>1. st \in {"PENDING", "SKIPPED"} /\ (st = "PENDING" => MayEnrol(d, found) /\ creation[d].enrolled < EnrolCap)
    BY DEF EnrolStatus
  <2>2. \E one \in {0, 1} : one = (IF st = "PENDING" THEN 1 ELSE 0)
    OBVIOUS
  <2>3. creation' = [creation EXCEPT ![d] = [creation[d] EXCEPT !.at = "enrol", !.finding = st,
                !.enrolled = creation[d].enrolled + (IF st = "PENDING" THEN 1 ELSE 0),
                !.skipped = creation[d].skipped + 1 - (IF st = "PENDING" THEN 1 ELSE 0)]]
    <3>1. creation' = [creation EXCEPT ![d] = [creation[d] EXCEPT !.at = "enrol", !.finding = st,
                !.enrolled = @ + (IF st = "PENDING" THEN 1 ELSE 0),
                !.skipped = @ + 1 - (IF st = "PENDING" THEN 1 ELSE 0)]]
      BY DraftsTyped DEF CheckLead
    <3>2. creation[d] \in CreationRecords
      BY DraftFacts
    <3> HIDE DEF st
    <3> QED BY <3>1, <3>2 DEF CreationRecords
  <2> HIDE DEF st
  <2> QED BY <2>1, <2>2, <2>3
<1> DEFINE k == [creation[d] EXCEPT !.at = "enrol", !.finding = status, !.enrolled = creation[d].enrolled + one,
                                    !.skipped = creation[d].skipped + 1 - one]
<1>4. creation' = [creation EXCEPT ![d] = k]
  BY <1>3
<1>5. creation[d].enrolled \in Nat /\ creation[d].skipped \in Nat
      /\ creation[d].enrolled + one \in Nat /\ creation[d].skipped + 1 - one \in Nat
  BY <1>1 DEF CreationRecords
<1>6. /\ k \in CreationRecords /\ k.at = "enrol" /\ k.finding = status /\ k.left = creation[d].left
      /\ k.override = creation[d].override
      /\ k.enrolled = creation[d].enrolled + one /\ k.skipped = creation[d].skipped + 1 - one
  BY <1>1, <1>5 DEF CreationRecords, CreationSteps, RowStatus
<1> HIDE DEF k, found, l
<1>7. StagesAgree(d, campaign[d], creation[d], enrolled[d], muddled) /\ CountsAgree(d, campaign[d], creation[d], enrolled[d], muddled)
  BY DraftFacts
<1>8. StagesAgree(d, campaign[d], k, enrolled[d], muddled')
  BY <1>1, <1>3, <1>6, <1>7 DEF StagesAgree, Creating
<1>9. CountsAgree(d, campaign[d], k, enrolled[d], muddled')
  <2>1. /\ Cardinality(TakenIn(enrolled[d])) \in Nat /\ Cardinality(WrittenIn(enrolled[d])) \in Nat
        /\ Cardinality(TakenIn(enrolled[d])) <= creation[d].enrolled /\ creation[d].enrolled <= EnrolCap /\ EnrolCap \in Nat
    BY <1>1, <1>7, RowsAreFinite, DraftsAssumption DEF CountsAgree, Creating
  <2>2. k.enrolled <= EnrolCap
    BY <1>3, <1>5, <1>6, <2>1
  <2>3. Cardinality(TakenIn(enrolled[d])) + (IF k.finding = "PENDING" THEN 1 ELSE 0) <= k.enrolled
    BY <1>3, <1>5, <1>6, <2>1
  <2>4. d \notin muddled' => k.enrolled + k.skipped = Cardinality(WrittenIn(enrolled[d])) + 1
    <3> SUFFICES ASSUME d \notin muddled' PROVE k.enrolled + k.skipped = Cardinality(WrittenIn(enrolled[d])) + 1
      OBVIOUS
    <3>1. creation[d].enrolled + creation[d].skipped = Cardinality(WrittenIn(enrolled[d]))
      BY <1>1, <1>7 DEF CountsAgree
    <3> QED BY <1>5, <1>6, <2>1, <3>1
  <2> QED BY <1>1, <1>6, <1>7, <2>2, <2>3, <2>4 DEF CountsAgree, Creating
<1>10. status = "PENDING" => d \in doubled \/ \A e \in Drafts : e # d => ~MayReach(campaign[e], creation[e], enrolled[e], l)
  <2> SUFFICES ASSUME status = "PENDING", d \notin doubled, NEW e \in Drafts, e # d,
                      MayReach(campaign[e], creation[e], enrolled[e], l)
               PROVE  FALSE
    OBVIOUS
  <2>1. ~creation[d].override /\ creation[e].at \notin Creating
    BY <1>1, DraftFacts DEF Creating
  <2>2. found = "NONE"
    BY <1>3, <2>1 DEF MayEnrol
  <2>3. ~SentBefore(l) /\ ~\E f \in Enrolments(l) : campaign[f].status \in Open
    BY <2>2 DEF found, CheckEligibility
  <2> QED BY <1>2, <2>1, <2>3 DEF MayReach, SentBefore, Enrolments, Creating
<1>11. Head(k.left) = l
  BY <1>6 DEF l
<1>12. draftFaults' \in 0..DraftFaults /\ muddled' \subseteq Drafts
  BY <1>1, DraftsSame
<1>13. \A m \in Leads : k.at = "enrol" /\ Head(k.left) = m /\ k.finding = "PENDING" =>
           d \in doubled \/ \A e \in Drafts : e # d => ~MayReach(campaign[e], creation[e], enrolled[e], m)
  BY <1>6, <1>10, <1>11
<1>14. /\ UNCHANGED <<product, campaign, enrolled, onDncList, leftOut, doubled>>
       /\ creation[d].at \in Creating /\ (k.override => creation[d].override)
       /\ muddled \subseteq muddled'
  BY <1>1, <1>6 DEF Creating
<1> QED BY <1>4, <1>6, <1>8, <1>9, <1>12, <1>13, <1>14, CreationMoves

\* The list with its first lead taken off.
LEMMA OneLess ==
  ASSUME NEW s \in Seq(Leads), s # <<>>
  PROVE  /\ Head(s) \in Leads /\ Tail(s) \in Seq(Leads) /\ Head(s) = s[1] /\ 1 \in 1..Len(s)
         /\ Len(Tail(s)) = Len(s) - 1
         /\ \A i \in 1..Len(Tail(s)) : Tail(s)[i] = s[i + 1] /\ i + 1 \in 1..Len(s)
         /\ IsInjective(s) => IsInjective(Tail(s)) /\ \A i \in 1..Len(Tail(s)) : Tail(s)[i] # Head(s)
<1>1. /\ Head(s) \in Leads /\ Tail(s) \in Seq(Leads) /\ Head(s) = s[1] /\ 1 \in 1..Len(s)
      /\ Len(Tail(s)) = Len(s) - 1
      /\ \A i \in 1..Len(Tail(s)) : Tail(s)[i] = s[i + 1] /\ i + 1 \in 1..Len(s)
  OBVIOUS
<1>2. DOMAIN s = 1..Len(s) /\ DOMAIN Tail(s) = 1..Len(Tail(s))
  BY <1>1
<1>3. \A i \in 1..Len(Tail(s)) : i + 1 # 1
  OBVIOUS
<1>4. \A i, j \in 1..Len(Tail(s)) : i + 1 = j + 1 => i = j
  OBVIOUS
<1> QED BY <1>1, <1>2, <1>3, <1>4 DEF IsInjective

\* Past one lead: nothing of the creation is changed but the list, and what was skipped.
LEMMA NextLeadIs ==
  ASSUME DraftsInv, NEW d \in Drafts, NEW more \in {0, 1}, creation[d].at = "enrol", NextLead(d, more)
  PROVE  \E k \in CreationRecords :
           /\ creation' = [creation EXCEPT ![d] = k] /\ k.at = "check" /\ k.left = Tail(creation[d].left)
           /\ k.enrolled = creation[d].enrolled /\ k.skipped = creation[d].skipped + more
           /\ k.override = creation[d].override
<1> DEFINE k == [creation[d] EXCEPT !.at = "check", !.left = Tail(creation[d].left), !.skipped = creation[d].skipped + more]
<1>1. creation' = [creation EXCEPT ![d] = k]
  <2>1. creation' = [creation EXCEPT ![d] = [creation[d] EXCEPT !.at = "check", !.left = Tail(@), !.skipped = @ + more]]
    BY DraftsTyped DEF NextLead
  <2>2. [creation[d] EXCEPT !.at = "check", !.left = Tail(@), !.skipped = @ + more] = k
    BY DraftFacts DEF CreationRecords
  <2> QED BY <2>1, <2>2
<1>2. creation[d] \in CreationRecords /\ creation[d].left # <<>>
  BY DraftFacts DEF StagesAgree
<1>3. Tail(creation[d].left) \in Seq(Leads) /\ creation[d].skipped + more \in Nat
  <2>1. creation[d].left \in Seq(Leads) /\ creation[d].skipped \in Nat
    BY <1>2 DEF CreationRecords
  <2> QED BY <1>2, <2>1, OneLess
<1>4. /\ k \in CreationRecords /\ k.at = "check" /\ k.left = Tail(creation[d].left)
      /\ k.enrolled = creation[d].enrolled /\ k.skipped = creation[d].skipped + more
      /\ k.override = creation[d].override
  BY <1>2, <1>3 DEF CreationRecords, CreationSteps
<1> QED BY <1>1, <1>4

\* The row is not written: what was counted is ahead of the rows.
LEMMA RecipientPassed ==
  ASSUME DraftsInv, NEW d \in Drafts, creation[d].at = "enrol", NextLead(d, 1), d \in muddled',
         UNCHANGED <<product, campaign, enrolled, onDncList, leftOut, doubled>>,
         draftFaults' \in 0..DraftFaults, muddled \subseteq muddled', muddled' \subseteq Drafts
  PROVE  DraftsInv'
<1>1. PICK k \in CreationRecords :
           /\ creation' = [creation EXCEPT ![d] = k] /\ k.at = "check" /\ k.left = Tail(creation[d].left)
           /\ k.enrolled = creation[d].enrolled /\ k.skipped = creation[d].skipped + 1
           /\ k.override = creation[d].override
  BY NextLeadIs
<1>2. StagesAgree(d, campaign[d], creation[d], enrolled[d], muddled) /\ CountsAgree(d, campaign[d], creation[d], enrolled[d], muddled)
  BY DraftFacts
<1>3. StagesAgree(d, campaign[d], k, enrolled[d], muddled')
  BY <1>1, <1>2 DEF StagesAgree
<1>4. Cardinality(TakenIn(enrolled[d])) <= k.enrolled
  <2>1. Cardinality(TakenIn(enrolled[d])) + (IF creation[d].finding = "PENDING" THEN 1 ELSE 0) <= creation[d].enrolled
    BY <1>2 DEF CountsAgree
  <2>2. Cardinality(TakenIn(enrolled[d])) \in Nat /\ creation[d].enrolled \in Nat
    BY RowsAreFinite, DraftFacts DEF CreationRecords
  <2> QED BY <1>1, <2>1, <2>2
<1>5. CountsAgree(d, campaign[d], k, enrolled[d], muddled')
  BY <1>1, <1>2, <1>4 DEF CountsAgree, Creating
<1> QED BY <1>1, <1>3, <1>5, CreationMoves DEF Creating

\* The row is not written.
LEMMA RecipientFails ==
  ASSUME DraftsInv, NEW d \in Drafts, CreateRecipientFails(d) \/ RecipientStatementFails(d) PROVE DraftsInv'
<1>1. CASE CreateRecipientFails(d)
  <2>1. /\ creation[d].at = "enrol" /\ enrolled[d][Head(creation[d].left)] # NoRow /\ NextLead(d, 1)
        /\ UNCHANGED <<product, campaign, enrolled, onDncList, leftOut, doubled, muddled, draftFaults>>
    BY <1>1 DEF CreateRecipientFails, draftHistory
  <2>2. creation[d].left \in Seq(Leads) /\ creation[d].left # <<>>
    BY <2>1, DraftFacts DEF StagesAgree, CreationRecords
  <2>3. d \in muddled
    <3>1. Head(creation[d].left) = creation[d].left[1] /\ 1 \in 1..Len(creation[d].left)
      BY <2>2, OneLess
    <3>2. d \notin muddled => enrolled[d][creation[d].left[1]] = NoRow
      BY <2>1, <3>1, DraftFacts DEF CountsAgree, Creating
    <3> QED BY <2>1, <3>1, <3>2
  <2> QED BY <2>1, <2>3, DraftsSame, RecipientPassed
<1>2. CASE RecipientStatementFails(d)
  BY <1>2, DraftsSame, DraftsAssumption, RecipientPassed DEF RecipientStatementFails, Once
<1> QED BY <1>1, <1>2

\* The row is written.
LEMMA RecipientCreated == ASSUME DraftsInv, NEW d \in Drafts, CreateRecipient(d) PROVE DraftsInv'
<1> DEFINE old == enrolled[d]
           l == Head(creation[d].left)
           new == [old[l] EXCEPT !.status = creation[d].finding]
           rows == [old EXCEPT ![l] = new]
<1>1. /\ creation[d].at = "enrol" /\ old[l] = NoRow /\ NextLead(d, 0)
      /\ UNCHANGED <<product, campaign, onDncList, doubled, muddled, draftFaults>>
      /\ leftOut' = [e \in Drafts |-> leftOut[e] \ {l}]
      /\ enrolled' = [enrolled EXCEPT ![d][l].status = creation[d].finding]
  BY DEF CreateRecipient, Touch
<1>2. /\ old \in DraftRows /\ creation[d] \in CreationRecords
      /\ StagesAgree(d, campaign[d], creation[d], old, muddled) /\ CountsAgree(d, campaign[d], creation[d], old, muddled)
  BY DraftFacts
<1>3. creation[d].left \in Seq(Leads) /\ creation[d].left # <<>> /\ creation[d].finding \in {"PENDING", "SKIPPED"}
  BY <1>1, <1>2 DEF StagesAgree, CreationRecords
<1>4. l \in Leads
  BY <1>3, OneLess
<1>5. /\ new \in RowRecords /\ new.status = creation[d].finding /\ new.text = "PENDING" /\ new # NoRow
  BY <1>1, <1>3, NothingCreated DEF RowRecords, RowStatus
<1>6. enrolled' = [enrolled EXCEPT ![d] = rows]
  BY <1>1
<1> HIDE DEF new
<1>7. rows \in DraftRows /\ rows[l] = new /\ \A m \in Leads : m # l => rows[m] = old[m]
  BY <1>2, <1>4, <1>5 DEF DraftRows
<1>8. PICK j \in CreationRecords :
           /\ creation' = [creation EXCEPT ![d] = j] /\ j.at = "check" /\ j.left = Tail(creation[d].left)
           /\ j.enrolled = creation[d].enrolled /\ j.skipped = creation[d].skipped + 0
           /\ j.override = creation[d].override
  BY <1>1, NextLeadIs
<1>9. creation' \in [Drafts -> CreationRecords] /\ creation'[d] = j /\ \A e \in Drafts : e # d => creation'[e] = creation[e]
  BY <1>8, DraftsTyped
<1> HIDE DEF rows, old, l
<1>10. old[l].status = "NONE"
  BY <1>1, NothingCreated
<1>11. StagesAgree(d, campaign[d], j, rows, muddled')
  <2>1. d \notin muddled => campaign[d].status \notin {"READY", "RUNNING"}
    BY <1>1, <1>2 DEF StagesAgree, Creating
  <2>2. campaign[d].status # "NONE"
    BY <1>1, <1>2 DEF StagesAgree
  <2>3. \A m \in Leads : /\ (rows[m].status = "QUEUED" => rows[m].text = "READY")
                         /\ (rows[m].status = "NONE" => rows[m] = NoRow)
    BY <1>2, <1>3, <1>5, <1>7 DEF StagesAgree
  <2> QED BY <1>1, <1>2, <1>8, <2>1, <2>2, <2>3 DEF StagesAgree, Creating
<1>12. WrittenIn(rows) = WrittenIn(old) \cup {l} /\ l \notin WrittenIn(old)
  BY <1>1, <1>4, <1>5, <1>7 DEF WrittenIn
<1>13. Cardinality(WrittenIn(rows)) = Cardinality(WrittenIn(old)) + 1
  BY <1>12, RowsAreFinite, FS_AddElement
<1>14. Cardinality(TakenIn(rows)) <= creation[d].enrolled
  <2>1. Cardinality(TakenIn(old)) + (IF creation[d].finding = "PENDING" THEN 1 ELSE 0) <= creation[d].enrolled
    BY <1>1, <1>2 DEF CountsAgree
  <2>2. Cardinality(TakenIn(old)) \in Nat /\ creation[d].enrolled \in Nat /\ IsFiniteSet(TakenIn(old))
    BY <1>2, RowsAreFinite DEF CreationRecords
  <2>3. l \notin TakenIn(old)
    BY <1>10 DEF TakenIn
  <2>4. CASE creation[d].finding = "PENDING"
    <3>1. TakenIn(rows) = TakenIn(old) \cup {l}
      BY <1>4, <1>5, <1>7, <2>4 DEF TakenIn
    <3>2. Cardinality(TakenIn(rows)) = Cardinality(TakenIn(old)) + 1
      BY <2>2, <2>3, <3>1, FS_AddElement
    <3> QED BY <2>1, <2>2, <2>4, <3>2
  <2>5. CASE creation[d].finding = "SKIPPED"
    <3>1. TakenIn(rows) = TakenIn(old)
      BY <1>5, <1>7, <1>10, <2>5 DEF TakenIn
    <3> QED BY <2>1, <2>2, <2>5, <3>1
  <2> QED BY <1>3, <2>4, <2>5
<1>15. CountsAgree(d, campaign[d], j, rows, muddled')
  <2>1. creation[d].enrolled \in Nat /\ creation[d].skipped \in Nat /\ EnrolCap \in Nat
        /\ Cardinality(TakenIn(rows)) \in Nat /\ Cardinality(WrittenIn(old)) \in Nat /\ creation[d].enrolled <= EnrolCap
    BY <1>1, <1>2, RowsAreFinite, DraftsAssumption DEF CreationRecords, CountsAgree, Creating
  <2>2. Cardinality(TakenIn(rows)) <= EnrolCap /\ Cardinality(TakenIn(rows)) <= j.enrolled /\ j.enrolled <= EnrolCap
    BY <1>8, <1>14, <2>1
  <2>3. ASSUME d \notin muddled'
        PROVE  IsInjective(j.left) /\ \A i \in 1..Len(j.left) : rows[j.left[i]] = NoRow
    <3>1. IsInjective(creation[d].left) /\ \A i \in 1..Len(creation[d].left) : old[creation[d].left[i]] = NoRow
      BY <1>1, <1>2, <2>3 DEF CountsAgree, Creating
    <3>2. IsInjective(j.left) /\ \A i \in 1..Len(j.left) : j.left[i] # l /\ old[j.left[i]] = NoRow
      <4> DEFINE s == creation[d].left
      <4>1. s \in Seq(Leads) /\ s # <<>> /\ j.left = Tail(s) /\ l = Head(s)
        BY <1>3, <1>8 DEF l
      <4>2. IsInjective(s) /\ \A i \in 1..Len(s) : old[s[i]] = NoRow
        BY <3>1
      <4> HIDE DEF s
      <4>3. IsInjective(Tail(s)) /\ \A i \in 1..Len(Tail(s)) : Tail(s)[i] # Head(s)
        BY <4>1, <4>2, OneLess
      <4>4. \A i \in 1..Len(Tail(s)) : old[Tail(s)[i]] = NoRow
        BY <4>1, <4>2, OneLess
      <4> QED BY <4>1, <4>3, <4>4
    <3>3. \A i \in 1..Len(j.left) : j.left[i] \in Leads
      BY DEF CreationRecords
    <3> QED BY <1>7, <3>2, <3>3
  <2>4. ASSUME d \notin muddled' PROVE j.enrolled + j.skipped = Cardinality(WrittenIn(rows))
    <3>1. creation[d].enrolled + creation[d].skipped = Cardinality(WrittenIn(old)) + 1
      BY <1>1, <1>2, <2>4 DEF CountsAgree
    <3> QED BY <1>8, <1>13, <2>1, <3>1
  <2> QED BY <1>8, <2>2, <2>3, <2>4 DEF CountsAgree
<1>16. /\ leftOut' \in [Drafts -> SUBSET Leads] /\ \A e \in Drafts : leftOut'[e] \subseteq leftOut[e]
       /\ l \notin leftOut'[d]
  BY <1>1, DraftsSame
<1>17. \A m \in leftOut'[d] : Withheld(rows[m], m, onDncList)
  <2>1. \A m \in leftOut'[d] : m \in Leads /\ m # l /\ Withheld(old[m], m, onDncList)
    BY <1>16, DraftFacts DEF old
  <2> QED BY <1>7, <2>1
<1>18. \A m \in Leads : MayReach(campaign[d], j, rows, m) => MayReach(campaign[d], creation[d], old, m)
  BY <1>1, <1>3, <1>5, <1>7, <1>8 DEF MayReach, l
<1>19. campaign' = [campaign EXCEPT ![d] = campaign[d]] /\ campaign[d] \in DraftRecords
  BY <1>1, DraftsTyped
<1>20. /\ product' \in {"none", "live", "removed"} /\ draftFaults' \in 0..DraftFaults
       /\ muddled' \subseteq Drafts /\ doubled' \subseteq Drafts /\ muddled \subseteq muddled' /\ doubled \subseteq doubled'
  BY <1>1, DraftsSame
<1>21. /\ j.at \in Creating /\ j.override => d \in doubled'
       /\ \A e \in Drafts : e # d /\ j.at \in Creating /\ creation[e].at \in Creating => d \in doubled' /\ e \in doubled'
  BY <1>1, <1>8, DraftFacts DEF Creating
<1>22. DraftMoved(d, campaign[d], j, rows)
  BY <1>1, <1>6, <1>7, <1>9, <1>11, <1>15, <1>16, <1>17, <1>18, <1>19, <1>20, <1>21 DEF
     DraftMoved, old
<1> QED BY <1>22, DraftMoves

\* The creation ends with its counts in the campaign.
LEMMA DraftCounted == ASSUME DraftsInv, NEW d \in Drafts, CountDraft(d) PROVE DraftsInv'
<1> DEFINE c == [campaign[d] EXCEPT !.total = creation[d].enrolled, !.skipped = creation[d].skipped]
           j == [NoCreation EXCEPT !.at = "done"]
           rows == enrolled[d]
<1>1. creation[d].at = "check" /\ UNCHANGED <<product, enrolled, onDncList, leftOut, doubled, muddled, draftFaults>>
  BY DEF CountDraft, draftHistory
<1>2. /\ campaign[d] \in DraftRecords /\ creation[d] \in CreationRecords /\ rows \in DraftRows
      /\ StagesAgree(d, campaign[d], creation[d], rows, muddled) /\ CountsAgree(d, campaign[d], creation[d], rows, muddled)
  BY DraftFacts
<1>3. creation[d].enrolled \in Nat /\ creation[d].skipped \in Nat
  BY <1>2 DEF CreationRecords
<1>4. c \in DraftRecords /\ c.status = campaign[d].status /\ c.total = creation[d].enrolled /\ c.skipped = creation[d].skipped
  BY <1>2, <1>3 DEF DraftRecords
<1>5. j \in CreationRecords /\ j.at = "done"
  BY NothingCreated DEF CreationRecords, CreationSteps
<1>6. campaign' = [campaign EXCEPT ![d] = c] /\ creation' = [creation EXCEPT ![d] = j]
  BY DraftsTyped DEF CountDraft
<1>7. enrolled' = [enrolled EXCEPT ![d] = rows]
  BY <1>1, DraftsTyped
<1> HIDE DEF c, j, rows
<1>8. creation' \in [Drafts -> CreationRecords] /\ creation'[d] = j /\ \A e \in Drafts : e # d => creation'[e] = creation[e]
  BY <1>5, <1>6, DraftsTyped
<1>9. StagesAgree(d, c, j, rows, muddled')
  BY <1>1, <1>2, <1>4, <1>5 DEF StagesAgree, Creating
<1>10. CountsAgree(d, c, j, rows, muddled')
  BY <1>1, <1>2, <1>4, <1>5 DEF CountsAgree, Creating
<1>11. \A m \in leftOut'[d] : Withheld(rows[m], m, onDncList)
  BY <1>1, DraftFacts DEF rows
<1>12. \A m \in Leads : MayReach(c, j, rows, m) => MayReach(campaign[d], creation[d], enrolled[d], m)
  BY <1>4, <1>5 DEF MayReach, rows
<1>13. /\ product' \in {"none", "live", "removed"} /\ draftFaults' \in 0..DraftFaults
       /\ muddled' \subseteq Drafts /\ doubled' \subseteq Drafts /\ muddled \subseteq muddled' /\ doubled \subseteq doubled'
       /\ leftOut' \in [Drafts -> SUBSET Leads] /\ \A e \in Drafts : leftOut'[e] \subseteq leftOut[e]
  BY <1>1, DraftsSame
<1>14. DraftMoved(d, c, j, rows)
  BY <1>1, <1>2, <1>4, <1>5, <1>6, <1>7, <1>8, <1>9, <1>10, <1>11, <1>12, <1>13 DEF DraftMoved,
     Creating
<1> QED BY <1>14, DraftMoves

\* The creation dies.
LEMMA CreationEnds == ASSUME DraftsInv, NEW d \in Drafts, CreationDies(d) PROVE DraftsInv'
<1> DEFINE j == [NoCreation EXCEPT !.at = "failed"]
<1>1. /\ creation[d].at = "check" /\ creation' = [creation EXCEPT ![d] = j]
      /\ UNCHANGED <<product, campaign, enrolled, onDncList, leftOut, doubled>>
      /\ muddled \subseteq muddled' /\ muddled' \subseteq Drafts
  BY DraftsSame DEF CreationDies
<1>2. draftFaults' \in 0..DraftFaults
  BY DraftsSame, DraftsAssumption DEF CreationDies, Once
<1>3. j \in CreationRecords /\ j.at = "failed" /\ ~j.override
  BY NothingCreated DEF CreationRecords, CreationSteps, NoCreation
<1> HIDE DEF j
<1>4. StagesAgree(d, campaign[d], creation[d], enrolled[d], muddled) /\ CountsAgree(d, campaign[d], creation[d], enrolled[d], muddled)
  BY DraftFacts
<1>5. StagesAgree(d, campaign[d], j, enrolled[d], muddled')
  BY <1>1, <1>3, <1>4 DEF StagesAgree, Creating
<1>6. CountsAgree(d, campaign[d], j, enrolled[d], muddled')
  BY <1>1, <1>3, <1>4 DEF CountsAgree, Creating
<1> QED BY <1>1, <1>2, <1>3, <1>5, <1>6, CreationMoves DEF Creating

\* A campaign is created with its list.
LEMMA DraftBegins ==
  ASSUME DraftsInv, NEW d \in Drafts, NEW leads \in LeadLists[d], NEW override \in BOOLEAN,
         CreateDraft(d, leads, override)
  PROVE  DraftsInv'
<1> DEFINE c == [campaign[d] EXCEPT !.status = "DRAFT"]
           j == [creation[d] EXCEPT !.at = "check", !.left = leads, !.override = override]
           rows == enrolled[d]
           others == {e \in Drafts \ {d} : creation[e].at \in {"check", "enrol"}}
<1>1. /\ creation[d].at = "idle" /\ UNCHANGED <<product, enrolled, onDncList, leftOut>>
      /\ doubled' = doubled \cup others \cup (IF override \/ others # {} THEN {d} ELSE {})
      /\ muddled' = IF IsInjective(leads) THEN muddled ELSE muddled \cup {d}
  BY DEF CreateDraft
<1>2. /\ campaign[d] \in DraftRecords /\ creation[d] \in CreationRecords /\ rows \in DraftRows
      /\ StagesAgree(d, campaign[d], creation[d], rows, muddled) /\ CountsAgree(d, campaign[d], creation[d], rows, muddled)
  BY DraftFacts
<1>3. leads \in Seq(Leads)
  BY DraftsAssumption
<1>4. c \in DraftRecords /\ c.status = "DRAFT"
  BY <1>2 DEF DraftRecords, DraftStatus
<1>5. /\ j \in CreationRecords /\ j.at = "check" /\ j.left = leads /\ j.override = override
      /\ j.enrolled = creation[d].enrolled /\ j.skipped = creation[d].skipped
  BY <1>2, <1>3 DEF CreationRecords, CreationSteps
<1>6. campaign' = [campaign EXCEPT ![d] = c] /\ creation' = [creation EXCEPT ![d] = j]
  BY DraftsTyped DEF CreateDraft
<1>7. enrolled' = [enrolled EXCEPT ![d] = rows]
  BY <1>1, DraftsTyped
<1> HIDE DEF c, j, rows
<1>8. creation' \in [Drafts -> CreationRecords] /\ creation'[d] = j /\ \A e \in Drafts : e # d => creation'[e] = creation[e]
  BY <1>5, <1>6, DraftsTyped
<1>9. \A l \in Leads : rows[l] = NoRow
  BY <1>1, <1>2 DEF StagesAgree
<1>10. StagesAgree(d, c, j, rows, muddled')
  BY <1>4, <1>5, <1>9, NothingCreated DEF StagesAgree
<1>11. Cardinality(TakenIn(rows)) = 0 /\ Cardinality(WrittenIn(rows)) = 0 /\ EnrolCap \in Nat
  <2>1. TakenIn(rows) = {} /\ WrittenIn(rows) = {}
    BY <1>9, NothingCreated DEF TakenIn, WrittenIn
  <2> QED BY <2>1, FS_EmptySet, DraftsAssumption
<1>12. CountsAgree(d, c, j, rows, muddled')
  <2>1. j.enrolled = 0 /\ j.skipped = 0
    BY <1>1, <1>2, <1>5 DEF StagesAgree
  <2>2. d \notin muddled' => IsInjective(j.left)
    BY <1>1, <1>5
  <2>3. \A i \in 1..Len(j.left) : rows[j.left[i]] = NoRow
    <3>1. \A i \in 1..Len(j.left) : j.left[i] \in Leads
      BY <1>3, <1>5
    <3> QED BY <1>9, <3>1
  <2> QED BY <1>5, <1>11, <2>1, <2>2, <2>3 DEF CountsAgree, Creating
<1>13. \A m \in leftOut'[d] : Withheld(rows[m], m, onDncList)
  BY <1>1, DraftFacts DEF rows
<1>14. \A m \in Leads : ~MayReach(c, j, rows, m)
  BY <1>5, <1>9, NothingCreated DEF MayReach
<1>15. /\ product' \in {"none", "live", "removed"} /\ muddled' \subseteq Drafts /\ doubled' \subseteq Drafts
       /\ muddled \subseteq muddled' /\ doubled \subseteq doubled'
       /\ leftOut' \in [Drafts -> SUBSET Leads] /\ \A e \in Drafts : leftOut'[e] \subseteq leftOut[e]
  BY <1>1, DraftsSame
<1>16. draftFaults' \in 0..DraftFaults
  BY DraftsSame, DraftFaultCounts DEF CreateDraft
<1>17. j.override => d \in doubled'
  BY <1>1, <1>5
<1>18. \A e \in Drafts : e # d /\ creation[e].at \in Creating => d \in doubled' /\ e \in doubled'
  BY <1>1 DEF Creating
<1>19. DraftMoved(d, c, j, rows)
  BY <1>1, <1>2, <1>4, <1>5, <1>6, <1>7, <1>8, <1>10, <1>12, <1>13, <1>14, <1>15, <1>16, <1>17,
     <1>18 DEF DraftMoved
<1> QED BY <1>19, DraftMoves

\* Every step keeps the counts, and one campaign to a lead.
LEMMA DraftsStep == DraftsInv /\ [DraftsNext]_draftVars => DraftsInv'
<1> SUFFICES ASSUME DraftsInv, [DraftsNext]_draftVars PROVE DraftsInv'
  OBVIOUS
<1>1. CASE CreateProduct \/ RemoveProduct \/ \E l \in Leads : OptOut(l)
  BY <1>1, OutsideMoves
<1>2. ASSUME NEW d \in Drafts, NEW leads \in LeadLists[d], NEW override \in BOOLEAN, CreateDraft(d, leads, override)
      PROVE  DraftsInv'
  BY <1>2, DraftBegins
<1>3. ASSUME NEW d \in Drafts,
             \/ CheckLead(d) \/ CreateRecipient(d) \/ CreateRecipientFails(d)
             \/ RecipientStatementFails(d) \/ CountDraft(d) \/ CreationDies(d)
             \/ PrepareDraft(d) \/ StartDraft(d) \/ CancelDraft(d) \/ DryRun(d)
      PROVE  DraftsInv'
  BY <1>3, LeadChecked, RecipientCreated, RecipientFails, DraftCounted, CreationEnds, PrepareMoves,
     StartMoves, CancelMoves, OutsideMoves
<1>4. ASSUME NEW d \in Drafts, NEW written \in SUBSET Unwritten(d), PrepareBatch(d, written) PROVE DraftsInv'
  BY <1>4, BatchMoves
<1>5. ASSUME NEW d \in Drafts, NEW l \in Leads, NEW outcome \in {"SENT", "FAILED"}, SendRow(d, l, outcome)
      PROVE  DraftsInv'
  BY <1>5, SendMoves
<1>6. CASE UNCHANGED draftVars
  <2>1. /\ UNCHANGED <<creating, enrolled, doubled, muddled>>
        /\ UNCHANGED <<product, onDncList, leftOut, draftFaults>>
    BY <1>6 DEF draftVars, creating
  <2> QED BY <2>1, DraftsSame, DraftsTyped, OthersStay DEF DraftsInv
<1> QED BY <1>1, <1>2, <1>3, <1>4, <1>5, <1>6 DEF DraftsNext

\* Campaigns, creations and rows are what the code can store (campaigns.service.ts).
THEOREM DraftsTypeCorrect == DraftsSpec => []DraftsTypeOK
<1>1. DraftsInv => DraftsTypeOK
  BY DEF DraftsInv
<1> QED BY <1>1, DraftsStart, DraftsStep, PTL DEF DraftsSpec

\* The invariant gives the properties.
LEMMA DraftsInvHolds == DraftsInv => DraftsHold
<1> SUFFICES ASSUME DraftsInv PROVE DraftsHold
  OBVIOUS
<1>1. CountsAreRows
  <2> SUFFICES ASSUME NEW d \in Drafts
               PROVE  /\ Cardinality(Enrolled(d)) <= EnrolCap
                      /\ (creation[d].at = "done" /\ d \notin muddled =>
                           campaign[d].total + campaign[d].skipped = Cardinality(Recipients(d)))
                      /\ campaign[d].total >= Cardinality(Enrolled(d)) \/ creation[d].at # "done"
    BY DEF CountsAreRows
  <2>1. Enrolled(d) = TakenIn(enrolled[d]) /\ Recipients(d) = WrittenIn(enrolled[d])
    BY DEF Enrolled, Recipients, TakenIn, WrittenIn
  <2>2. CountsAgree(d, campaign[d], creation[d], enrolled[d], muddled)
    BY DEF DraftsInv
  <2>3. campaign[d].total \in Nat /\ Cardinality(TakenIn(enrolled[d])) \in Nat
    BY DraftFacts, RowsAreFinite DEF DraftRecords
  <2> QED BY <2>1, <2>2, <2>3 DEF CountsAgree
<1>2. NobodySentTwice
  BY DEF NobodySentTwice, DraftsInv, MayReach
<1>3. DryRunForetells
  BY DEF DryRunForetells, DraftsInv, Withheld
<1>4. NobodyLeftBehind
  <2> SUFFICES ASSUME NEW d \in Drafts, campaign[d].status \in {"READY", "RUNNING"}, Unwritten(d) # {}
               PROVE  d \in muddled
    BY DEF NobodyLeftBehind
  <2>1. StagesAgree(d, campaign[d], creation[d], enrolled[d], muddled)
    BY DEF DraftsInv
  <2> QED BY <2>1 DEF StagesAgree, Unwritten
<1> QED BY <1>1, <1>2, <1>3, <1>4 DEF DraftsHold

\* Counts are rows, nobody is sent two campaigns, a dry run foretells, and nobody is left unwritten (campaigns.service.ts).
THEOREM DraftsCorrect == DraftsSpec => []DraftsHold
BY DraftsInvHolds, DraftsStart, DraftsStep, PTL DEF DraftsSpec

-----------------------------------------------------------------------------
(* Prices *)

Products == [price : Prices, percent : 0..PlatformMaxDiscount, removed : BOOLEAN]
TextStates == [at : {"idle", "asking", "sent", "ready", "handed", "failed"},
             kind : {"none", "reply", "first"}, price : {0} \cup Prices, tries : 0..Tries]

\* The text that was accepted passed its check, against the price the turn had read; the price
\* is that of the product, unless somebody has edited it.
PricesInv ==
  /\ PricesTypeOK
  /\ writing.at \in {"idle", "asking"} => wording = <<>> /\ writing.tries < Tries
  /\ writing.at # "idle" =>
       /\ writing.kind \in {"reply", "first"} /\ writing.price \in Prices
       /\ ~repriced => writing.price = onSale.price
  /\ wording # <<>> => Passes(wording)
  /\ writing.at = "sent" => writing.kind = "reply"
  /\ writing.at = "ready" => writing.kind = "first" /\ wording \in WordSequences /\ Passes(wording)
  /\ OffersInBounds

\* An amount is written as what it is worth.
LEMMA AmountIsWorth == ASSUME NEW minor \in Nat PROVE Worth(FormatSar(minor)) = minor
<1>1. 10^0 = 1 /\ 10^2 = 100
  OBVIOUS
<1>2. CASE minor % 100 = 0
  <2>1. FormatSar(minor) = [digits |-> minor \div 100, point |-> 0]
    BY <1>2 DEF FormatSar
  <2>2. Worth(FormatSar(minor)) = ((minor \div 100) * 100) \div 1
    BY <1>1, <2>1 DEF Worth
  <2>3. (minor \div 100) * 100 = minor /\ minor \div 1 = minor
    BY <1>2
  <2> QED BY <2>2, <2>3
<1>3. CASE minor % 100 # 0
  <2>1. FormatSar(minor) = [digits |-> minor, point |-> 2]
    BY <1>3 DEF FormatSar
  <2>2. Worth(FormatSar(minor)) = (minor * 100) \div 100
    BY <1>1, <2>1 DEF Worth
  <2> QED BY <2>2
<1> QED BY <1>2, <1>3

\* An amount with the digits and the decimals of a price is worth it.
LEMMA SameDigitsSameWorth ==
  ASSUME NEW minor \in Nat, NEW a, a.digits = FormatSar(minor).digits, a.point = FormatSar(minor).point
  PROVE  Worth(a) = minor
<1>1. Worth(a) = Worth(FormatSar(minor))
  BY DEF Worth
<1> QED BY <1>1, AmountIsWorth

\* What the discount leaves.
LEMMA DiscountIs ==
  ASSUME NEW p \in Nat, NEW q \in Nat
  PROVE  LET d == ComputeDiscount(p, q) IN
         /\ d.original = p /\ d.percent \in 0..PlatformMaxDiscount /\ d.final \in 0..p
         /\ d.final * 100 >= p * (100 - PlatformMaxDiscount) /\ d.final + d.amount = p
<1> DEFINE kept == IF q > PlatformMaxDiscount THEN PlatformMaxDiscount ELSE q
           amount == (p * kept) \div 100
<1>1. ComputeDiscount(p, q) = [original |-> p, percent |-> kept, amount |-> amount, final |-> p - amount]
  BY DEF ComputeDiscount
<1>2. kept \in 0..5
  BY DEF PlatformMaxDiscount
<1>3. \A k \in 0..5 : /\ (p * k) \div 100 \in Nat /\ ((p * k) \div 100) * 100 <= p * 5
  OBVIOUS
<1>4. amount \in Nat /\ amount * 100 <= p * 5
  BY <1>2, <1>3
<1> HIDE DEF amount, kept
<1>5. p - amount \in 0..p /\ (p - amount) * 100 >= p * 95 /\ (p - amount) + amount = p
  BY <1>4
<1> QED BY <1>1, <1>2, <1>5 DEF PlatformMaxDiscount

\* Prices and percentages are numbers.
LEMMA PricesAreNumbers == Prices \subseteq Nat /\ Percents \subseteq Nat /\ Tries \in Nat \ {0}
BY PricesAssumption

\* A text without words passes.
LEMMA NoText == MentionsDiscount(<<>>) = FALSE /\ Named(<<>>) = {}
<1>1. DOMAIN <<>> = {}
  OBVIOUS
<1> QED BY <1>1 DEF MentionsDiscount, Named

\* Nothing is written.
LEMMA PricesStart == PricesInit => PricesInv
<1> SUFFICES ASSUME PricesInit PROVE PricesInv
  OBVIOUS
<1>1. PICK p \in Prices, q \in Percents :
        onSale = [price |-> p, percent |-> ComputeDiscount(p, q).percent, removed |-> FALSE]
  BY DEF PricesInit
<1>2. onSale \in Products
  BY <1>1, PricesAreNumbers, DiscountIs DEF Products
<1>3. 0 \in 0..Tries /\ 0 < Tries
  BY PricesAreNumbers
<1>4. writing \in TextStates /\ writing.at = "idle" /\ writing.tries = 0
  BY <1>3 DEF PricesInit, TextStates
<1>5. PricesTypeOK
  BY <1>2, <1>4 DEF PricesInit, PricesTypeOK, Products, TextStates
<1> QED BY <1>3, <1>4, <1>5 DEF PricesInit, PricesInv, OffersInBounds

\* The product is edited, and what was read before is another price.
LEMMA ProductEdited ==
  ASSUME PricesInv, UpdateProduct \/ WithdrawProduct
  PROVE  PricesInv'
<1>1. writing.at \in {"idle", "asking"} /\ UNCHANGED <<writing, wording, offer>> /\ writing \in TextStates
  BY DEF UpdateProduct, WithdrawProduct, BeingWritten, PricesInv, PricesTypeOK, TextStates
<1>2. /\ onSale' \in Products /\ repriced' \in BOOLEAN
      /\ ~repriced' => ~repriced /\ onSale'.price = onSale.price
  <2>0. onSale \in Products /\ repriced \in BOOLEAN
    BY DEF PricesInv, PricesTypeOK, Products
  <2>1. CASE UpdateProduct
    <3>1. PICK p \in Prices, q \in Percents :
            onSale' = [onSale EXCEPT !.price = p, !.percent = ComputeDiscount(p, q).percent]
      BY <2>1 DEF UpdateProduct
    <3>2. ComputeDiscount(p, q).percent \in 0..PlatformMaxDiscount
      BY PricesAreNumbers, DiscountIs
    <3> QED BY <2>0, <2>1, <3>1, <3>2 DEF UpdateProduct, Products
  <2>2. CASE WithdrawProduct
    BY <2>0, <2>2 DEF WithdrawProduct, Products
  <2> QED BY <2>1, <2>2
<1>3. PricesTypeOK'
  BY <1>1, <1>2 DEF PricesInv, PricesTypeOK, Products
<1>4. OffersInBounds'
  BY <1>1 DEF PricesInv, OffersInBounds
<1> QED BY <1>1, <1>2, <1>3, <1>4 DEF PricesInv

\* The price is read for a reply or a first message.
LEMMA ProductRead ==
  ASSUME PricesInv, NEW kind \in {"reply", "first"}, ReadProduct(kind)
  PROVE  PricesInv'
<1>1. /\ writing' = [at |-> "asking", kind |-> kind, price |-> onSale.price, tries |-> 0]
      /\ writing.at = "idle" /\ repriced' = FALSE /\ UNCHANGED <<onSale, wording, offer>>
  BY DEF ReadProduct
<1>2. onSale.price \in Prices /\ wording = <<>>
  BY <1>1 DEF PricesInv, PricesTypeOK
<1>3. 0 \in 0..Tries /\ 0 < Tries
  BY PricesAreNumbers
<1>4. writing' \in TextStates
  BY <1>1, <1>2, <1>3 DEF TextStates
<1>5. PricesTypeOK'
  BY <1>1, <1>4 DEF PricesInv, PricesTypeOK, TextStates
<1>6. OffersInBounds'
  BY <1>1 DEF PricesInv, OffersInBounds
<1> QED BY <1>1, <1>2, <1>3, <1>5, <1>6 DEF PricesInv

\* A text that passes is accepted.
LEMMA TextAccepted ==
  ASSUME PricesInv, NEW t \in WordSequences, AcceptText(t)
  PROVE  PricesInv'
<1>1. PICK at \in {"sent", "ready"} :
        /\ at = IF writing.kind = "reply" THEN "sent" ELSE "ready"
        /\ writing' = [writing EXCEPT !.at = at]
  BY DEF AcceptText
<1>2. writing \in TextStates /\ writing.at = "asking" /\ Passes(t) /\ wording' = t /\ UNCHANGED <<onSale, offer, repriced>>
  BY DEF AcceptText, PricesInv, PricesTypeOK, TextStates
<1>3. /\ writing' \in TextStates /\ writing'.at = at /\ writing'.kind = writing.kind
      /\ writing'.price = writing.price
  BY <1>1, <1>2 DEF TextStates
<1>4. Passes(wording)'
  BY <1>2, <1>3 DEF Passes
<1>5. PricesTypeOK'
  BY <1>2, <1>3 DEF PricesInv, PricesTypeOK, TextStates
<1>6. OffersInBounds'
  BY <1>2 DEF PricesInv, OffersInBounds
<1>7. writing.kind \in {"reply", "first"}
  BY <1>2 DEF PricesInv
<1> QED BY <1>1, <1>2, <1>3, <1>4, <1>5, <1>6 DEF PricesInv

\* A text that does not pass is asked for again, or given up.
LEMMA TextRefused == ASSUME PricesInv, RefuseText PROVE PricesInv'
<1>1. PICK at \in {"asking", "handed", "failed"} :
        /\ at = IF writing.tries + 1 = Tries THEN (IF writing.kind = "reply" THEN "handed" ELSE "failed") ELSE "asking"
        /\ writing' = [writing EXCEPT !.tries = @ + 1, !.at = at]
  BY DEF RefuseText
<1>2. writing \in TextStates /\ writing.at = "asking" /\ UNCHANGED <<onSale, wording, offer, repriced>>
  BY DEF RefuseText, PricesInv, PricesTypeOK, TextStates
<1>3. /\ writing.tries + 1 \in 0..Tries
      /\ at = "asking" => writing.tries + 1 < Tries
  BY <1>1, <1>2, PricesAreNumbers DEF PricesInv, TextStates
<1>4. /\ writing' \in TextStates /\ writing'.at = at /\ writing'.kind = writing.kind
      /\ writing'.price = writing.price /\ writing'.tries = writing.tries + 1
  BY <1>1, <1>2, <1>3 DEF TextStates
<1>5. PricesTypeOK'
  BY <1>2, <1>4 DEF PricesInv, PricesTypeOK, TextStates
<1>6. OffersInBounds' /\ wording' = <<>>
  BY <1>2 DEF PricesInv, OffersInBounds
<1> QED BY <1>1, <1>2, <1>3, <1>4, <1>5, <1>6 DEF PricesInv

\* A discount is offered within what the product allows.
LEMMA DiscountOffered == ASSUME PricesInv, OfferDiscount PROVE PricesInv'
<1>1. PICK at \in {"sent", "failed"} :
        /\ writing' = [writing EXCEPT !.at = at]
        /\ \/ at = "failed" /\ UNCHANGED offer
           \/ at = "sent" /\ offer' = ComputeDiscount(onSale.price, onSale.percent)
  BY DEF OfferDiscount
<1>2. writing \in TextStates /\ writing.at = "asking" /\ writing.kind = "reply" /\ UNCHANGED <<onSale, wording, repriced>>
  BY DEF OfferDiscount, PricesInv, PricesTypeOK, TextStates
<1>3. /\ writing' \in TextStates /\ writing'.at = at /\ writing'.kind = writing.kind
      /\ writing'.price = writing.price
  BY <1>1, <1>2 DEF TextStates
<1>4. onSale.price \in Prices /\ onSale.price \in Nat /\ onSale.percent \in Nat
  <2>1. onSale.price \in Prices /\ onSale.percent \in 0..PlatformMaxDiscount
    BY DEF PricesInv, PricesTypeOK
  <2>2. onSale.price \in Nat
    BY <2>1, PricesAreNumbers
  <2>3. onSale.percent \in Nat
    BY <2>1 DEF PlatformMaxDiscount
  <2> QED BY <2>1, <2>2, <2>3
<1>5. /\ OffersInBounds' /\ wording' = <<>>
      /\ offer' = NoOffer \/ (offer'.original \in Prices /\ offer'.final \in 0..offer'.original)
  <2>1. CASE UNCHANGED offer
    BY <1>2, <2>1 DEF PricesInv, OffersInBounds, PricesTypeOK
  <2>2. CASE offer' = ComputeDiscount(onSale.price, onSale.percent)
    <3>1. /\ offer'.original = onSale.price /\ offer'.percent \in 0..PlatformMaxDiscount
          /\ offer'.final \in 0..onSale.price
          /\ offer'.final * 100 >= offer'.original * (100 - PlatformMaxDiscount)
          /\ offer'.final + offer'.amount = offer'.original
      BY <1>4, <2>2, DiscountIs
    <3>2. offer'.original \in Nat /\ offer'.final \in Nat /\ offer'.percent <= PlatformMaxDiscount
      BY <1>4, <3>1 DEF PlatformMaxDiscount
    <3>3. \A minor \in {offer'.original, offer'.final} : Worth(FormatSar(minor)) = minor
      BY <3>2, AmountIsWorth
    <3> QED BY <1>2, <1>4, <3>1, <3>2, <3>3 DEF OffersInBounds, PricesInv
  <2> QED BY <1>1, <2>1, <2>2
<1>6. PricesTypeOK'
  BY <1>2, <1>3, <1>5 DEF PricesInv, PricesTypeOK, TextStates
<1> QED BY <1>1, <1>2, <1>3, <1>5, <1>6 DEF PricesInv

\* Every step keeps the price that was read.
LEMMA PricesStep == PricesInv /\ [PricesNext]_priceVars => PricesInv'
<1> SUFFICES ASSUME PricesInv, [PricesNext]_priceVars PROVE PricesInv'
  OBVIOUS
<1>1. CASE UNCHANGED priceVars
  BY <1>1 DEF priceVars, PricesInv, PricesTypeOK, OffersInBounds, Passes
<1>2. CASE PricesNext
  BY <1>2, ProductEdited, ProductRead, TextAccepted, TextRefused, DiscountOffered DEF PricesNext
<1> QED BY <1>1, <1>2

\* The invariant holds in every state.
LEMMA PricesInvariant == PricesSpec => []PricesInv
BY PricesStart, PricesStep, PTL DEF PricesSpec

\* The script of its digits changes nothing of what a first text is refused for.
LEMMA OtherScriptPasses ==
  ASSUME NEW t \in WordSequences, FirstTextPasses(t)
  PROVE  FirstTextPasses(InOtherScript(t))
<1> DEFINE u == InOtherScript(t)
<1>1. PICK n \in Nat : t \in [1..n -> NumberWords \cup {Word(kind) : kind \in WordKinds}]
  BY DEF WordSequences
<1>2. DOMAIN u = DOMAIN t /\ \A i \in DOMAIN t : u[i].is = t[i].is
  <2>1. ASSUME NEW i \in DOMAIN t PROVE u[i].is = t[i].is
    <3>1. t[i] \in NumberWords \/ \E kind \in WordKinds : t[i] = Word(kind)
      BY <1>1
    <3>2. u[i] = IF t[i].is = "number" THEN [t[i] EXCEPT !.arabic = ~@] ELSE t[i]
      BY DEF InOtherScript
    <3>3. CASE t[i] \in NumberWords
      BY <3>2, <3>3 DEF NumberWords
    <3>4. CASE \E kind \in WordKinds : t[i] = Word(kind)
      BY <3>2, <3>4 DEF Word, WordKinds
    <3> QED BY <3>1, <3>3, <3>4
  <2> QED BY <2>1 DEF InOtherScript
<1> HIDE DEF u
<1>3. \A i, kind : Is(u, i, kind) <=> Is(t, i, kind)
  BY <1>2 DEF Is
<1>4. ~MentionsDiscount(u)
  BY <1>2, <1>3 DEF FirstTextPasses, MentionsDiscount
<1>5. ~MentionsPrice(u)
  <2> SUFFICES ASSUME MentionsPrice(u) PROVE FALSE
    OBVIOUS
  <2>1. PICK i \in DOMAIN t, j \in DOMAIN t : i < j /\
           \/ u[j].is = "SAR" /\ \A k \in i..(j - 1) : u[k].is = "number"
           \/ u[i].is = "SAR" /\ j = i + 1 /\ u[j].is = "number"
           \/ u[i].is = "price" /\ j <= i + 2 /\ u[j].is = "number"
    BY <1>2 DEF MentionsPrice
  <2>2. DOMAIN t = 1..n
    BY <1>1
  <2>3. \A k \in i..(j - 1) : u[k].is = t[k].is
    BY <1>2, <2>2
  <2> QED BY <1>2, <2>1, <2>3 DEF FirstTextPasses, MentionsPrice
<1>6. ~UntrustedUrl(u, {})
  BY <1>2 DEF FirstTextPasses, UntrustedUrl
<1> QED BY <1>4, <1>5, <1>6 DEF FirstTextPasses, u

\* A text that names neither a discount nor an amount beside the currency has nothing to authorize.
LEMMA SilentIsAuthorized ==
  ASSUME NEW t \in WordSequences, FirstTextPasses(t), NEW p
  PROVE  ~UnauthorizedNumbers(t, p)
<1>1. PICK n \in Nat : DOMAIN t = 1..n
  BY DEF WordSequences
<1>2. ASSUME NEW i \in DOMAIN t, Is(t, i, "discount") PROVE FALSE
  BY <1>2 DEF FirstTextPasses, MentionsDiscount, Is
<1>3. ASSUME NEW i \in Named(t) PROVE FALSE
  <2>1. i \in DOMAIN t /\ t[i].is = "number" /\ i + 1 \in DOMAIN t /\ t[i + 1].is = "SAR"
    BY DEF Named, Latin, Is
  <2>2. i < i + 1 /\ \A k \in i..((i + 1) - 1) : k = i
    BY <1>1, <2>1
  <2> QED BY <2>1, <2>2 DEF FirstTextPasses, MentionsPrice
<1> QED BY <1>2, <1>3 DEF UnauthorizedNumbers

\* The invariant gives the properties.
LEMMA PricesInvHolds == PricesInv => PricesHold
<1> SUFFICES ASSUME PricesInv PROVE PricesHold
  OBVIOUS
<1>1. ReplyIsOfficial
  <2> SUFFICES ASSUME writing.at = "sent", writing.kind = "reply", NEW i \in Named(wording),
                      wording[i].point = FormatSar(writing.price).point
               PROVE  Worth(wording[i]) = writing.price /\ (~repriced => Worth(wording[i]) = onSale.price)
    BY DEF ReplyIsOfficial
  <2>1. wording # <<>>
    BY NoText
  <2>2. wording[i].digits = FormatSar(writing.price).digits
    BY <2>1 DEF PricesInv, Passes, ReplyPasses, UnauthorizedNumbers
  <2>3. writing.price \in Nat /\ (~repriced => writing.price = onSale.price)
    BY PricesAreNumbers DEF PricesInv
  <2> QED BY <2>2, <2>3, SameDigitsSameWorth
<1>2. FirstTextIsSilent
  <2> SUFFICES ASSUME writing.at = "ready"
               PROVE  FirstTextPasses(InOtherScript(wording)) /\ \A p \in Prices : ~UnauthorizedNumbers(wording, p)
    BY DEF FirstTextIsSilent
  <2>1. wording \in WordSequences /\ FirstTextPasses(wording)
    BY DEF PricesInv, Passes
  <2> QED BY <2>1, OtherScriptPasses, SilentIsAuthorized
<1> QED BY <1>1, <1>2 DEF PricesInv, PricesHold

\* The product, the text and the offer are what the code can store (sales-guard.ts).
THEOREM PricesTypeCorrect == PricesSpec => []PricesTypeOK
<1>1. PricesInv => PricesTypeOK
  BY DEF PricesInv
<1> QED BY <1>1, PricesInvariant, PTL

\* What a text says of money is the product's, and an offer is within its bounds (sales-guard.ts, discount.ts).
THEOREM PricesCorrect == PricesSpec => []PricesHold
BY PricesInvHolds, PricesInvariant, PTL

-----------------------------------------------------------------------------
(* One customer *)

KeyKinds == {"5x", "9665x", ""}
LeadRecords == [there : BOOLEAN, written : Writings, contact : Keys \cup {NoContact}]
CallRecords == [at : CallSteps, as : Writings, contact : BOOLEAN, lead : BOOLEAN,
                linked : Keys \cup {NoContact}, known : BOOLEAN, made : SUBSET {"contact", "lead"}]
TextRecords == [at : {"idle", "create", "link", "sent", "failed"}, contact : Keys \cup {NoContact},
                linked : Keys \cup {NoContact}]

\* The contact that the networks' writing of the number finds.
Mine == LooseKey[Arriving]

\* The lead is linked to a contact of its own number, and the contacts are those of the
\* writings that were seen.
LeadGood(cs, l) ==
  /\ l.there => l.written # "withheld"
  /\ l.contact # NoContact => l.there /\ l.contact \in cs /\ l.contact \in {Mine, LooseKey[l.written]}
  /\ cs \subseteq {Mine, ""} \cup (IF l.there THEN {LooseKey[l.written]} ELSE {})

\* Where the sheet writes the number as the networks do, the lead is linked to its one contact.
Linked(l) == l.there /\ l.written = Arriving => l.contact = Mine

\* What a call has found, created and linked by the step it is at.
CallGood(me, cs, l, faults) ==
  /\ me.at # "idle" => me.as \in {Arriving, "withheld"}
  /\ me.at = "idle" => me.linked = NoContact /\ ~me.lead
  /\ me.at \in {"idle", "lead", "createContact"} => me.made = {}
  /\ me.at \in {"lead", "createLead"} /\ me.contact => LooseKey[me.as] \in cs
  /\ me.at \in {"createLead", "link", "file", "done"} => LooseKey[me.as] \in cs
  /\ me.at \in {"createContact", "createLead"} /\ ~me.known => ~me.contact /\ ~me.lead
  /\ me.at = "createLead" /\ ~me.known => me.made = {"contact"}
  /\ me.at \in {"link", "file", "done"} /\ ~me.known =>
       me.made = {"contact"} \cup IF StrictKey[me.as] = "" THEN {} ELSE {"lead"}
  /\ me.lead => l.there
  /\ me.at \in {"link", "file", "done"} /\ StrictKey[me.as] # "" => l.there
  /\ me.linked # NoContact => l.there
  /\ me.linked = Mine => Linked(l)
  /\ me.at \in {"file", "done"} /\ me.as = Arriving /\ faults = 0 => Linked(l)

TextGood(x, cs, l) ==
  /\ x.at # "idle" => l.there /\ x.contact = LooseKey[l.written]
  /\ x.at \in {"link", "sent"} => x.contact \in cs
  /\ x.at = "idle" => x.linked = NoContact
  /\ x.linked # NoContact => l.there
  /\ x.linked = Mine => Linked(l)
  /\ x.at = "sent" => Linked(l)

RowsGood(rows, n) ==
  \A row \in rows :
    /\ row.at \in 1..n /\ row.updated \in 1..n
    /\ row = [kind |-> row.kind, whose |-> row.whose, who |-> row.who, at |-> row.at, updated |-> row.updated]

IdentityInv ==
  /\ IdentityTypeOK
  /\ LeadGood(contacts, customerLead)
  /\ \A c \in Callers : CallGood(caller[c], contacts, customerLead, identityFaults)
  /\ \A t \in CampaignTexts : TextGood(text[t], contacts, customerLead)
  /\ now \in Nat /\ IsFiniteSet(filed) /\ RowsGood(filed, now)

\* The keys of the writings there are.
LEMMA KeysAre ==
  /\ Writings = {"05x", "+9665x", "withheld"} /\ Keys = KeyKinds /\ NoContact \notin Keys
  /\ LooseKey["05x"] = "5x" /\ LooseKey["+9665x"] = "9665x" /\ LooseKey["withheld"] = ""
  /\ StrictKey["05x"] = "9665x" /\ StrictKey["+9665x"] = "9665x" /\ StrictKey["withheld"] = ""
  /\ Mine \in {"5x", "9665x"} /\ StrictKey[Arriving] = "9665x" /\ Arriving \in Writings
<1>1. Writings = {"05x", "+9665x", "withheld"}
  BY DEF Writings
<1>2. /\ LooseKey["05x"] = "5x" /\ LooseKey["+9665x"] = "9665x" /\ LooseKey["withheld"] = ""
      /\ StrictKey["05x"] = "9665x" /\ StrictKey["+9665x"] = "9665x" /\ StrictKey["withheld"] = ""
  BY <1>1 DEF LooseKey, StrictKey
<1>3. Keys = KeyKinds
  BY <1>1, <1>2 DEF Keys, KeyKinds
<1> QED BY <1>1, <1>2, <1>3, IdentityAssumption DEF KeyKinds, NoContact, Mine

\* What the others may do to the contacts and to the lead.
LeadGrows(cs, l, ds, m) ==
  /\ cs \subseteq ds /\ (l.there => m.there /\ m.written = l.written)
  /\ (~l.there => Linked(m) \/ m.contact = NoContact)
  /\ (l.there /\ Linked(l) => Linked(m))

\* A call stays good when others add contacts or link the lead.
LEMMA CallStays ==
  ASSUME NEW me \in CallRecords, NEW cs, NEW l \in LeadRecords, NEW ds, NEW m \in LeadRecords,
         NEW f \in Nat, NEW g \in Nat, f <= g,
         LeadGood(cs, l), CallGood(me, cs, l, f), LeadGrows(cs, l, ds, m)
  PROVE  CallGood(me, ds, m, g)
<1>1. me.at \in {"file", "done"} /\ me.as = Arriving => l.there
  BY KeysAre DEF CallGood
<1>2. g = 0 => f = 0
  OBVIOUS
<1>3. me.linked = Mine => l.there
  BY KeysAre DEF CallGood, KeyKinds, NoContact
<1>4. me.linked = Mine => Linked(m)
  BY <1>3 DEF CallGood, LeadGrows
<1>5. me.at \in {"file", "done"} /\ me.as = Arriving /\ g = 0 => Linked(m)
  BY <1>1, <1>2 DEF CallGood, LeadGrows
<1>6. cs \subseteq ds /\ (l.there => m.there)
  BY DEF LeadGrows
<1> QED BY <1>4, <1>5, <1>6 DEF CallGood

\* So does a text.
LEMMA TextStays ==
  ASSUME NEW x \in TextRecords, NEW cs, NEW l \in LeadRecords, NEW ds, NEW m \in LeadRecords,
         TextGood(x, cs, l), LeadGrows(cs, l, ds, m)
  PROVE  TextGood(x, ds, m)
<1>1. x.at = "sent" => Linked(m)
  BY DEF TextGood, LeadGrows
<1>2. x.linked = Mine => l.there /\ Linked(m)
  BY KeysAre DEF TextGood, LeadGrows, NoContact
<1> QED BY <1>1, <1>2 DEF TextGood, LeadGrows

\* The types as the lemmas need them.
LEMMA IdentityTyped ==
  ASSUME IdentityInv
  PROVE  /\ customerLead \in LeadRecords /\ caller \in [Callers -> CallRecords] /\ text \in [CampaignTexts -> TextRecords]
         /\ identityFaults \in Nat /\ contacts \subseteq Keys
BY IdentityAssumption DEF IdentityInv, IdentityTypeOK, LeadRecords, CallRecords, TextRecords

\* No statement has failed.
LEMMA NoFaultYet == 0 \in 0..IdentityFaults
<1>1. IdentityFaults \in Nat
  BY IdentityAssumption
<1> QED BY <1>1

\* Nobody has called or written.
LEMMA IdentityStart == IdentityInit => IdentityInv
<1> SUFFICES ASSUME IdentityInit PROVE IdentityInv
  OBVIOUS
<1> USE KeysAre DEF IdentityInit
<1>1. customerLead \in LeadRecords
  BY DEF Unlinked, LeadRecords
<1>2. caller \in [Callers -> CallRecords]
  <2>1. NotCalled \in CallRecords
    BY DEF NotCalled, CallRecords, CallSteps
  <2> QED BY <2>1
<1>3. text \in [CampaignTexts -> TextRecords]
  BY DEF TextRecords
<1>4. identityFaults \in 0..IdentityFaults
  <2>2. identityFaults = 0
    OBVIOUS
  <2> QED BY <2>2, NoFaultYet
<1>5. IdentityTypeOK
  BY <1>1, <1>2, <1>3, <1>4 DEF IdentityTypeOK, LeadRecords, CallRecords, TextRecords
<1>6. LeadGood(contacts, customerLead)
  BY DEF LeadGood, Unlinked
<1>7. \A c \in Callers : CallGood(caller[c], contacts, customerLead, identityFaults)
  BY DEF CallGood, NotCalled, NoContact
<1>8. \A t \in CampaignTexts : TextGood(text[t], contacts, customerLead)
  BY DEF TextGood, NoContact
<1>9. RowsGood(filed, now)
  BY DEF RowsGood
<1> QED BY <1>5, <1>6, <1>7, <1>8, <1>9, FS_EmptySet DEF IdentityInv

\* One call moves, and what it does to the contacts and the lead leaves the others good.
LEMMA CallMoves ==
  ASSUME IdentityInv, NEW c \in Callers, NEW me \in CallRecords, caller' = [caller EXCEPT ![c] = me],
         UNCHANGED text, contacts' \subseteq Keys, customerLead' \in LeadRecords,
         LeadGood(contacts, customerLead)', LeadGrows(contacts, customerLead, contacts', customerLead'),
         identityFaults' \in 0..IdentityFaults, identityFaults <= identityFaults',
         CallGood(me, contacts', customerLead', identityFaults'),
         chat' = chat, now' \in Nat, IsFiniteSet(filed'), RowsGood(filed', now')
  PROVE  IdentityInv'
<1>1. caller'[c] = me /\ \A d \in Callers : d # c => caller'[d] = caller[d]
  BY IdentityTyped
<1>2. caller' \in [Callers -> CallRecords] /\ identityFaults' \in Nat
  BY IdentityTyped, IdentityAssumption
<1>3. \A d \in Callers : CallGood(caller'[d], contacts', customerLead', identityFaults')
  <2> SUFFICES ASSUME NEW d \in Callers PROVE CallGood(caller'[d], contacts', customerLead', identityFaults')
    OBVIOUS
  <2>1. CASE d = c
    BY <1>1, <2>1
  <2>2. CASE d # c
    <3>1. caller[d] \in CallRecords /\ CallGood(caller[d], contacts, customerLead, identityFaults)
          /\ LeadGood(contacts, customerLead)
      BY IdentityTyped DEF IdentityInv
    <3>2. CallGood(caller[d], contacts', customerLead', identityFaults')
      BY <1>2, <3>1, IdentityTyped, CallStays
    <3> QED BY <1>1, <2>2, <3>2
  <2> QED BY <2>1, <2>2
<1>4. \A t \in CampaignTexts : TextGood(text'[t], contacts', customerLead')
  <2> SUFFICES ASSUME NEW t \in CampaignTexts PROVE TextGood(text'[t], contacts', customerLead')
    OBVIOUS
  <2>1. text[t] \in TextRecords /\ TextGood(text[t], contacts, customerLead) /\ text'[t] = text[t]
    BY IdentityTyped DEF IdentityInv
  <2> QED BY <2>1, IdentityTyped, TextStays
<1>5. IdentityTypeOK'
  BY <1>2 DEF IdentityInv, IdentityTypeOK, RowsGood, LeadRecords, CallRecords, TextRecords
<1> QED BY <1>3, <1>4, <1>5 DEF IdentityInv

\* One text moves, and what it does leaves the others good.
LEMMA TextMoves ==
  ASSUME IdentityInv, NEW t \in CampaignTexts, NEW x \in TextRecords, text' = [text EXCEPT ![t] = x],
         UNCHANGED <<caller, chat, identityFaults>>, contacts' \subseteq Keys, customerLead' \in LeadRecords,
         LeadGood(contacts, customerLead)', LeadGrows(contacts, customerLead, contacts', customerLead'),
         TextGood(x, contacts', customerLead'),
         now' \in Nat, IsFiniteSet(filed'), RowsGood(filed', now')
  PROVE  IdentityInv'
<1>1. text'[t] = x /\ \A d \in CampaignTexts : d # t => text'[d] = text[d]
  BY IdentityTyped
<1>2. text' \in [CampaignTexts -> TextRecords]
  BY IdentityTyped
<1>3. \A d \in Callers : CallGood(caller'[d], contacts', customerLead', identityFaults')
  <2> SUFFICES ASSUME NEW d \in Callers PROVE CallGood(caller'[d], contacts', customerLead', identityFaults')
    OBVIOUS
  <2>1. caller[d] \in CallRecords /\ CallGood(caller[d], contacts, customerLead, identityFaults)
        /\ LeadGood(contacts, customerLead) /\ identityFaults \in Nat /\ identityFaults <= identityFaults
    BY IdentityTyped DEF IdentityInv
  <2>2. CallGood(caller[d], contacts', customerLead', identityFaults)
    BY <2>1, IdentityTyped, CallStays
  <2> QED BY <2>2
<1>4. \A d \in CampaignTexts : TextGood(text'[d], contacts', customerLead')
  <2> SUFFICES ASSUME NEW d \in CampaignTexts PROVE TextGood(text'[d], contacts', customerLead')
    OBVIOUS
  <2>1. CASE d = t
    BY <1>1, <2>1
  <2>2. CASE d # t
    <3>1. text[d] \in TextRecords /\ TextGood(text[d], contacts, customerLead) /\ text'[d] = text[d]
      BY <1>1, <2>2, IdentityTyped DEF IdentityInv
    <3> QED BY <3>1, IdentityTyped, TextStays
  <2> QED BY <2>1, <2>2
<1>5. IdentityTypeOK'
  BY <1>2 DEF IdentityInv, IdentityTypeOK, RowsGood, LeadRecords, CallRecords, TextRecords
<1> QED BY <1>3, <1>4, <1>5 DEF IdentityInv

\* The lead as it is, and contacts more.
LEMMA SameGrows ==
  ASSUME NEW cs, NEW l, NEW ds, LeadGood(cs, l), cs \subseteq ds
  PROVE  LeadGrows(cs, l, ds, l)
BY DEF LeadGood, LeadGrows, Linked

\* What is known of one call.
LEMMA CallFacts ==
  ASSUME IdentityInv, NEW c \in Callers
  PROVE  /\ caller[c] \in CallRecords /\ CallGood(caller[c], contacts, customerLead, identityFaults)
         /\ customerLead \in LeadRecords /\ LeadGood(contacts, customerLead) /\ contacts \subseteq Keys
         /\ identityFaults \in 0..IdentityFaults /\ identityFaults \in Nat
         /\ now \in Nat /\ IsFiniteSet(filed)
         /\ RowsGood(filed, now)
BY IdentityTyped DEF IdentityInv, IdentityTypeOK

\* A step that changes nothing but the call.
LEMMA CallAlone ==
  ASSUME IdentityInv, NEW c \in Callers, NEW me \in CallRecords, caller' = [caller EXCEPT ![c] = me],
         UNCHANGED <<contacts, customerLead, text, chat, filed, now>>,
         identityFaults' \in 0..IdentityFaults, identityFaults <= identityFaults',
         CallGood(me, contacts, customerLead, identityFaults')
  PROVE  IdentityInv'
<1>1. LeadGrows(contacts, customerLead, contacts', customerLead')
  BY CallFacts, SameGrows
<1>2. /\ contacts' \subseteq Keys /\ customerLead' \in LeadRecords /\ LeadGood(contacts, customerLead)'
      /\ CallGood(me, contacts', customerLead', identityFaults')
      /\ now' \in Nat /\ IsFiniteSet(filed') /\ RowsGood(filed', now')
  BY CallFacts DEF LeadGood
<1> QED BY <1>1, <1>2, CallMoves

\* The contact is looked for by the loose key.
LEMMA CallFindsContact ==
  ASSUME IdentityInv, NEW c \in Callers, FindCallContact(c)
  PROVE  IdentityInv'
<1>1. PICK w \in {Arriving, "withheld"} :
        CallStep(c, "idle", "lead", [caller[c] EXCEPT !.as = w, !.contact = LooseKey[w] \in contacts])
  BY DEF FindCallContact
<1>2. PICK b \in BOOLEAN : b = (LooseKey[w] \in contacts)
  <2>1. (LooseKey[w] \in contacts) \in BOOLEAN
    OBVIOUS
  <2> QED BY <2>1, Zenon
<1> DEFINE me == [[caller[c] EXCEPT !.as = w, !.contact = b] EXCEPT !.at = "lead"]
<1>3. caller[c].at = "idle" /\ caller' = [caller EXCEPT ![c] = me]
  BY <1>1, <1>2 DEF CallStep
<1>4. /\ me \in CallRecords /\ me.at = "lead" /\ me.as = w /\ me.contact = b /\ me.lead = caller[c].lead
      /\ me.linked = caller[c].linked /\ me.made = caller[c].made
  BY CallFacts, KeysAre DEF CallRecords, CallSteps
<1> HIDE DEF me
<1>5. CallGood(me, contacts, customerLead, identityFaults)
  BY <1>2, <1>3, <1>4, CallFacts, KeysAre DEF CallGood, NoContact
<1>6. UNCHANGED <<contacts, customerLead, text, chat, filed, now, identityFaults>>
  BY DEF FindCallContact
<1>7. identityFaults' \in 0..IdentityFaults /\ identityFaults <= identityFaults'
      /\ CallGood(me, contacts, customerLead, identityFaults')
  BY <1>5, <1>6, CallFacts
<1> QED BY <1>3, <1>4, <1>6, <1>7, CallAlone

\* The lead is looked for by the strict key.
LEMMA CallFindsLead ==
  ASSUME IdentityInv, NEW c \in Callers, FindLead(c)
  PROVE  IdentityInv'
<1>1. PICK found \in BOOLEAN, k \in BOOLEAN, to \in {"createLead", "createContact"}, tie \in Keys \cup {NoContact} :
        /\ found = (StrictKey[caller[c].as] # "" /\ customerLead.there)
        /\ k = (caller[c].contact \/ found)
        /\ to = IF caller[c].contact THEN "createLead" ELSE "createContact"
        /\ tie = IF found THEN customerLead.contact ELSE NoContact
        /\ CallStep(c, "lead", to, [caller[c] EXCEPT !.lead = found, !.linked = tie, !.known = k])
  <2>1. customerLead.contact \in Keys \cup {NoContact} /\ caller[c].contact \in BOOLEAN
    BY CallFacts DEF LeadRecords, CallRecords
  <2> QED BY <2>1 DEF FindLead
<1> DEFINE me == [[caller[c] EXCEPT !.lead = found, !.linked = tie, !.known = k] EXCEPT !.at = to]
<1>3. caller[c].at = "lead" /\ caller' = [caller EXCEPT ![c] = me]
  BY <1>1 DEF CallStep
<1>4. /\ me \in CallRecords /\ me.at = to /\ me.as = caller[c].as /\ me.contact = caller[c].contact
      /\ me.lead = found /\ me.linked = tie /\ me.made = caller[c].made /\ me.known = k
  BY CallFacts DEF CallRecords, CallSteps
<1> HIDE DEF me
<1>5. tie = Mine => Linked(customerLead)
  BY <1>1, KeysAre DEF Linked, NoContact
<1>6. tie # NoContact => customerLead.there
  BY <1>1
<1>7. caller[c].made = {} /\ caller[c].as \in {Arriving, "withheld"} /\ (caller[c].contact => LooseKey[caller[c].as] \in contacts)
  BY <1>3, CallFacts DEF CallGood
<1>8. CallGood(me, contacts, customerLead, identityFaults)
  BY <1>1, <1>4, <1>5, <1>6, <1>7 DEF CallGood
<1>9. UNCHANGED <<contacts, customerLead, text, chat, filed, now, identityFaults>>
  BY DEF FindLead
<1>10. identityFaults' \in 0..IdentityFaults /\ identityFaults <= identityFaults'
      /\ CallGood(me, contacts, customerLead, identityFaults')
  BY <1>8, <1>9, CallFacts
<1> QED BY <1>3, <1>4, <1>9, <1>10, CallAlone

\* The contact is created, or another has done it and the call ends.
LEMMA CallCreatesContact ==
  ASSUME IdentityInv, NEW c \in Callers, CreateCallContact(c)
  PROVE  IdentityInv'
<1> DEFINE key == LooseKey[caller[c].as]
<1>1. PICK to \in {"createLead", "failed"}, new \in {{"contact"}, {}} :
        /\ to = IF key \notin contacts THEN "createLead" ELSE "failed"
        /\ new = IF key \notin contacts THEN {"contact"} ELSE {}
        /\ CallStep(c, "createContact", to, [caller[c] EXCEPT !.made = @ \cup new])
  BY DEF CreateCallContact
<1> DEFINE me == [[caller[c] EXCEPT !.made = @ \cup new] EXCEPT !.at = to]
<1>2. /\ caller[c].at = "createContact" /\ caller' = [caller EXCEPT ![c] = me]
      /\ contacts' = contacts \cup {key}
      /\ UNCHANGED <<customerLead, text, chat, filed, now, identityFaults>>
  BY <1>1 DEF CallStep, CreateCallContact
<1>3. /\ me \in CallRecords /\ me.at = to /\ me.as = caller[c].as /\ me.contact = caller[c].contact
      /\ me.lead = caller[c].lead /\ me.linked = caller[c].linked /\ me.made = caller[c].made \cup new
      /\ me.known = caller[c].known
  BY CallFacts DEF CallRecords, CallSteps
<1> HIDE DEF me
<1>4. key \in Keys /\ key \in {Mine, ""}
  <2>1. caller[c].as \in {Arriving, "withheld"} /\ caller[c].as \in Writings
    BY <1>2, CallFacts, KeysAre DEF CallGood
  <2> QED BY <2>1, KeysAre DEF Keys, Mine
<1>5. LeadGrows(contacts, customerLead, contacts', customerLead')
  BY <1>2, CallFacts, SameGrows
<1>6. LeadGood(contacts', customerLead')
  BY <1>2, <1>4, CallFacts DEF LeadGood
<1>7. CallGood(me, contacts', customerLead', identityFaults')
  BY <1>1, <1>2, <1>3, CallFacts DEF CallGood
<1>8. /\ contacts' \subseteq Keys /\ customerLead' \in LeadRecords
      /\ now' \in Nat /\ IsFiniteSet(filed') /\ RowsGood(filed', now')
  BY <1>2, <1>4, CallFacts
<1>9. identityFaults' \in 0..IdentityFaults /\ identityFaults <= identityFaults'
  BY <1>2, CallFacts
<1> QED BY <1>2, <1>3, <1>5, <1>6, <1>7, <1>8, <1>9, CallMoves

\* The lead is created, or kept.
LEMMA CallCreatesLead ==
  ASSUME IdentityInv, NEW c \in Callers, CreateCallLead(c)
  PROVE  IdentityInv'
<1> DEFINE key == LooseKey[caller[c].as]
           needed == ~caller[c].lead /\ StrictKey[caller[c].as] # ""
<1>0. UNCHANGED <<contacts, text, chat, filed, now, identityFaults>> /\ caller[c].at = "createLead"
  BY DEF CreateCallLead, CallStep
<1>1. CASE UNCHANGED customerLead
  <2>1. PICK to \in {"link", "failed"} :
          /\ CallStep(c, "createLead", to, caller[c])
          /\ to = "link" => ~needed
    <3>1. CASE ~needed /\ CallStep(c, "createLead", "link", caller[c])
      BY <3>1
    <3>2. CASE CallStep(c, "createLead", "failed", caller[c])
      BY <3>2
    <3>3. CASE needed /\ ~customerLead.there /\ customerLead' = [there |-> TRUE, written |-> caller[c].as, contact |-> key]
      <4>1. customerLead'.there
        BY <3>3
      <4> QED BY <1>1, <3>3, <4>1
    <3> QED BY <3>1, <3>2, <3>3 DEF CreateCallLead
  <2> DEFINE me == [caller[c] EXCEPT !.at = to]
  <2>2. caller' = [caller EXCEPT ![c] = me]
    BY <2>1 DEF CallStep
  <2>3. /\ me \in CallRecords /\ me.at = to /\ me.as = caller[c].as /\ me.contact = caller[c].contact
        /\ me.lead = caller[c].lead /\ me.linked = caller[c].linked /\ me.made = caller[c].made
        /\ me.known = caller[c].known
    BY CallFacts DEF CallRecords, CallSteps
  <2> HIDE DEF me
  <2>4. to = "link" => /\ ~caller[c].known => StrictKey[caller[c].as] = ""
                       /\ StrictKey[caller[c].as] # "" => customerLead.there
    BY <1>0, <2>1, CallFacts DEF CallGood
  <2>5. CallGood(me, contacts, customerLead, identityFaults)
    BY <1>0, <2>1, <2>3, <2>4, CallFacts DEF CallGood
  <2>6. identityFaults' \in 0..IdentityFaults /\ identityFaults <= identityFaults'
        /\ CallGood(me, contacts, customerLead, identityFaults')
    BY <1>0, <2>5, CallFacts
  <2> QED BY <1>0, <1>1, <2>2, <2>3, <2>6, CallAlone
<1>2. CASE ~UNCHANGED customerLead
  <2> DEFINE me == [[caller[c] EXCEPT !.linked = key, !.made = @ \cup {"lead"}] EXCEPT !.at = "link"]
             m == [there |-> TRUE, written |-> caller[c].as, contact |-> key]
  <2>1. /\ needed /\ ~customerLead.there /\ caller' = [caller EXCEPT ![c] = me] /\ customerLead' = m
    BY <1>2 DEF CreateCallLead, CallStep
  <2>2. caller[c].as = Arriving /\ key = Mine /\ key \in Keys /\ key \in contacts
    BY <1>0, <2>1, CallFacts, KeysAre DEF CallGood, Mine, KeyKinds
  <2>3. /\ me \in CallRecords /\ me.at = "link" /\ me.as = caller[c].as /\ me.contact = caller[c].contact
        /\ me.lead = caller[c].lead /\ me.linked = key /\ me.made = caller[c].made \cup {"lead"}
        /\ me.known = caller[c].known
    BY <2>2, CallFacts DEF CallRecords, CallSteps
  <2>4. m \in LeadRecords /\ m.there /\ m.written = Arriving /\ m.contact = Mine
    BY <2>2, KeysAre DEF LeadRecords
  <2> HIDE DEF me, m
  <2>5. Linked(m) /\ LeadGood(contacts, m)
    <3>1. Arriving # "withheld" /\ LooseKey[m.written] = Mine
      BY <2>4, IdentityAssumption DEF Mine
    <3>2. contacts \subseteq {Mine, ""}
      BY <2>1, CallFacts DEF LeadGood
    <3> QED BY <2>2, <2>4, <3>1, <3>2 DEF Linked, LeadGood
  <2>6. LeadGrows(contacts, customerLead, contacts', customerLead')
    BY <1>0, <2>1, <2>5 DEF LeadGrows
  <2>7. CallGood(me, contacts, m, identityFaults)
    BY <1>0, <2>1, <2>2, <2>3, <2>4, <2>5, CallFacts, KeysAre DEF CallGood
  <2>9. identityFaults' \in 0..IdentityFaults /\ identityFaults <= identityFaults'
    BY <1>0, CallFacts
  <2>10. LeadGood(contacts, customerLead)'
    BY <1>0, <2>1, <2>5 DEF LeadGood
  <2>8. /\ contacts' \subseteq Keys /\ customerLead' \in LeadRecords
        /\ CallGood(me, contacts', customerLead', identityFaults')
        /\ now' \in Nat /\ IsFiniteSet(filed') /\ RowsGood(filed', now')
    BY <1>0, <2>1, <2>4, <2>5, <2>7, CallFacts
  <2> QED BY <1>0, <2>1, <2>3, <2>6, <2>8, <2>9, <2>10, CallMoves
<1> QED BY <1>1, <1>2

\* The lead is linked to the contact of the call.
LEMMA CallLinks ==
  ASSUME IdentityInv, NEW c \in Callers, LinkLead(c)
  PROVE  IdentityInv'
<1> DEFINE key == LooseKey[caller[c].as]
           changes == StrictKey[caller[c].as] # "" /\ caller[c].linked # key
           me == [caller[c] EXCEPT !.at = "file"]
<1>1. /\ caller[c].at = "link" /\ caller' = [caller EXCEPT ![c] = me]
      /\ UNCHANGED <<contacts, text, chat, filed, now, identityFaults>>
      /\ customerLead' = IF changes THEN [customerLead EXCEPT !.contact = key] ELSE customerLead
  BY DEF LinkLead, CallStep
<1>2. /\ me \in CallRecords /\ me.at = "file" /\ me.as = caller[c].as /\ me.contact = caller[c].contact
      /\ me.lead = caller[c].lead /\ me.linked = caller[c].linked /\ me.made = caller[c].made
      /\ me.known = caller[c].known
  BY CallFacts DEF CallRecords, CallSteps
<1> HIDE DEF me
<1>3. PICK m \in LeadRecords :
        /\ customerLead' = m /\ m.there = customerLead.there /\ m.written = customerLead.written
        /\ m.contact = customerLead.contact \/ (m.contact = Mine /\ Mine \in contacts /\ customerLead.there)
        /\ caller[c].as = Arriving => Linked(m)
  <2>1. CASE changes
    <3>1. caller[c].as = Arriving /\ key = Mine /\ key \in Keys /\ key \in contacts /\ customerLead.there
      BY <1>1, <2>1, CallFacts, KeysAre DEF CallGood, Mine, KeyKinds
    <3> DEFINE m == [customerLead EXCEPT !.contact = key]
    <3>2. m \in LeadRecords /\ m.there = customerLead.there /\ m.written = customerLead.written /\ m.contact = Mine
      BY <3>1, CallFacts DEF LeadRecords
    <3>3. customerLead' = m
      BY <1>1, <2>1
    <3> HIDE DEF m
    <3> QED BY <3>1, <3>2, <3>3 DEF Linked
  <2>2. CASE ~changes
    <3>1. caller[c].as = Arriving => Linked(customerLead)
      BY <1>1, <2>2, CallFacts, KeysAre DEF CallGood, Mine
    <3> QED BY <1>1, <2>2, <3>1, CallFacts
  <2> QED BY <2>1, <2>2
<1>4. LeadGood(contacts, m)
  BY <1>3, CallFacts DEF LeadGood
<1>5. LeadGrows(contacts, customerLead, contacts', customerLead')
  BY <1>1, <1>3, CallFacts, KeysAre DEF LeadGrows, Linked, LeadGood
<1>6. CallGood(me, contacts, m, identityFaults)
  <2>1. me.linked = Mine => Linked(m)
    BY <1>2, <1>3, CallFacts DEF CallGood, Linked
  <2> QED BY <1>1, <1>2, <1>3, <2>1, CallFacts DEF CallGood
<1>8. identityFaults' \in 0..IdentityFaults /\ identityFaults <= identityFaults'
  <2>1. identityFaults' = identityFaults
    BY <1>1
  <2>2. identityFaults \in 0..IdentityFaults /\ identityFaults \in Nat
    BY CallFacts
  <2> QED BY <2>1, <2>2
<1>9. LeadGood(contacts, customerLead)'
  BY <1>1, <1>3, <1>4 DEF LeadGood
<1>7. /\ contacts' \subseteq Keys /\ customerLead' \in LeadRecords
      /\ CallGood(me, contacts', customerLead', identityFaults')
      /\ now' \in Nat /\ IsFiniteSet(filed') /\ RowsGood(filed', now')
  BY <1>1, <1>3, <1>4, <1>6, CallFacts
<1> QED BY <1>1, <1>2, <1>5, <1>7, <1>8, <1>9, CallMoves

\* A statement fails: the call is over, or goes on without the link.
LEMMA CallFails ==
  ASSUME IdentityInv, NEW c \in Callers, LinkFails(c) \/ ResolveFails(c)
  PROVE  IdentityInv'
<1>1. PICK to \in {"file", "failed"} :
        /\ caller' = [caller EXCEPT ![c] = [caller[c] EXCEPT !.at = to]]
        /\ to = "file" => caller[c].at = "link"
        /\ caller[c].at # "idle"
  <2>1. CASE LinkFails(c)
    BY <2>1 DEF LinkFails, CallStep
  <2>2. CASE ResolveFails(c)
    <3>1. PICK from \in {"lead", "createContact", "createLead", "file"} : CallStep(c, from, "failed", caller[c])
      BY <2>2 DEF ResolveFails
    <3> QED BY <3>1 DEF CallStep
  <2> QED BY <2>1, <2>2
<1>2. /\ UNCHANGED <<contacts, customerLead, text, chat, filed, now>>
      /\ identityFaults < IdentityFaults /\ identityFaults' = identityFaults + 1
  BY DEF LinkFails, ResolveFails
<1>3. identityFaults' \in 0..IdentityFaults /\ identityFaults <= identityFaults' /\ identityFaults' # 0
  BY <1>2, CallFacts, IdentityAssumption
<1> DEFINE me == [caller[c] EXCEPT !.at = to]
<1>4. /\ me \in CallRecords /\ me.at = to /\ me.as = caller[c].as /\ me.contact = caller[c].contact
      /\ me.lead = caller[c].lead /\ me.linked = caller[c].linked /\ me.made = caller[c].made
      /\ me.known = caller[c].known
  BY CallFacts DEF CallRecords, CallSteps
<1> HIDE DEF me
<1>5. CallGood(me, contacts, customerLead, identityFaults')
  BY <1>1, <1>3, <1>4, CallFacts DEF CallGood
<1>6. caller' = [caller EXCEPT ![c] = me]
  BY <1>1 DEF me
<1> QED BY <1>2, <1>3, <1>4, <1>5, <1>6, CallAlone

\* A row is filed under the next number.
LEMMA RowFiled ==
  ASSUME IdentityInv, NEW kind, NEW whose, NEW who, File(kind, whose, who)
  PROVE  now' \in Nat /\ IsFiniteSet(filed') /\ RowsGood(filed', now')
<1> DEFINE new == [kind |-> kind, whose |-> whose, who |-> who, at |-> now + 1, updated |-> now + 1]
<1>1. now' = now + 1 /\ filed' = filed \cup {new} /\ new.at = now + 1 /\ new.updated = now + 1
      /\ new = [kind |-> new.kind, whose |-> new.whose, who |-> new.who, at |-> new.at, updated |-> new.updated]
  BY DEF File
<1> HIDE DEF new
<1>2. now \in Nat /\ IsFiniteSet(filed) /\ RowsGood(filed, now)
  BY DEF IdentityInv
<1>3. IsFiniteSet(filed')
  BY <1>1, <1>2, FS_AddElement
<1>4. \A i \in Nat : \A j \in 1..i : j \in 1..(i + 1)
  OBVIOUS
<1> QED BY <1>1, <1>2, <1>3, <1>4 DEF RowsGood

\* The call is filed under its contact.
LEMMA CallFiled ==
  ASSUME IdentityInv, NEW c \in Callers, FileCall(c)
  PROVE  IdentityInv'
<1> DEFINE me == [caller[c] EXCEPT !.at = "done"]
<1>1. /\ caller[c].at = "file" /\ caller' = [caller EXCEPT ![c] = me]
      /\ UNCHANGED <<contacts, customerLead, text, chat, identityFaults>>
  BY DEF FileCall, CallStep
<1>2. /\ me \in CallRecords /\ me.at = "done" /\ me.as = caller[c].as /\ me.contact = caller[c].contact
      /\ me.lead = caller[c].lead /\ me.linked = caller[c].linked /\ me.made = caller[c].made
      /\ me.known = caller[c].known
  BY CallFacts DEF CallRecords, CallSteps
<1> HIDE DEF me
<1>3. CallGood(me, contacts, customerLead, identityFaults)
  BY <1>1, <1>2, CallFacts DEF CallGood
<1>4. now' \in Nat /\ IsFiniteSet(filed') /\ RowsGood(filed', now')
  <2>1. PICK kind, whose, who : File(kind, whose, who)
    BY DEF FileCall
  <2> QED BY <2>1, RowFiled
<1>5. LeadGrows(contacts, customerLead, contacts', customerLead')
  BY <1>1, CallFacts, SameGrows
<1>6. /\ contacts' \subseteq Keys /\ customerLead' \in LeadRecords
      /\ CallGood(me, contacts', customerLead', identityFaults')
  BY <1>1, <1>3, CallFacts
<1>7. LeadGood(contacts, customerLead)'
  BY <1>1, CallFacts DEF LeadGood
<1>8. identityFaults' \in 0..IdentityFaults /\ identityFaults <= identityFaults'
  BY <1>1, CallFacts
<1> QED BY <1>1, <1>2, <1>4, <1>5, <1>6, <1>7, <1>8, CallMoves

-----------------------------------------------------------------------------
\* What is known of one text.
LEMMA TextFacts ==
  ASSUME IdentityInv, NEW t \in CampaignTexts
  PROVE  /\ text[t] \in TextRecords /\ TextGood(text[t], contacts, customerLead)
         /\ customerLead \in LeadRecords /\ LeadGood(contacts, customerLead) /\ contacts \subseteq Keys
         /\ now \in Nat /\ IsFiniteSet(filed)
         /\ RowsGood(filed, now)
BY IdentityTyped DEF IdentityInv, IdentityTypeOK

\* The contact is looked for by the writing of the sheet.
LEMMA TextFindsContact ==
  ASSUME IdentityInv, NEW t \in CampaignTexts, FindTextContact(t)
  PROVE  IdentityInv'
<1> DEFINE key == LooseKey[customerLead.written]
           x == [at |-> IF key \in contacts THEN "link" ELSE "create", contact |-> key,
                 linked |-> customerLead.contact]
<1>1. /\ customerLead.there /\ text[t].at = "idle" /\ text' = [text EXCEPT ![t] = x]
      /\ UNCHANGED <<contacts, customerLead, caller, chat, filed, now, identityFaults>>
  BY DEF FindTextContact
<1>2. key \in Keys
  <2>1. customerLead.written \in Writings
    BY TextFacts DEF LeadRecords
  <2> QED BY <2>1 DEF Keys
<1>3. /\ x \in TextRecords /\ x.contact = key /\ x.linked = customerLead.contact
      /\ x.at \in {"link", "create"} /\ (x.at = "link" => key \in contacts)
  BY <1>2, TextFacts DEF TextRecords, LeadRecords
<1> HIDE DEF x
<1>4. x.linked = Mine => Linked(customerLead)
  BY <1>3 DEF Linked
<1>5. TextGood(x, contacts, customerLead)
  BY <1>1, <1>3, <1>4 DEF TextGood
<1>6. LeadGrows(contacts, customerLead, contacts', customerLead')
  BY <1>1, TextFacts, SameGrows
<1>7. /\ contacts' \subseteq Keys /\ customerLead' \in LeadRecords
      /\ TextGood(x, contacts', customerLead')
      /\ now' \in Nat /\ IsFiniteSet(filed') /\ RowsGood(filed', now')
  BY <1>1, <1>5, TextFacts
<1>8. LeadGood(contacts, customerLead)'
  BY <1>1, TextFacts DEF LeadGood
<1> QED BY <1>1, <1>3, <1>6, <1>7, <1>8, TextMoves

\* The contact is created, or another has done it.
LEMMA TextCreatesContact ==
  ASSUME IdentityInv, NEW t \in CampaignTexts, CreateTextContact(t)
  PROVE  IdentityInv'
<1>1. PICK to \in {"failed", "link"} :
        /\ text[t].at = "create" /\ text' = [text EXCEPT ![t] = [text[t] EXCEPT !.at = to]]
        /\ contacts' = contacts \cup {text[t].contact}
        /\ UNCHANGED <<customerLead, caller, chat, filed, now, identityFaults>>
  <2>1. text = [text EXCEPT ![t] = text[t]]
    BY IdentityTyped
  <2> QED BY <2>1 DEF CreateTextContact, TextStep
<1> DEFINE x == [text[t] EXCEPT !.at = to]
<1>2. x \in TextRecords /\ x.at = to /\ x.contact = text[t].contact /\ x.linked = text[t].linked
  BY TextFacts DEF TextRecords
<1>3. text' = [text EXCEPT ![t] = x]
  BY <1>1
<1> HIDE DEF x
<1>4. customerLead.there /\ x.contact = LooseKey[customerLead.written] /\ x.contact \in Keys
  <2>1. customerLead.there /\ x.contact = LooseKey[customerLead.written] /\ customerLead.written \in Writings
    BY <1>1, <1>2, TextFacts DEF TextGood, LeadRecords
  <2> QED BY <2>1 DEF Keys
<1>5. TextGood(x, contacts', customerLead)
  BY <1>1, <1>2, <1>4, TextFacts DEF TextGood
<1>6. LeadGrows(contacts, customerLead, contacts', customerLead')
  BY <1>1, TextFacts, SameGrows
<1>7. /\ contacts' \subseteq Keys /\ customerLead' \in LeadRecords
      /\ TextGood(x, contacts', customerLead')
      /\ now' \in Nat /\ IsFiniteSet(filed') /\ RowsGood(filed', now')
  BY <1>1, <1>2, <1>4, <1>5, TextFacts
<1>8. LeadGood(contacts, customerLead)'
  BY <1>1, <1>2, <1>4, TextFacts DEF LeadGood
<1> QED BY <1>1, <1>2, <1>3, <1>6, <1>7, <1>8, TextMoves

\* The lead is linked, and the text sent.
LEMMA TextLinksLead ==
  ASSUME IdentityInv, NEW t \in CampaignTexts, LinkTextLead(t)
  PROVE  IdentityInv'
<1> DEFINE x == [text[t] EXCEPT !.at = "sent"]
<1>1. /\ text[t].at = "link" /\ text' = [text EXCEPT ![t] = x]
      /\ customerLead' = IF text[t].linked = text[t].contact THEN customerLead
                         ELSE [customerLead EXCEPT !.contact = text[t].contact]
      /\ File("CAMPAIGN", "lead", t) /\ UNCHANGED <<contacts, caller, chat, identityFaults>>
  BY IdentityTyped DEF LinkTextLead, TextStep
<1>2. x \in TextRecords /\ x.at = "sent" /\ x.contact = text[t].contact /\ x.linked = text[t].linked
  BY TextFacts DEF TextRecords
<1> HIDE DEF x
<1>3. /\ customerLead.there /\ text[t].contact = LooseKey[customerLead.written]
      /\ text[t].contact \in contacts /\ text[t].contact \in Keys
  BY <1>1, TextFacts DEF TextGood
<1>4. PICK m \in LeadRecords :
        /\ customerLead' = m /\ m.there = customerLead.there /\ m.written = customerLead.written
        /\ m.contact = customerLead.contact \/ m.contact = LooseKey[customerLead.written]
        /\ Linked(m)
  <2>1. CASE text[t].linked = text[t].contact
    <3>1. customerLead.written = Arriving => text[t].linked = Mine
      BY <1>3, <2>1 DEF Mine
    <3>2. Linked(customerLead)
      BY <3>1, TextFacts DEF TextGood, Linked
    <3> QED BY <1>1, <2>1, <3>2, TextFacts
  <2>2. CASE text[t].linked # text[t].contact
    <3> DEFINE m == [customerLead EXCEPT !.contact = text[t].contact]
    <3>1. m \in LeadRecords /\ m.there = customerLead.there /\ m.written = customerLead.written
          /\ m.contact = LooseKey[customerLead.written]
      BY <1>3, TextFacts DEF LeadRecords
    <3>2. customerLead' = m
      BY <1>1, <2>2
    <3> HIDE DEF m
    <3>3. Linked(m)
      BY <3>1 DEF Linked, Mine
    <3> QED BY <3>1, <3>2, <3>3
  <2> QED BY <2>1, <2>2
<1>5. LeadGood(contacts, m)
  BY <1>3, <1>4, TextFacts DEF LeadGood
<1>6. LeadGrows(contacts, customerLead, contacts', customerLead')
  BY <1>1, <1>3, <1>4 DEF LeadGrows
<1>7. TextGood(x, contacts, m)
  BY <1>1, <1>2, <1>3, <1>4, TextFacts DEF TextGood
<1>8. now' \in Nat /\ IsFiniteSet(filed') /\ RowsGood(filed', now')
  <2>1. PICK kind, whose, who : File(kind, whose, who)
    BY <1>1
  <2> QED BY <2>1, RowFiled
<1>9. contacts' \subseteq Keys /\ customerLead' \in LeadRecords /\ TextGood(x, contacts', customerLead')
  BY <1>1, <1>4, <1>7, TextFacts
<1>10. LeadGood(contacts, customerLead)'
  BY <1>1, <1>4, <1>5 DEF LeadGood
<1> QED BY <1>1, <1>2, <1>6, <1>8, <1>9, <1>10, TextMoves

\* A text the gate turns away.
LEMMA TextIsTurnedAway ==
  ASSUME IdentityInv, NEW t \in CampaignTexts, TextTurnedAway(t)
  PROVE  IdentityInv'
<1> DEFINE x == [text[t] EXCEPT !.at = "failed"]
<1>1. /\ text[t].at = "link" /\ text' = [text EXCEPT ![t] = x]
      /\ UNCHANGED <<contacts, customerLead, caller, chat, filed, now, identityFaults>>
  BY IdentityTyped DEF TextTurnedAway, TextStep
<1>2. x \in TextRecords /\ x.at = "failed" /\ x.contact = text[t].contact /\ x.linked = text[t].linked
  BY TextFacts DEF TextRecords
<1> HIDE DEF x
<1>5. TextGood(x, contacts, customerLead)
  BY <1>1, <1>2, TextFacts DEF TextGood
<1>6. LeadGrows(contacts, customerLead, contacts', customerLead')
  BY <1>1, TextFacts, SameGrows
<1>7. /\ contacts' \subseteq Keys /\ customerLead' \in LeadRecords
      /\ TextGood(x, contacts', customerLead')
      /\ now' \in Nat /\ IsFiniteSet(filed') /\ RowsGood(filed', now')
  BY <1>1, <1>5, TextFacts
<1>8. LeadGood(contacts, customerLead)'
  BY <1>1, TextFacts DEF LeadGood
<1> QED BY <1>1, <1>2, <1>6, <1>7, <1>8, TextMoves

\* Steps that leave the calls and the texts alone.
LEMMA OthersMove ==
  ASSUME IdentityInv, UNCHANGED <<caller, text, identityFaults>>,
         contacts' \subseteq Keys, customerLead' \in LeadRecords,
         LeadGood(contacts, customerLead)', LeadGrows(contacts, customerLead, contacts', customerLead'),
         chat' \in [Chats -> {"idle", "create", "file", "filed", "failed"}],
         now' \in Nat, IsFiniteSet(filed'), RowsGood(filed', now')
  PROVE  IdentityInv'
<1>1. \A d \in Callers : CallGood(caller'[d], contacts', customerLead', identityFaults')
  <2> SUFFICES ASSUME NEW d \in Callers PROVE CallGood(caller'[d], contacts', customerLead', identityFaults')
    OBVIOUS
  <2>1. caller[d] \in CallRecords /\ CallGood(caller[d], contacts, customerLead, identityFaults)
        /\ LeadGood(contacts, customerLead) /\ identityFaults \in Nat /\ identityFaults <= identityFaults
    BY IdentityTyped DEF IdentityInv
  <2>2. CallGood(caller[d], contacts', customerLead', identityFaults)
    BY <2>1, IdentityTyped, CallStays
  <2> QED BY <2>2
<1>2. \A t \in CampaignTexts : TextGood(text'[t], contacts', customerLead')
  <2> SUFFICES ASSUME NEW t \in CampaignTexts PROVE TextGood(text'[t], contacts', customerLead')
    OBVIOUS
  <2>1. text[t] \in TextRecords /\ TextGood(text[t], contacts, customerLead) /\ text'[t] = text[t]
    BY IdentityTyped DEF IdentityInv
  <2> QED BY <2>1, IdentityTyped, TextStays
<1>3. IdentityTypeOK'
  BY DEF IdentityInv, IdentityTypeOK, RowsGood, LeadRecords
<1> QED BY <1>1, <1>2, <1>3 DEF IdentityInv

\* A lead comes from a sheet, with no contact.
LEMMA LeadImported == ASSUME IdentityInv, ImportLead PROVE IdentityInv'
<1>1. PICK w \in {"05x", "+9665x"} : customerLead' = [there |-> TRUE, written |-> w, contact |-> NoContact]
  BY KeysAre DEF ImportLead
<1>2. /\ ~customerLead.there /\ UNCHANGED <<contacts, caller, text, chat, filed, now, identityFaults>>
  BY DEF ImportLead
<1>3. LeadGood(contacts, customerLead) /\ contacts \subseteq Keys
  BY IdentityTyped DEF IdentityInv
<1> DEFINE m == [there |-> TRUE, written |-> w, contact |-> NoContact]
<1>4. m \in LeadRecords /\ m.there /\ m.written = w /\ m.contact = NoContact
  BY KeysAre DEF LeadRecords
<1>5. customerLead' = m
  BY <1>1
<1> HIDE DEF m
<1>6. LeadGood(contacts, m)
  BY <1>2, <1>3, <1>4 DEF LeadGood
<1>7. LeadGrows(contacts, customerLead, contacts', customerLead')
  BY <1>2, <1>4, <1>5 DEF LeadGrows
<1>8. LeadGood(contacts, customerLead)'
  BY <1>2, <1>5, <1>6 DEF LeadGood
<1>9. /\ chat' \in [Chats -> {"idle", "create", "file", "filed", "failed"}]
      /\ now' \in Nat /\ IsFiniteSet(filed') /\ RowsGood(filed', now')
  BY <1>2 DEF IdentityInv, IdentityTypeOK
<1> QED BY <1>2, <1>3, <1>4, <1>5, <1>7, <1>8, <1>9, OthersMove

\* A row of the timeline is updated, which leaves its time of sending.
LEMMA RecipientUpdated ==
  ASSUME IdentityInv, NEW t \in CampaignTexts, UpdateRecipient(t)
  PROVE  IdentityInv'
<1>1. PICK row \in filed : /\ now' = now + 1
                           /\ filed' = (filed \ {row}) \cup {[row EXCEPT !.updated = now + 1]}
                           /\ row.updated = row.at
  BY DEF UpdateRecipient
<1>2. UNCHANGED <<contacts, customerLead, caller, text, chat, identityFaults>>
  BY DEF UpdateRecipient
<1>3. /\ now \in Nat /\ IsFiniteSet(filed) /\ RowsGood(filed, now)
      /\ customerLead \in LeadRecords /\ LeadGood(contacts, customerLead) /\ contacts \subseteq Keys
      /\ chat \in [Chats -> {"idle", "create", "file", "filed", "failed"}]
  BY IdentityTyped DEF IdentityInv, IdentityTypeOK
<1> DEFINE new == [row EXCEPT !.updated = now + 1]
<1>4. IsFiniteSet(filed')
  <2>1. IsFiniteSet(filed \ {row})
    BY <1>3, FS_RemoveElement
  <2>2. IsFiniteSet((filed \ {row}) \cup {new})
    BY <2>1, FS_AddElement
  <2> QED BY <1>1, <2>2
<1>5. /\ new.at = row.at /\ new.updated = now + 1
      /\ new = [kind |-> new.kind, whose |-> new.whose, who |-> new.who, at |-> new.at, updated |-> new.updated]
  BY <1>1, <1>3 DEF RowsGood
<1>6. filed' = (filed \ {row}) \cup {new}
  BY <1>1
<1> HIDE DEF new
<1>7. \A i \in Nat : \A j \in 1..i : j \in 1..(i + 1)
  OBVIOUS
<1>8. RowsGood(filed', now')
  BY <1>1, <1>3, <1>5, <1>6, <1>7 DEF RowsGood
<1>9. LeadGrows(contacts, customerLead, contacts', customerLead')
  BY <1>2, <1>3, SameGrows
<1>10. LeadGood(contacts, customerLead)'
  BY <1>2, <1>3 DEF LeadGood
<1> QED BY <1>1, <1>2, <1>3, <1>4, <1>8, <1>9, <1>10, OthersMove

\* A message finds or creates the contact of the networks' writing, or is filed.
LEMMA ChatMoves ==
  ASSUME IdentityInv, NEW m \in Chats, FindChatContact(m) \/ CreateChatContact(m) \/ FileChat(m)
  PROVE  IdentityInv'
<1>1. /\ now \in Nat /\ IsFiniteSet(filed) /\ RowsGood(filed, now)
      /\ customerLead \in LeadRecords /\ LeadGood(contacts, customerLead) /\ contacts \subseteq Keys
      /\ chat \in [Chats -> {"idle", "create", "file", "filed", "failed"}]
  BY IdentityTyped DEF IdentityInv, IdentityTypeOK
<1>2. UNCHANGED <<customerLead, caller, text, identityFaults>> /\ contacts' \in {contacts, contacts \cup {Mine}}
  BY DEF FindChatContact, CreateChatContact, FileChat, Mine
<1>3. PICK to \in {"create", "file", "filed", "failed"} : chat' = [chat EXCEPT ![m] = to]
  BY DEF FindChatContact, CreateChatContact, FileChat, ChatStep
<1>4. chat' \in [Chats -> {"idle", "create", "file", "filed", "failed"}]
  BY <1>1, <1>3
<1>5. now' \in Nat /\ IsFiniteSet(filed') /\ RowsGood(filed', now')
  <2>1. CASE FileChat(m)
    <3>1. PICK kind, whose, who : File(kind, whose, who)
      BY <2>1 DEF FileChat
    <3> QED BY <3>1, RowFiled
  <2>2. CASE FindChatContact(m) \/ CreateChatContact(m)
    BY <1>1, <2>2 DEF FindChatContact, CreateChatContact
  <2> QED BY <2>1, <2>2
<1>6. LeadGood(contacts', customerLead) /\ contacts' \subseteq Keys
  BY <1>1, <1>2, KeysAre DEF LeadGood, KeyKinds
<1>7. LeadGood(contacts, customerLead)'
  BY <1>2, <1>6 DEF LeadGood
<1>8. LeadGrows(contacts, customerLead, contacts', customerLead')
  BY <1>1, <1>2, SameGrows
<1> QED BY <1>1, <1>2, <1>4, <1>5, <1>6, <1>7, <1>8, OthersMove

\* Every step keeps one customer.
LEMMA IdentityStep == IdentityInv /\ [IdentityNext]_identityVars => IdentityInv'
<1> SUFFICES ASSUME IdentityInv, [IdentityNext]_identityVars PROVE IdentityInv'
  OBVIOUS
<1>1. CASE ImportLead
  BY <1>1, LeadImported
<1>2. ASSUME NEW c \in Callers,
             \/ FindCallContact(c) \/ FindLead(c) \/ CreateCallContact(c) \/ CreateCallLead(c)
             \/ LinkLead(c) \/ LinkFails(c) \/ FileCall(c) \/ ResolveFails(c)
      PROVE  IdentityInv'
  BY <1>2, CallFindsContact, CallFindsLead, CallCreatesContact, CallCreatesLead, CallLinks,
     CallFails, CallFiled
<1>3. ASSUME NEW t \in CampaignTexts,
             \/ FindTextContact(t) \/ CreateTextContact(t) \/ LinkTextLead(t) \/ TextTurnedAway(t)
             \/ UpdateRecipient(t)
      PROVE  IdentityInv'
  BY <1>3, TextFindsContact, TextCreatesContact, TextLinksLead, TextIsTurnedAway, RecipientUpdated
<1>4. ASSUME NEW m \in Chats, FindChatContact(m) \/ CreateChatContact(m) \/ FileChat(m)
      PROVE  IdentityInv'
  BY <1>4, ChatMoves
<1>5. CASE UNCHANGED identityVars
  BY <1>5 DEF identityVars, IdentityInv, IdentityTypeOK, LeadGood, CallGood, TextGood, Linked,
     RowsGood
<1> QED BY <1>1, <1>2, <1>3, <1>4, <1>5 DEF IdentityNext

\* Contacts, the lead, calls, texts and rows are what the code can store (caller-identity.service.ts).
THEOREM IdentityTypeCorrect == IdentitySpec => []IdentityTypeOK
<1>1. IdentityInv => IdentityTypeOK
  BY DEF IdentityInv
<1> QED BY <1>1, IdentityStart, IdentityStep, PTL DEF IdentitySpec

-----------------------------------------------------------------------------
\* A set of numbers has a least one.
LEMMA LeastOf ==
  ASSUME NEW S \in SUBSET Nat, S # {}
  PROVE  \E n \in S : \A m \in S : n <= m
<1> DEFINE R == OpToRel(<, Nat)
<1>1. IsWellFoundedOn(R, Nat)
  BY NatLessThanWellFounded
<1>2. \A m, n \in Nat : m < n => <<m, n>> \in R
  BY DEF OpToRel
<1> HIDE DEF R
<1>3. PICK x \in S : \A y \in S : ~(<<y, x>> \in R)
  BY <1>1, WFMin
<1>4. ASSUME NEW y \in S PROVE x <= y
  <2>1. x \in Nat /\ y \in Nat
    OBVIOUS
  <2>2. ~(y < x)
    BY <1>2, <1>3, <2>1
  <2> QED BY <2>1, <2>2
<1> QED BY <1>4

\* Rows that are numbered up to a bound have a last one.
LEMMA LastOf ==
  ASSUME NEW rows, NEW time, NEW n \in Nat, rows # {}, \A row \in rows : time[row] \in 1..n
  PROVE  \E x \in rows : \A y \in rows : time[y] <= time[x]
<1> DEFINE D == {n - time[row] : row \in rows}
<1>1. D \in SUBSET Nat /\ D # {}
  OBVIOUS
<1>2. PICK d \in D : \A e \in D : d <= e
  BY <1>1, LeastOf
<1>3. PICK x \in rows : d = n - time[x]
  OBVIOUS
<1>4. ASSUME NEW y \in rows PROVE time[y] <= time[x]
  <2>1. n - time[x] <= n - time[y]
    BY <1>2, <1>3
  <2> QED BY <2>1
<1> QED BY <1>4

\* A row that is not among the most recent ones is older than as many of those as are kept.
LEMMA Outranked ==
  ASSUME NEW rows, NEW time, NEW n \in Nat, IsFiniteSet(rows), \A row \in rows : time[row] \in 1..n,
         NEW row \in rows, row \notin MostRecent(rows, time)
  PROVE  ~(Cardinality({other \in MostRecent(rows, time) : time[other] > time[row]}) < HistoryLimit)
<1> DEFINE After(r) == {other \in rows : time[other] > time[r]}
           M == {other \in MostRecent(rows, time) : time[other] > time[row]}
<1>1. \A r \in rows : r \in MostRecent(rows, time) <=> Cardinality(After(r)) < HistoryLimit
  BY DEF MostRecent
<1>2. \A r \in rows : IsFiniteSet(After(r)) /\ Cardinality(After(r)) \in Nat
  <2> SUFFICES ASSUME NEW r \in rows PROVE IsFiniteSet(After(r)) /\ Cardinality(After(r)) \in Nat
    OBVIOUS
  <2>1. After(r) \subseteq rows
    OBVIOUS
  <2>2. IsFiniteSet(After(r))
    BY <2>1, FS_Subset
  <2> QED BY <2>2, FS_CardinalityType
<1>3. M = MostRecent(rows, time) \cap After(row) /\ M \subseteq After(row)
  BY DEF MostRecent
<1>4. HistoryLimit \in Nat /\ ~(Cardinality(After(row)) < HistoryLimit)
  BY <1>1, IdentityAssumption
<1>5. IsFiniteSet(M) /\ Cardinality(M) \in Nat
  <2>1. IsFiniteSet(M)
    BY <1>2, <1>3, FS_Subset
  <2> QED BY <2>1, FS_CardinalityType
<1> SUFFICES ASSUME Cardinality(M) < HistoryLimit PROVE FALSE
  OBVIOUS
<1>6. After(row) \ M # {}
  <2> SUFFICES ASSUME After(row) \ M = {} PROVE FALSE
    OBVIOUS
  <2>1. M = After(row)
    BY <1>3
  <2> QED BY <1>4, <2>1
<1>7. PICK x \in After(row) \ M : \A y \in After(row) \ M : time[y] <= time[x]
  <2>1. \A y \in After(row) \ M : time[y] \in 1..n
    OBVIOUS
  <2> HIDE DEF After, M
  <2> QED BY <1>6, <2>1, LastOf
<1>8. x \in rows /\ ~(Cardinality(After(x)) < HistoryLimit)
  BY <1>1, <1>3
<1>9. After(x) \subseteq M
  <2> SUFFICES ASSUME NEW y \in After(x) PROVE y \in M
    OBVIOUS
  <2>1. y \in rows /\ time[y] > time[x] /\ time[x] > time[row]
    OBVIOUS
  <2>2. time[y] \in Nat /\ time[x] \in Nat /\ time[row] \in Nat
    BY <2>1
  <2>3. y \in After(row)
    BY <2>1, <2>2
  <2> QED BY <1>7, <2>1, <2>2, <2>3
<1>10. Cardinality(After(x)) <= Cardinality(M)
  BY <1>5, <1>9, FS_Subset
<1> QED BY <1>2, <1>4, <1>5, <1>8, <1>10

\* The timeline shows the newest rows of a contact.
LEMMA NewestShown == IdentityInv => TimelineIsNewest
<1> SUFFICES ASSUME IdentityInv, NEW contact \in contacts, NEW kind \in {"MESSAGE", "CALL"},
                    NEW row \in TimelineRows(contact, kind), row \notin Timeline(contact),
                    NEW other \in Timeline(contact), ~(other.at > row.at)
             PROVE  FALSE
  BY DEF TimelineIsNewest
<1> DEFINE kept == MostRecent(TimelineRows(contact, kind), SentAt)
           U == MostRecent(TimelineRows(contact, "MESSAGE"), SentAt)
                  \cup MostRecent(TimelineRows(contact, "CALL"), SentAt)
                  \cup MostRecent(LeadRows(contact), UpdatedAt)
           After(r) == {o \in U : SentAt[o] > SentAt[r]}
<1>1. now \in Nat /\ IsFiniteSet(filed) /\ \A r \in filed : SentAt[r] = r.at /\ SentAt[r] \in 1..now
  BY DEF IdentityInv, RowsGood, SentAt
<1>2. kept \subseteq U /\ U \subseteq filed
  BY DEF MostRecent, TimelineRows, LeadRows
<1>3. Timeline(contact) = MostRecent(U, SentAt)
  BY DEF Timeline
<1>4. TimelineRows(contact, kind) \subseteq filed /\ row \in filed
  BY DEF TimelineRows
<1>5. other \in filed /\ Cardinality(After(other)) < HistoryLimit
  BY <1>2, <1>3 DEF MostRecent
<1>6. IsFiniteSet(After(other)) /\ Cardinality(After(other)) \in Nat /\ HistoryLimit \in Nat
  <2>1. After(other) \subseteq filed
    BY <1>2
  <2>2. IsFiniteSet(After(other))
    BY <1>1, <2>1, FS_Subset
  <2> QED BY <2>2, FS_CardinalityType, IdentityAssumption
<1>7. PICK A : A \subseteq U /\ (\A o \in A : SentAt[o] > SentAt[row]) /\ ~(Cardinality(A) < HistoryLimit)
  <2>1. CASE row \in kept
    <3>1. ~(Cardinality(After(row)) < HistoryLimit)
      BY <1>2, <1>3, <2>1 DEF MostRecent
    <3> QED BY <3>1
  <2>2. CASE row \notin kept
    <3> DEFINE B == {o \in kept : SentAt[o] > SentAt[row]}
    <3>1. IsFiniteSet(TimelineRows(contact, kind))
      BY <1>1, <1>4, FS_Subset
    <3>2. \A r \in TimelineRows(contact, kind) : SentAt[r] \in 1..now
      BY <1>1, <1>4
    <3>3. ~(Cardinality(B) < HistoryLimit)
      BY <1>1, <2>2, <3>1, <3>2, Outranked
    <3> QED BY <1>2, <3>3
  <2> QED BY <2>1, <2>2
<1>8. A \subseteq After(other)
  <2> SUFFICES ASSUME NEW o \in A PROVE SentAt[o] > SentAt[other]
    BY <1>7
  <2>1. SentAt[o] \in Nat /\ SentAt[row] \in Nat /\ SentAt[other] \in Nat
    BY <1>1, <1>2, <1>4, <1>5, <1>7
  <2>2. SentAt[o] > SentAt[row] /\ SentAt[other] = other.at /\ SentAt[row] = row.at
    BY <1>1, <1>4, <1>5, <1>7
  <2> QED BY <2>1, <2>2
<1>9. IsFiniteSet(A) /\ Cardinality(A) <= Cardinality(After(other))
  BY <1>6, <1>8, FS_Subset
<1>10. Cardinality(A) \in Nat
  BY <1>9, FS_CardinalityType
<1> QED BY <1>5, <1>6, <1>7, <1>9, <1>10

\* The invariant gives the properties.
LEMMA IdentityInvHolds == IdentityInv => IdentityHolds
<1> SUFFICES ASSUME IdentityInv PROVE IdentityHolds
  OBVIOUS
<1>1. LeadGood(contacts, customerLead) /\ customerLead \in LeadRecords /\ contacts \subseteq Keys
  BY IdentityTyped DEF IdentityInv
<1>2. NewIsNew
  BY DEF NewIsNew, IdentityInv, CallGood
<1>3. LinkedToItsNumber
  BY <1>1, KeysAre DEF LinkedToItsNumber, LeadGood, LeadRecords
<1>4. OneCustomer
  <2> SUFFICES ASSUME customerLead.there, customerLead.written = Arriving
               PROVE  /\ contacts \subseteq {LooseKey[Arriving], ""}
                      /\ identityFaults = 0 /\ ((\E c \in Callers : caller[c].at = "done" /\ caller[c].as = Arriving)
                                \/ \E t \in CampaignTexts : text[t].at = "sent")
                           => customerLead.contact = LooseKey[Arriving]
    BY DEF OneCustomer
  <2>1. contacts \subseteq {LooseKey[Arriving], ""}
    BY <1>1 DEF LeadGood, Mine
  <2>2. ASSUME NEW c \in Callers, caller[c].at = "done", caller[c].as = Arriving, identityFaults = 0
        PROVE  customerLead.contact = LooseKey[Arriving]
    BY <2>2 DEF IdentityInv, CallGood, Linked, Mine
  <2>3. ASSUME NEW t \in CampaignTexts, text[t].at = "sent"
        PROVE  customerLead.contact = LooseKey[Arriving]
    BY <2>3 DEF IdentityInv, TextGood, Linked, Mine
  <2> QED BY <2>1, <2>2, <2>3
<1> QED BY <1>2, <1>3, <1>4, NewestShown DEF IdentityHolds

\* A new customer is new, the lead is linked to its own number, and the timeline is the newest (caller-identity.service.ts).
THEOREM IdentityCorrect == IdentitySpec => []IdentityHolds
BY IdentityInvHolds, IdentityStart, IdentityStep, PTL DEF IdentitySpec

-----------------------------------------------------------------------------
(* The lines and their instances *)

StatesOfInstance == {"connecting", "open", "close", "none"}
LineStatuses == {"NONE", "CREATING", "QR_REQUIRED", "CONNECTING", "CONNECTED", "DISCONNECTED", "ERROR"}
LineStates == [status : LineStatuses, inst : BOOLEAN, gone : BOOLEAN]
LineKinds == {"status", "qr", "reconnect", "hook", "send", "broadcast", "delete"}
WaSteps == {"end", "row", "instance", "webhook", "write", "fail", "call", "mark", "disconnect", "deleteInstance",
            "text", "record"}
WaStates == [kind : LineKinds \cup {"none", "done", "create"}, at : WaSteps, on : SUBSET Lines,
             saw : LineStatuses \cup {"none"} \cup Receivers, todo : SUBSET Receivers]

LinesTyped ==
  /\ line \in [Lines -> LineStates] /\ instance \in [Lines -> StatesOfInstance]
  /\ hooked \subseteq Lines /\ news \subseteq Lines \X StatesOfInstance
  /\ wa \in [LineRequests -> WaStates] /\ barred \subseteq Receivers
  /\ texted \in [Receivers -> Nat] /\ inInbox \in [Receivers -> Nat] /\ unshown \in [Receivers -> Nat]
  /\ slipped \subseteq Lines /\ doubtful \subseteq Lines
  /\ lineFaults \in 0 .. LineFaults /\ lineEvents \in 0 .. LineEvents

Makes(x, c) == x.kind = "create" /\ x.on = {c} /\ x.at # "row"
Removes(x, c) == x.kind = "delete" /\ x.on = {c}
WritesState(x, c) == x.kind = "status" /\ x.at = "write" /\ x.on = {c}
RecordsText(x) == x.kind = "broadcast" /\ x.at = "record"

\* What a request may take for granted of the line it is on.
LineRequestGood(x, lines, slips, instances) ==
  /\ x.kind \in {"none", "done"} => x.on = {}
  /\ x.kind = "create" => x.at \in {"row", "instance", "webhook", "write", "fail"}
  /\ x.kind = "delete" => x.at \in {"disconnect", "deleteInstance", "write"}
  /\ x.kind = "status" /\ x.at = "write" => x.saw \in {"CONNECTING", "CONNECTED", "DISCONNECTED", "ERROR"}
  /\ \A c \in Lines :
       /\ Makes(x, c) => lines[c].status # "NONE" /\ ~lines[c].inst /\ (lines[c].gone => c \in slips)
       /\ x.on = {c} /\ x.kind \notin {"create", "delete"} => lines[c].inst
       /\ Removes(x, c) => /\ x.at # "write" \/ x.saw \notin {"CREATING", "ERROR"} => lines[c].inst
                           /\ x.at = "write" => x.saw \in {"CREATING", "ERROR"} \/ c \in slips \/ instances[c] = "none"

LineRequestsGood == \A r \in LineRequests : LineRequestGood(wa[r], line, slipped, instance)
LineMakersApart == \A c \in Lines : \A r, q \in LineRequests : Makes(wa[r], c) /\ Makes(wa[q], c) => r = q

Unfinished(c) ==
  /\ LineIsThere(c) /\ ~line[c].inst => line[c].status \in {"CREATING", "ERROR"}
  /\ line[c].status = "NONE" => ~line[c].inst /\ ~line[c].gone

Held(c) ==
  instance[c] # "none" =>
    \/ LineIsThere(c) /\ line[c].inst
    \/ c \in slipped
    \/ \E r \in LineRequests : Makes(wa[r], c) /\ wa[r].at \in {"webhook", "write"}

\* From then on nothing is promised of the line.
Lost(c) == c \in doubtful \cup slipped \/ line[c].gone \/ \E r \in LineRequests : Removes(wa[r], c)

\* Until then the news under way is of the state the instance is in, and what a request has asked
\* for and is about to write as well.
NewsAgree(c) ==
  /\ \A n \in news : n[1] = c => n[2] = instance[c]
  /\ \A r \in LineRequests : WritesState(wa[r], c) => wa[r].saw \in {StatusFrom[instance[c]], "ERROR"}
  /\ LineIsThere(c) /\ line[c].status = "CONNECTED" => instance[c] = "open" \/ \E n \in news : n[1] = c

LineGood(c) == Unfinished(c) /\ Held(c) /\ (Lost(c) \/ NewsAgree(c))

LinesInv ==
  /\ LinesTyped /\ LineRequestsGood /\ LineMakersApart /\ TextsAreShown
  /\ \A c \in Lines : LineGood(c)

\* What the provider's states are called.
LEMMA StatusIs ==
  /\ StatusFrom["connecting"] = "CONNECTING" /\ StatusFrom["open"] = "CONNECTED"
  /\ StatusFrom["close"] = "DISCONNECTED" /\ StatusFrom["none"] = "ERROR" /\ DOMAIN StatusFrom = StatesOfInstance
BY DEF StatusFrom, StatesOfInstance

\* A refusal within the bound.
LEMMA OneMoreRefusal ==
  ASSUME LinesTyped, RefusedByProvider
  PROVE  lineFaults' \in 0 .. LineFaults
BY LinesAssumption DEF LinesTyped, RefusedByProvider

-----------------------------------------------------------------------------
(* What becomes of a request *)

\* A request that is over is on no line.
LEMMA RequestOver ==
  ASSUME NEW y, y = [Idle EXCEPT !.kind = "done"]
  PROVE  y \in WaStates /\ y.kind = "done" /\ y.at = "end" /\ y.on = {}
BY DEF Idle, WaStates, WaSteps

\* A request goes on to another step.
LEMMA RequestGoesOn ==
  ASSUME NEW x \in WaStates, NEW at \in WaSteps, NEW y, y = [x EXCEPT !.at = at]
  PROVE  y \in WaStates /\ y.kind = x.kind /\ y.at = at /\ y.on = x.on /\ y.saw = x.saw /\ y.todo = x.todo
BY DEF WaStates

\* A request is sent on to another step.
LEMMA OntoNext ==
  ASSUME LinesTyped, NEW r \in LineRequests, NEW at \in WaSteps \ {"end"}, Onto(r, at)
  PROVE  \E y \in WaStates : /\ wa' = [wa EXCEPT ![r] = y] /\ y.kind = wa[r].kind /\ y.at = at /\ y.on = wa[r].on
                             /\ y.saw = wa[r].saw /\ y.todo = wa[r].todo
<1> DEFINE y == [wa[r] EXCEPT !.at = at]
<1>1. wa[r] \in WaStates /\ at \in WaSteps
  BY DEF LinesTyped
<1>2. y \in WaStates /\ y.kind = wa[r].kind /\ y.at = at /\ y.on = wa[r].on /\ y.saw = wa[r].saw /\ y.todo = wa[r].todo
  BY <1>1, RequestGoesOn
<1>3. wa' = [wa EXCEPT ![r] = y]
  BY DEF Onto
<1> QED BY <1>2, <1>3

\* Or it ends.
LEMMA OntoEnd ==
  ASSUME NEW r \in LineRequests, Onto(r, "end")
  PROVE  \E y \in WaStates : wa' = [wa EXCEPT ![r] = y] /\ y.kind = "done" /\ y.at = "end" /\ y.on = {}
<1> DEFINE y == [Idle EXCEPT !.kind = "done"]
<1>1. y \in WaStates /\ y.kind = "done" /\ y.at = "end" /\ y.on = {}
  BY RequestOver
<1>2. wa' = [wa EXCEPT ![r] = y]
  BY DEF Onto
<1> QED BY <1>1, <1>2

-----------------------------------------------------------------------------
(* What a step leaves as it was *)

\* A request that does not move keeps what it takes for granted.
LEMMA OthersGood ==
  ASSUME NEW x, LineRequestGood(x, line, slipped, instance), slipped \subseteq slipped',
         \A c \in Lines : /\ line[c].status # "NONE" => line'[c].status # "NONE"
                          /\ line[c].inst => line'[c].inst
                          /\ line[c].inst /\ instance[c] = "none" => instance'[c] = "none"
                          /\ Makes(x, c) => ~line'[c].inst /\ (line'[c].gone => c \in slipped')
  PROVE  LineRequestGood(x, line', slipped', instance')
<1> SUFFICES ASSUME NEW c \in Lines
             PROVE  /\ Makes(x, c) => line'[c].status # "NONE" /\ ~line'[c].inst /\ (line'[c].gone => c \in slipped')
                    /\ x.on = {c} /\ x.kind \notin {"create", "delete"} => line'[c].inst
                    /\ Removes(x, c) =>
                         /\ x.at # "write" \/ x.saw \notin {"CREATING", "ERROR"} => line'[c].inst
                         /\ x.at = "write" => x.saw \in {"CREATING", "ERROR"} \/ c \in slipped' \/ instance'[c] = "none"
  BY DEF LineRequestGood
<1> QED BY DEF LineRequestGood

\* Nor does a line another step is about.
LEMMA OthersStand ==
  ASSUME NEW r \in LineRequests, NEW y, wa \in [LineRequests -> WaStates], wa' = [wa EXCEPT ![r] = y],
         slipped \subseteq slipped', doubtful \subseteq doubtful', NEW c \in Lines, LineGood(c),
         line'[c] = line[c], instance'[c] = instance[c], \A n : n[1] = c => (n \in news' <=> n \in news),
         Makes(wa[r], c) /\ wa[r].at \in {"webhook", "write"} => Makes(y, c) /\ y.at \in {"webhook", "write"},
         Removes(wa[r], c) => Removes(y, c),
         WritesState(y, c) => y.saw \in {StatusFrom[instance[c]], "ERROR"}
  PROVE  LineGood(c)'
<1>1. wa'[r] = y /\ \A q \in LineRequests \ {r} : wa'[q] = wa[q]
  OBVIOUS
<1>2. Unfinished(c)'
  BY DEF LineGood, Unfinished, LineIsThere
<1>3. Held(c)'
  BY <1>1 DEF LineGood, Held, LineIsThere
<1>4. Lost(c) => Lost(c)'
  BY <1>1 DEF Lost
<1>5. NewsAgree(c) => NewsAgree(c)'
  BY <1>1 DEF NewsAgree, LineIsThere
<1> QED BY <1>2, <1>3, <1>4, <1>5 DEF LineGood

\* The requests that have a text to record are as many as before.
LEMMA BroadcastsStay ==
  ASSUME TextsAreShown, NEW r \in LineRequests, NEW y, wa \in [LineRequests -> WaStates], wa' = [wa EXCEPT ![r] = y],
         ~RecordsText(wa[r]), ~RecordsText(y), UNCHANGED counts
  PROVE  TextsAreShown'
<1>1. \A p \in Receivers : Recording(p)' = Recording(p)
  BY DEF Recording, AtLine, RecordsText
<1> QED BY <1>1 DEF TextsAreShown, counts

\* A step of one request, about one line.
LEMMA LineMoves ==
  ASSUME LinesInv, LinesTyped', TextsAreShown', NEW r \in LineRequests, NEW y, wa' = [wa EXCEPT ![r] = y], NEW c \in Lines,
         slipped \subseteq slipped', doubtful \subseteq doubtful',
         \A d \in Lines \ {c} : /\ line'[d] = line[d] /\ instance'[d] = instance[d]
                                /\ \A n : n[1] = d => (n \in news' <=> n \in news)
                                /\ ~Makes(wa[r], d) /\ ~Makes(y, d) /\ ~Removes(wa[r], d) /\ ~WritesState(y, d),
         line[c].status # "NONE" => line'[c].status # "NONE",
         line[c].inst => line'[c].inst,
         line[c].inst /\ instance[c] = "none" => instance'[c] = "none",
         \A q \in LineRequests \ {r} : Makes(wa[q], c) => ~line'[c].inst /\ (line'[c].gone => c \in slipped'),
         LineRequestGood(y, line', slipped', instance'),
         Makes(y, c) => Makes(wa[r], c) \/ line[c].status = "NONE",
         LineGood(c)'
  PROVE  LinesInv'
<1>1. wa \in [LineRequests -> WaStates] /\ wa'[r] = y /\ \A q \in LineRequests \ {r} : wa'[q] = wa[q]
  BY DEF LinesInv, LinesTyped
<1>2. LineRequestsGood'
  <2> SUFFICES ASSUME NEW q \in LineRequests PROVE LineRequestGood(wa'[q], line', slipped', instance')
    BY DEF LineRequestsGood
  <2>1. CASE q = r
    BY <1>1, <2>1
  <2>2. CASE q # r
    <3>1. LineRequestGood(wa[q], line, slipped, instance)
      BY DEF LinesInv, LineRequestsGood
    <3>2. ASSUME NEW d \in Lines
          PROVE  /\ line[d].status # "NONE" => line'[d].status # "NONE"
                 /\ line[d].inst => line'[d].inst
                 /\ line[d].inst /\ instance[d] = "none" => instance'[d] = "none"
                 /\ Makes(wa[q], d) => ~line'[d].inst /\ (line'[d].gone => d \in slipped')
      <4>1. CASE d = c
        BY <2>2, <4>1
      <4>2. CASE d # c
        BY <3>1, <4>2 DEF LineRequestGood
      <4> QED BY <4>1, <4>2
    <3>3. LineRequestGood(wa[q], line', slipped', instance')
      BY <3>1, <3>2, OthersGood
    <3> QED BY <1>1, <2>2, <3>3
  <2> QED BY <2>1, <2>2
<1>3. LineMakersApart'
  <2> SUFFICES ASSUME NEW d \in Lines, NEW q \in LineRequests, NEW p \in LineRequests, Makes(wa'[q], d), Makes(wa'[p], d)
               PROVE  q = p
    BY DEF LineMakersApart
  <2>1. \A s \in LineRequests : Makes(wa[s], d) => line[d].status # "NONE"
    BY DEF LinesInv, LineRequestsGood, LineRequestGood
  <2>2. \A s \in LineRequests : Makes(wa'[s], d) => Makes(wa[s], d) \/ (s = r /\ line[d].status = "NONE")
    BY <1>1
  <2> QED BY <2>1, <2>2 DEF LinesInv, LineMakersApart
<1>4. ASSUME NEW d \in Lines PROVE LineGood(d)'
  <2>1. CASE d = c
    BY <2>1
  <2>2. CASE d # c
    <3>1. LineGood(d)
      BY DEF LinesInv
    <3> QED BY <1>1, <2>2, <3>1, OthersStand
  <2> QED BY <2>1, <2>2
<1> QED BY <1>2, <1>3, <1>4 DEF LinesInv

\* A step of a request that changes neither lines nor instances.
LEMMA OnlyAsks ==
  ASSUME LinesInv, LinesTyped', NEW r \in LineRequests, NEW y, wa' = [wa EXCEPT ![r] = y], TextsAreShown',
         UNCHANGED <<line, instance, news, slipped, doubtful>>,
         LineRequestGood(y, line, slipped, instance),
         \A c \in Lines : /\ Makes(y, c) => Makes(wa[r], c)
                          /\ Makes(wa[r], c) /\ wa[r].at \in {"webhook", "write"} =>
                               Makes(y, c) /\ y.at \in {"webhook", "write"}
                          /\ Removes(wa[r], c) => Removes(y, c)
                          /\ WritesState(y, c) => y.saw \in {StatusFrom[instance[c]], "ERROR"}
  PROVE  LinesInv'
<1>1. wa \in [LineRequests -> WaStates] /\ wa'[r] = y /\ \A q \in LineRequests \ {r} : wa'[q] = wa[q]
  BY DEF LinesInv, LinesTyped
<1>2. LineRequestsGood'
  BY <1>1 DEF LinesInv, LineRequestsGood
<1>3. LineMakersApart'
  BY <1>1 DEF LinesInv, LineMakersApart
<1>4. ASSUME NEW c \in Lines PROVE LineGood(c)'
  <2>1. LineGood(c)
    BY DEF LinesInv
  <2> QED BY <1>1, <2>1, OthersStand
<1> QED BY <1>2, <1>3, <1>4 DEF LinesInv

\* A row of a line with another status.
LEMMA MarkedLine ==
  ASSUME LinesTyped, NEW c \in Lines, NEW status \in LineStatuses, MarkLine(c, status)
  PROVE  /\ line' \in [Lines -> LineStates] /\ line'[c].status = status /\ line'[c].inst = line[c].inst
         /\ line'[c].gone = line[c].gone /\ \A d \in Lines \ {c} : line'[d] = line[d]
<1>1. line[c] \in LineStates
  BY DEF LinesTyped
<1>2. [line[c] EXCEPT !.status = status] \in LineStates /\ [line[c] EXCEPT !.status = status].status = status
      /\ [line[c] EXCEPT !.status = status].inst = line[c].inst /\ [line[c] EXCEPT !.status = status].gone = line[c].gone
  BY <1>1 DEF LineStates
<1>3. line' = [line EXCEPT ![c] = [line[c] EXCEPT !.status = status]]
  BY DEF MarkLine
<1> QED BY <1>2, <1>3 DEF LinesTyped

\* An instance that turns: its news is told, or the line is doubtful.
LEMMA InstanceTurned ==
  ASSUME LinesTyped, NEW c \in Lines, NEW state \in StatesOfInstance, InstanceTurns(c, state)
  PROVE  /\ instance' \in [Lines -> StatesOfInstance] /\ instance'[c] = state
         /\ news' \subseteq Lines \X StatesOfInstance /\ doubtful \subseteq doubtful' /\ doubtful' \subseteq Lines
         /\ \A d \in Lines \ {c} : instance'[d] = instance[d] /\ \A n : n[1] = d => (n \in news' <=> n \in news)
<1>1. news' \subseteq news \cup {<<c, state>>} /\ news \subseteq news'
  BY DEF InstanceTurns
<1>2. <<c, state>> \in Lines \X StatesOfInstance /\ <<c, state>>[1] = c
  OBVIOUS
<1>3. doubtful \subseteq doubtful' /\ doubtful' \subseteq doubtful \cup {c}
  BY DEF InstanceTurns
<1>4. instance' = [instance EXCEPT ![c] = state]
  BY DEF InstanceTurns
<1>5. \A d \in Lines \ {c} : \A n : n[1] = d => (n \in news' <=> n \in news)
  BY <1>1, <1>2
<1> QED BY <1>1, <1>2, <1>3, <1>4, <1>5 DEF LinesTyped

\* What is told of a line that turns is its turn, or the line is doubtful.
LEMMA TurnIsTold ==
  ASSUME LinesTyped, NEW c \in Lines, NEW state \in StatesOfInstance, InstanceTurns(c, state),
         \A q \in LineRequests : WritesState(wa'[q], c) => WritesState(wa[q], c)
  PROVE  Lost(c)' \/ NewsAgree(c)'
<1> SUFFICES ASSUME c \notin doubtful' PROVE NewsAgree(c)'
  BY DEF Lost
<1>1. c \in hooked /\ (\A n \in news : n[1] # c) /\ \A q \in LineRequests : ~(wa[q].on = {c} /\ wa[q].at = "write")
  BY DEF InstanceTurns
<1>2. news' = news \cup {<<c, state>>} /\ instance'[c] = state
  BY <1>1 DEF InstanceTurns, LinesTyped
<1>3. <<c, state>>[1] = c /\ <<c, state>>[2] = state /\ <<c, state>> \in news'
  BY <1>2
<1>4. \A n \in news' : n[1] = c => n[2] = instance'[c]
  BY <1>1, <1>2, <1>3
<1>5. \A q \in LineRequests : ~WritesState(wa'[q], c)
  BY <1>1 DEF WritesState
<1> QED BY <1>3, <1>4, <1>5 DEF NewsAgree

-----------------------------------------------------------------------------
(* The requests, step by step *)

\* A request to create a line begins, or is given the unfinished one.
LEMMA CreateConnectionStep ==
  ASSUME LinesInv, NEW r \in LineRequests, NEW c \in Lines, CreateConnection(r, c)
  PROVE  LinesInv'
<1> USE DEF atProvider, counts
<1>1. PICK y \in WaStates : wa' = [wa EXCEPT ![r] = y]
                            /\ ((y.kind = "done" /\ y.on = {}) \/ (y.kind = "create" /\ y.at = "row" /\ y.on = {c}))
  <2>1. CASE Onto(r, "end")
    BY <2>1, OntoEnd
  <2>2. CASE wa' = [wa EXCEPT ![r] = [Idle EXCEPT !.kind = "create", !.at = "row", !.on = {c}]]
    <3> DEFINE y == [Idle EXCEPT !.kind = "create", !.at = "row", !.on = {c}]
    <3>1. y \in WaStates /\ y.kind = "create" /\ y.at = "row" /\ y.on = {c}
      BY DEF Idle, WaStates, WaSteps
    <3> QED BY <2>2, <3>1
  <2> QED BY <2>1, <2>2 DEF CreateConnection
<1>2. UNCHANGED <<line, instance, hooked, news, barred, texted, inInbox, unshown, slipped, doubtful, lineFaults, lineEvents>>
  BY DEF CreateConnection
<1>3. wa[r].kind = "none"
  BY DEF CreateConnection, Idle
<1>4. LinesTyped'
  BY <1>1, <1>2 DEF LinesInv, LinesTyped
<1>5. TextsAreShown'
  BY <1>1, <1>2, <1>3, BroadcastsStay DEF RecordsText, LinesInv, LinesTyped
<1>6. LineRequestGood(y, line, slipped, instance)
  BY <1>1 DEF LineRequestGood, Makes, Removes
<1> QED BY <1>1, <1>2, <1>3, <1>4, <1>5, <1>6, OnlyAsks DEF Makes, Removes, WritesState

\* The row is new, so nobody else makes its line.
LEMMA CreateLineRowStep ==
  ASSUME LinesInv, NEW r \in LineRequests, NEW c \in Lines, CreateLineRow(r, c)
  PROVE  LinesInv'
<1> USE DEF atProvider, counts
<1>1. wa[r].kind = "create" /\ wa[r].at = "row" /\ wa[r] \in WaStates
  BY DEF CreateLineRow, AtLine, LinesInv, LinesTyped
<1>2. UNCHANGED <<instance, hooked, news, barred, texted, inInbox, unshown, slipped, doubtful, lineFaults, lineEvents>>
  BY DEF CreateLineRow
<1>3. CASE line[c].status # "NONE"
  <2>1. PICK y \in WaStates : wa' = [wa EXCEPT ![r] = y] /\ y.kind = "done" /\ y.at = "end" /\ y.on = {}
    BY <1>3, OntoEnd DEF CreateLineRow
  <2>2. line' = line
    BY <1>3 DEF CreateLineRow
  <2>3. LinesTyped'
    BY <1>2, <2>1, <2>2 DEF LinesInv, LinesTyped
  <2>4. TextsAreShown'
    BY <1>1, <1>2, <2>1, BroadcastsStay DEF RecordsText, LinesInv, LinesTyped
  <2>5. LineRequestGood(y, line, slipped, instance)
    BY <2>1 DEF LineRequestGood, Makes, Removes
  <2> QED BY <1>1, <1>2, <2>1, <2>2, <2>3, <2>4, <2>5, OnlyAsks DEF Makes, Removes, WritesState
<1>4. CASE line[c].status = "NONE"
  <2> DEFINE y == [wa[r] EXCEPT !.at = "instance", !.on = {c}]
  <2>1. y \in WaStates /\ y.kind = "create" /\ y.at = "instance" /\ y.on = {c}
    BY <1>1 DEF WaStates, WaSteps
  <2>2. wa' = [wa EXCEPT ![r] = y]
    BY <1>4 DEF CreateLineRow
  <2> HIDE DEF y
  <2>3. MarkLine(c, "CREATING") /\ "CREATING" \in LineStatuses
    BY <1>4 DEF CreateLineRow, LineStatuses
  <2>4. /\ line' \in [Lines -> LineStates] /\ line'[c].status = "CREATING" /\ line'[c].inst = line[c].inst
        /\ line'[c].gone = line[c].gone /\ \A d \in Lines \ {c} : line'[d] = line[d]
    BY <2>3, MarkedLine DEF LinesInv
  <2>5. ~line[c].inst /\ ~line[c].gone
    BY <1>4 DEF LinesInv, LineGood, Unfinished
  <2>6. LinesTyped'
    BY <1>2, <2>1, <2>2, <2>4 DEF LinesInv, LinesTyped
  <2>7. TextsAreShown'
    BY <1>1, <1>2, <2>1, <2>2, BroadcastsStay DEF RecordsText, LinesInv, LinesTyped
  <2>8. LineRequestGood(y, line', slipped', instance')
    BY <2>1, <2>4, <2>5 DEF LineRequestGood, Makes, Removes
  <2>9. LineGood(c)'
    <3>1. Unfinished(c)'
      BY <2>4, <2>5 DEF Unfinished
    <3>2. \A q \in LineRequests : /\ Makes(wa[q], c) => Makes(wa'[q], c) /\ (wa[q].at \in {"webhook", "write"} => wa'[q].at \in {"webhook", "write"})
                                  /\ Removes(wa[q], c) => Removes(wa'[q], c)
                                  /\ WritesState(wa'[q], c) => WritesState(wa[q], c) /\ wa'[q].saw = wa[q].saw
      BY <1>1, <2>1, <2>2 DEF Makes, Removes, WritesState, LinesInv, LinesTyped
    <3>3. Held(c)'
      BY <1>2, <2>4, <2>5, <3>2 DEF LinesInv, LineGood, Held, LineIsThere
    <3>4. Lost(c) => Lost(c)'
      BY <1>2, <2>4, <3>2 DEF Lost
    <3>5. NewsAgree(c) => NewsAgree(c)'
      BY <1>2, <2>4, <3>2 DEF NewsAgree
    <3> QED BY <3>1, <3>3, <3>4, <3>5 DEF LinesInv, LineGood
  <2>10. \A q \in LineRequests : ~Makes(wa[q], c)
    BY <1>4 DEF LinesInv, LineRequestsGood, LineRequestGood
  <2>11. /\ \A d \in Lines \ {c} : /\ line'[d] = line[d] /\ instance'[d] = instance[d]
                                   /\ \A n : n[1] = d => (n \in news' <=> n \in news)
                                   /\ ~Makes(wa[r], d) /\ ~Makes(y, d) /\ ~Removes(wa[r], d) /\ ~WritesState(y, d)
         /\ slipped \subseteq slipped' /\ doubtful \subseteq doubtful'
    BY <1>1, <1>2, <2>1, <2>4 DEF Makes, Removes, WritesState
  <2>12. /\ line[c].status # "NONE" => line'[c].status # "NONE"
         /\ line[c].inst => line'[c].inst
         /\ line[c].inst /\ instance[c] = "none" => instance'[c] = "none"
         /\ \A q \in LineRequests \ {r} : Makes(wa[q], c) => ~line'[c].inst /\ (line'[c].gone => c \in slipped')
         /\ Makes(y, c) => Makes(wa[r], c) \/ line[c].status = "NONE"
    BY <1>2, <1>4, <2>4, <2>5, <2>10
  <2> QED BY <2>2, <2>6, <2>7, <2>8, <2>9, <2>11, <2>12, LineMoves
<1> QED BY <1>3, <1>4

\* The webhook changes who hears of the line, and nothing said of it.
LEMMA SetWebhookStep ==
  ASSUME LinesInv, NEW r \in LineRequests, NEW c \in Lines, SetWebhook(r, c)
  PROVE  LinesInv'
<1> USE DEF atProvider, counts
<1>1. wa[r].kind = "create" /\ wa[r].at = "webhook" /\ wa[r].on = {c}
  BY DEF SetWebhook, AtLine
<1>2. UNCHANGED <<line, instance, news, barred, texted, inInbox, unshown, slipped, doubtful, lineEvents>>
      /\ hooked' \subseteq Lines /\ lineFaults' \in 0 .. LineFaults
  BY OneMoreRefusal DEF SetWebhook, LinesInv, LinesTyped
<1>3. PICK y \in WaStates : wa' = [wa EXCEPT ![r] = y] /\ y.kind = "create" /\ y.at = "write" /\ y.on = {c}
  <2>1. Onto(r, "write") /\ "write" \in WaSteps \ {"end"}
    BY DEF SetWebhook, WaSteps
  <2> QED BY <1>1, <2>1, OntoNext DEF LinesInv
<1>4. LinesTyped'
  BY <1>2, <1>3 DEF LinesInv, LinesTyped
<1>5. TextsAreShown'
  BY <1>1, <1>2, <1>3, BroadcastsStay DEF RecordsText, LinesInv, LinesTyped
<1>6. LineRequestGood(y, line, slipped, instance)
  <2>1. LineRequestGood(wa[r], line, slipped, instance)
    BY DEF LinesInv, LineRequestsGood
  <2> QED BY <1>1, <1>3, <2>1 DEF LineRequestGood, Makes, Removes
<1> QED BY <1>1, <1>2, <1>3, <1>4, <1>5, <1>6, OnlyAsks DEF Makes, Removes, WritesState

\* The instance is its maker's to hold, or the line has slipped.
LEMMA CreateInstanceStep ==
  ASSUME LinesInv, NEW r \in LineRequests, NEW c \in Lines, CreateInstance(r, c)
  PROVE  LinesInv'
<1> USE DEF atProvider, counts
<1>1. wa[r].kind = "create" /\ wa[r].at = "instance" /\ wa[r].on = {c}
  BY DEF CreateInstance, AtLine
<1>2. UNCHANGED <<line, hooked, barred, texted, inInbox, unshown, lineEvents>>
  BY DEF CreateInstance
<1>3. LineRequestGood(wa[r], line, slipped, instance) /\ Makes(wa[r], c)
  BY <1>1 DEF LinesInv, LineRequestsGood, Makes
<1>4. CASE RefusedByProvider /\ Onto(r, "fail") /\ UNCHANGED <<atProvider, doubtful, slipped>>
  <2>1. PICK y \in WaStates : wa' = [wa EXCEPT ![r] = y] /\ y.kind = "create" /\ y.at = "fail" /\ y.on = {c}
    <3>1. "fail" \in WaSteps \ {"end"}
      BY DEF WaSteps
    <3> QED BY <1>1, <1>4, <3>1, OntoNext DEF LinesInv
  <2>2. LinesTyped'
    BY <1>2, <1>4, <2>1, OneMoreRefusal DEF LinesInv, LinesTyped
  <2>3. TextsAreShown'
    BY <1>1, <1>2, <2>1, BroadcastsStay DEF RecordsText, LinesInv, LinesTyped
  <2>4. LineRequestGood(y, line, slipped, instance)
    BY <1>1, <1>3, <2>1 DEF LineRequestGood, Makes, Removes
  <2> QED BY <1>1, <1>2, <1>4, <2>1, <2>2, <2>3, <2>4, OnlyAsks DEF Makes, Removes, WritesState
<1>5. ASSUME InstanceTurns(c, "connecting"), slipped \subseteq slipped', slipped' \subseteq Lines, lineFaults' \in 0 .. LineFaults,
             NEW at \in {"webhook", "fail"}, Onto(r, at), at = "webhook" \/ c \in slipped'
      PROVE  LinesInv'
  <2>1. PICK y \in WaStates : wa' = [wa EXCEPT ![r] = y] /\ y.kind = "create" /\ y.at = at /\ y.on = {c}
    <3>1. at \in WaSteps \ {"end"}
      BY DEF WaSteps
    <3> QED BY <1>1, <1>5, <3>1, OntoNext DEF LinesInv
  <2>2. /\ instance' \in [Lines -> StatesOfInstance] /\ instance'[c] = "connecting"
        /\ news' \subseteq Lines \X StatesOfInstance /\ doubtful \subseteq doubtful' /\ doubtful' \subseteq Lines
        /\ \A d \in Lines \ {c} : instance'[d] = instance[d] /\ \A n : n[1] = d => (n \in news' <=> n \in news)
    BY <1>5, InstanceTurned DEF LinesInv, StatesOfInstance
  <2>3. LinesTyped'
    BY <1>2, <1>5, <2>1, <2>2 DEF LinesInv, LinesTyped
  <2>4. TextsAreShown'
    BY <1>1, <1>2, <2>1, BroadcastsStay DEF RecordsText, LinesInv, LinesTyped
  <2>5. LineRequestGood(y, line', slipped', instance')
    BY <1>1, <1>2, <1>3, <1>5, <2>1 DEF LineRequestGood, Makes, Removes
  <2>6. LineGood(c)'
    <3>1. wa'[r] = y /\ \A q \in LineRequests \ {r} : wa'[q] = wa[q]
      BY <2>1 DEF LinesInv, LinesTyped
    <3>2. Lost(c)' \/ NewsAgree(c)'
      BY <1>5, <2>1, <3>1, TurnIsTold DEF LinesInv, WritesState, StatesOfInstance
    <3>3. Held(c)'
      BY <1>5, <2>1, <3>1 DEF Held, Makes
    <3>4. Unfinished(c)'
      BY <1>2 DEF LinesInv, LineGood, Unfinished, LineIsThere
    <3> QED BY <3>2, <3>3, <3>4 DEF LineGood
  <2>7. \A q \in LineRequests \ {r} : ~Makes(wa[q], c)
    BY <1>3 DEF LinesInv, LineMakersApart
  <2>8. ~line[c].inst
    BY <1>3 DEF LineRequestGood
  <2>9. /\ \A d \in Lines \ {c} : /\ line'[d] = line[d] /\ instance'[d] = instance[d]
                                  /\ \A n : n[1] = d => (n \in news' <=> n \in news)
                                  /\ ~Makes(wa[r], d) /\ ~Makes(y, d) /\ ~Removes(wa[r], d) /\ ~WritesState(y, d)
       /\ slipped \subseteq slipped' /\ doubtful \subseteq doubtful'
    BY <1>1, <1>2, <1>5, <2>1, <2>2 DEF Makes, Removes, WritesState
  <2> QED BY <1>2, <1>3, <2>1, <2>3, <2>4, <2>5, <2>6, <2>7, <2>8, <2>9, LineMoves
<1>6. CASE InstanceTurns(c, "connecting") /\ Onto(r, "webhook") /\ UNCHANGED <<lineFaults, slipped>>
  BY <1>5, <1>6 DEF LinesInv, LinesTyped
<1>7. CASE RefusedByProvider /\ InstanceTurns(c, "connecting") /\ Onto(r, "fail") /\ slipped' = slipped \cup {c}
  BY <1>5, <1>7, OneMoreRefusal DEF LinesInv, LinesTyped
<1> QED BY <1>4, <1>6, <1>7 DEF CreateInstance

\* The row holds the instance from here on.
LEMMA FinishCreateStep ==
  ASSUME LinesInv, NEW r \in LineRequests, NEW c \in Lines, FinishCreate(r, c)
  PROVE  LinesInv'
<1> USE DEF atProvider, counts
<1>1. wa[r].kind = "create" /\ wa[r].at \in {"write", "fail"} /\ wa[r].on = {c}
  BY DEF FinishCreate
<1>2. UNCHANGED <<instance, hooked, news, barred, texted, inInbox, unshown, slipped, doubtful, lineFaults, lineEvents>>
  BY DEF FinishCreate
<1>3. LineRequestGood(wa[r], line, slipped, instance) /\ Makes(wa[r], c)
  BY <1>1 DEF LinesInv, LineRequestsGood, Makes
<1>4. line[c].status # "NONE" /\ ~line[c].inst /\ (line[c].gone => c \in slipped)
  BY <1>3 DEF LineRequestGood
<1>5. PICK y \in WaStates : wa' = [wa EXCEPT ![r] = y] /\ y.kind = "done" /\ y.at = "end" /\ y.on = {}
  BY OntoEnd DEF FinishCreate
<1>6. /\ line' \in [Lines -> LineStates] /\ line'[c].gone = line[c].gone /\ \A d \in Lines \ {c} : line'[d] = line[d]
      /\ \/ wa[r].at = "write" /\ line'[c].inst /\ line'[c].status = "QR_REQUIRED"
         \/ wa[r].at = "fail" /\ line'[c].inst = line[c].inst /\ line'[c].status = "ERROR"
  <2>1. CASE wa[r].at = "write" /\ line' = [line EXCEPT ![c].inst = TRUE, ![c].status = "QR_REQUIRED"]
    <3> DEFINE z == [line[c] EXCEPT !.inst = TRUE, !.status = "QR_REQUIRED"]
    <3>1. line[c] \in LineStates
      BY DEF LinesInv, LinesTyped
    <3>2. z \in LineStates /\ z.inst /\ z.status = "QR_REQUIRED" /\ z.gone = line[c].gone
      BY <3>1 DEF LineStates, LineStatuses
    <3>3. line' = [line EXCEPT ![c] = z]
      BY <2>1
    <3> HIDE DEF z
    <3> QED BY <2>1, <3>2, <3>3 DEF LinesInv, LinesTyped
  <2>2. CASE wa[r].at = "fail" /\ MarkLine(c, "ERROR")
    <3>1. "ERROR" \in LineStatuses
      BY DEF LineStatuses
    <3> QED BY <2>2, <3>1, MarkedLine DEF LinesInv
  <2> QED BY <2>1, <2>2 DEF FinishCreate
<1>7. LinesTyped'
  BY <1>2, <1>5, <1>6 DEF LinesInv, LinesTyped
<1>8. TextsAreShown'
  BY <1>1, <1>2, <1>5, BroadcastsStay DEF RecordsText, LinesInv, LinesTyped
<1>9. LineRequestGood(y, line', slipped', instance')
  BY <1>5 DEF LineRequestGood, Makes, Removes
<1>10. \A q \in LineRequests \ {r} : ~Makes(wa[q], c)
  BY <1>3 DEF LinesInv, LineMakersApart
<1>11. wa'[r] = y /\ \A q \in LineRequests \ {r} : wa'[q] = wa[q]
  BY <1>5 DEF LinesInv, LinesTyped
<1>12. LineGood(c)'
  <2>1. Unfinished(c)'
    BY <1>6 DEF Unfinished
  <2>2. Held(c)'
    <3>1. CASE wa[r].at = "write"
      BY <1>2, <1>4, <1>6, <3>1 DEF Held, LineIsThere
    <3>2. CASE wa[r].at = "fail"
      BY <1>2, <1>4, <1>6, <1>10, <3>2 DEF LinesInv, LineGood, Held, LineIsThere
    <3> QED BY <1>1, <3>1, <3>2
  <2>3. Lost(c) => Lost(c)'
    BY <1>1, <1>2, <1>6, <1>11 DEF Lost, Removes
  <2>4. NewsAgree(c) => NewsAgree(c)'
    BY <1>2, <1>5, <1>6, <1>11 DEF NewsAgree, WritesState
  <2> QED BY <2>1, <2>2, <2>3, <2>4 DEF LinesInv, LineGood
<1>13. /\ \A d \in Lines \ {c} : /\ line'[d] = line[d] /\ instance'[d] = instance[d]
                                 /\ \A n : n[1] = d => (n \in news' <=> n \in news)
                                 /\ ~Makes(wa[r], d) /\ ~Makes(y, d) /\ ~Removes(wa[r], d) /\ ~WritesState(y, d)
       /\ slipped \subseteq slipped' /\ doubtful \subseteq doubtful'
  BY <1>1, <1>2, <1>5, <1>6 DEF Makes, Removes, WritesState
<1>14. ~Makes(y, c)
  BY <1>5 DEF Makes
<1>15. /\ line[c].status # "NONE" => line'[c].status # "NONE"
       /\ line[c].inst => line'[c].inst
       /\ line[c].inst /\ instance[c] = "none" => instance'[c] = "none"
       /\ \A q \in LineRequests \ {r} : Makes(wa[q], c) => ~line'[c].inst /\ (line'[c].gone => c \in slipped')
       /\ Makes(y, c) => Makes(wa[r], c) \/ line[c].status = "NONE"
  BY <1>2, <1>4, <1>6, <1>10, <1>14
<1> QED BY <1>5, <1>7, <1>8, <1>9, <1>12, <1>13, <1>15, LineMoves

\* A request that ends and was neither making nor removing a line.
LEMMA OnlyEnds ==
  ASSUME LinesInv, LinesTyped', NEW r \in LineRequests, NEW y, wa' = [wa EXCEPT ![r] = y], y.kind = "done", y.on = {},
         wa[r].kind \notin {"create", "delete"}, ~RecordsText(wa[r]),
         UNCHANGED <<line, instance, news, slipped, doubtful, counts>>
  PROVE  LinesInv'
<1>1. TextsAreShown'
  BY BroadcastsStay DEF RecordsText, LinesInv, LinesTyped
<1>2. LineRequestGood(y, line, slipped, instance)
  BY DEF LineRequestGood, Makes, Removes
<1> QED BY <1>1, <1>2, OnlyAsks DEF Makes, Removes, WritesState

\* A request finds a line that has an instance; one that removes it may find none.
LEMMA FindConnectionStep ==
  ASSUME LinesInv, NEW r \in LineRequests, NEW c \in Lines, NEW kind \in LineKinds, FindConnection(r, kind, c)
  PROVE  LinesInv'
<1> USE DEF atProvider, counts
<1>1. wa[r].kind = "none" /\ LineIsThere(c) /\ wa[r] = Idle
  BY DEF FindConnection, Idle
<1>2. UNCHANGED <<line, instance, hooked, news, barred, texted, inInbox, unshown, slipped, doubtful, lineFaults, lineEvents>>
  BY DEF FindConnection
<1>3. line[c] \in LineStates /\ line[c].status \in LineStatuses
  BY DEF LinesInv, LinesTyped, LineStates
<1>4. CASE kind = "delete"
  <2> DEFINE at == IF line[c].inst THEN "disconnect" ELSE "write"
             y == [Idle EXCEPT !.kind = "delete", !.on = {c}, !.saw = line[c].status, !.at = at]
  <2>1. y \in WaStates /\ y.kind = "delete" /\ y.at = at /\ y.on = {c} /\ y.saw = line[c].status
    BY <1>3 DEF Idle, WaStates, WaSteps, LineKinds
  <2>2. wa' = [wa EXCEPT ![r] = y]
    BY <1>4 DEF FindConnection
  <2> HIDE DEF y
  <2>3. LinesTyped'
    BY <1>2, <2>1, <2>2 DEF LinesInv, LinesTyped
  <2>4. TextsAreShown'
    BY <1>1, <1>2, <2>1, <2>2, BroadcastsStay DEF RecordsText, LinesInv, LinesTyped
  <2>5. LineRequestGood(y, line, slipped, instance)
    <3>1. ~line[c].inst => line[c].status \in {"CREATING", "ERROR"}
      BY <1>1 DEF LinesInv, LineGood, Unfinished
    <3> QED BY <1>3, <2>1, <3>1 DEF LineRequestGood, Makes, Removes
  <2> HIDE DEF at
  <2> QED BY <1>1, <1>2, <2>1, <2>2, <2>3, <2>4, <2>5, OnlyAsks DEF Makes, Removes, WritesState
<1>5. CASE kind # "delete" /\ wa' = [wa EXCEPT ![r] = [Idle EXCEPT !.kind = "done"]]
  <2> DEFINE y == [Idle EXCEPT !.kind = "done"]
  <2>1. y \in WaStates /\ y.kind = "done" /\ y.on = {}
    BY RequestOver
  <2>2. LinesTyped'
    BY <1>2, <1>5, <2>1 DEF LinesInv, LinesTyped
  <2> HIDE DEF y
  <2>3. wa' = [wa EXCEPT ![r] = y]
    BY <1>5 DEF y
  <2> QED BY <1>1, <1>2, <2>1, <2>2, <2>3, OnlyEnds DEF RecordsText
<1>6. ASSUME kind # "delete", line[c].inst, NEW todo \in SUBSET Receivers,
             wa' = [wa EXCEPT ![r] = [Idle EXCEPT !.kind = kind, !.on = {c}, !.at = "call", !.saw = line[c].status, !.todo = todo]]
      PROVE  LinesInv'
  <2> DEFINE y == [Idle EXCEPT !.kind = kind, !.on = {c}, !.at = "call", !.saw = line[c].status, !.todo = todo]
  <2>1. y \in WaStates /\ y.kind = kind /\ y.at = "call" /\ y.on = {c}
    BY <1>3 DEF Idle, WaStates, WaSteps
  <2>2. wa' = [wa EXCEPT ![r] = y]
    BY <1>6
  <2> HIDE DEF y
  <2>3. LinesTyped'
    BY <1>2, <2>1, <2>2 DEF LinesInv, LinesTyped
  <2>4. TextsAreShown'
    BY <1>1, <1>2, <2>1, <2>2, BroadcastsStay DEF RecordsText, LinesInv, LinesTyped
  <2>5. LineRequestGood(y, line, slipped, instance)
    BY <1>6, <2>1 DEF LineRequestGood, Makes, Removes, LineKinds
  <2> QED BY <1>1, <1>2, <1>6, <2>1, <2>2, <2>3, <2>4, <2>5, OnlyAsks DEF Makes, Removes,
      WritesState, LineKinds
<1>7. CASE kind # "delete" /\ wa' # [wa EXCEPT ![r] = [Idle EXCEPT !.kind = "done"]]
  <2> DEFINE todo == IF kind = "broadcast" THEN Receivers ELSE {}
  <2>1. todo \in SUBSET Receivers
    OBVIOUS
  <2>2. line[c].inst /\ wa' = [wa EXCEPT ![r] = [Idle EXCEPT !.kind = kind, !.on = {c}, !.at = "call", !.saw = line[c].status, !.todo = todo]]
    BY <1>7 DEF FindConnection
  <2> HIDE DEF todo
  <2> QED BY <1>6, <1>7, <2>1, <2>2
<1> QED BY <1>4, <1>5, <1>7

\* What the provider answers is the state the instance is in, or an error.
LEMMA AskStateStep ==
  ASSUME LinesInv, NEW r \in LineRequests, NEW c \in Lines, AskState(r, c)
  PROVE  LinesInv'
<1> USE DEF atProvider, counts
<1>1. wa[r].kind = "status" /\ wa[r].on = {c} /\ wa[r] \in WaStates
  BY DEF AskState, AtLine, LinesInv, LinesTyped
<1>2. UNCHANGED <<line, instance, hooked, news, barred, texted, inInbox, unshown, slipped, doubtful, lineEvents>>
      /\ lineFaults' \in 0 .. LineFaults
  BY OneMoreRefusal DEF AskState, LinesInv, LinesTyped
<1>3. PICK status \in {StatusFrom[instance[c]], "ERROR"} :
        IF status = wa[r].saw THEN Onto(r, "end") ELSE wa' = [wa EXCEPT ![r].at = "write", ![r].saw = status]
  BY DEF AskState
<1>4. status \in {"CONNECTING", "CONNECTED", "DISCONNECTED", "ERROR"}
  <2>1. instance[c] \in StatesOfInstance
    BY DEF LinesInv, LinesTyped
  <2> QED BY <2>1, StatusIs DEF StatesOfInstance
<1>5. CASE status = wa[r].saw
  <2>1. PICK y \in WaStates : wa' = [wa EXCEPT ![r] = y] /\ y.kind = "done" /\ y.at = "end" /\ y.on = {}
    BY <1>3, <1>5, OntoEnd
  <2>2. LinesTyped'
    BY <1>2, <2>1 DEF LinesInv, LinesTyped
  <2> QED BY <1>1, <1>2, <2>1, <2>2, OnlyEnds DEF RecordsText
<1>6. CASE status # wa[r].saw
  <2> DEFINE y == [wa[r] EXCEPT !.at = "write", !.saw = status]
  <2>1. y \in WaStates /\ y.kind = "status" /\ y.at = "write" /\ y.on = {c} /\ y.saw = status
    BY <1>1, <1>4 DEF WaStates, WaSteps, LineStatuses
  <2>2. wa' = [wa EXCEPT ![r] = y]
    BY <1>3, <1>6
  <2> HIDE DEF y
  <2>3. LinesTyped'
    BY <1>2, <2>1, <2>2 DEF LinesInv, LinesTyped
  <2>4. TextsAreShown'
    BY <1>1, <1>2, <2>1, <2>2, BroadcastsStay DEF RecordsText, LinesInv, LinesTyped
  <2>5. LineRequestGood(y, line, slipped, instance)
    <3>1. LineRequestGood(wa[r], line, slipped, instance)
      BY DEF LinesInv, LineRequestsGood
    <3> QED BY <1>1, <1>4, <2>1, <3>1 DEF LineRequestGood, Makes, Removes
  <2>6. \A d \in Lines : WritesState(y, d) => y.saw \in {StatusFrom[instance[d]], "ERROR"}
    BY <1>3, <2>1 DEF WritesState
  <2> QED BY <1>1, <1>2, <2>1, <2>2, <2>3, <2>4, <2>5, <2>6, OnlyAsks DEF Makes, Removes
<1> QED BY <1>5, <1>6

\* A request that ends with another status of its line.
LEMMA MarksAndEnds ==
  ASSUME LinesInv, NEW r \in LineRequests, NEW c \in Lines, NEW status \in LineStatuses \ {"NONE"}, MarkLine(c, status),
         Onto(r, "end"), wa[r].on = {c}, wa[r].kind \notin {"create", "delete"}, ~RecordsText(wa[r]), wa[r].kind \notin {"none", "done"},
         status = "CONNECTED" => Lost(c) \/ instance[c] = "open",
         UNCHANGED <<atProvider, barred, counts, slipped, doubtful, lineFaults, lineEvents>>
  PROVE  LinesInv'
<1> USE DEF atProvider, counts
<1>1. PICK y \in WaStates : wa' = [wa EXCEPT ![r] = y] /\ y.kind = "done" /\ y.at = "end" /\ y.on = {}
  BY OntoEnd
<1>2. /\ line' \in [Lines -> LineStates] /\ line'[c].status = status /\ line'[c].inst = line[c].inst
      /\ line'[c].gone = line[c].gone /\ \A d \in Lines \ {c} : line'[d] = line[d]
  BY MarkedLine DEF LinesInv
<1>3. line[c].inst /\ line[c].status # "NONE"
  <2>1. LineRequestGood(wa[r], line, slipped, instance) /\ Unfinished(c)
    BY DEF LinesInv, LineRequestsGood, LineGood
  <2> QED BY <2>1 DEF LineRequestGood, Unfinished
<1>4. LinesTyped'
  BY <1>1, <1>2 DEF LinesInv, LinesTyped
<1>5. TextsAreShown'
  BY <1>1, BroadcastsStay DEF RecordsText, LinesInv, LinesTyped
<1>6. LineRequestGood(y, line', slipped', instance')
  BY <1>1 DEF LineRequestGood, Makes, Removes
<1>7. wa'[r] = y /\ \A q \in LineRequests \ {r} : wa'[q] = wa[q]
  BY <1>1 DEF LinesInv, LinesTyped
<1>8. LineGood(c)'
  <2>1. Unfinished(c)'
    BY <1>2, <1>3 DEF Unfinished
  <2>2. Held(c)'
    BY <1>2, <1>3, <1>7 DEF LinesInv, LineGood, Held, LineIsThere, Makes
  <2>3. Lost(c) => Lost(c)'
    BY <1>2, <1>7 DEF Lost, Removes
  <2>4. NewsAgree(c) /\ ~Lost(c) => NewsAgree(c)'
    BY <1>1, <1>2, <1>7 DEF NewsAgree, WritesState
  <2> QED BY <2>1, <2>2, <2>3, <2>4 DEF LinesInv, LineGood
<1>9. /\ \A d \in Lines \ {c} : /\ line'[d] = line[d] /\ instance'[d] = instance[d]
                                /\ \A n : n[1] = d => (n \in news' <=> n \in news)
                                /\ ~Makes(wa[r], d) /\ ~Makes(y, d) /\ ~Removes(wa[r], d) /\ ~WritesState(y, d)
      /\ slipped \subseteq slipped' /\ doubtful \subseteq doubtful'
  BY <1>1, <1>2 DEF Makes, Removes, WritesState
<1>10. \A q \in LineRequests : ~Makes(wa[q], c)
  BY <1>3 DEF LinesInv, LineRequestsGood, LineRequestGood
<1>11. ~Makes(y, c) /\ line'[c].status # "NONE" /\ line'[c].inst /\ (instance[c] = "none" => instance'[c] = "none")
  BY <1>1, <1>2, <1>3 DEF Makes
<1> QED BY <1>1, <1>4, <1>5, <1>6, <1>8, <1>9, <1>10, <1>11, LineMoves

\* It is so still when it is written, or the line is doubtful.
LEMMA WriteStateStep ==
  ASSUME LinesInv, NEW r \in LineRequests, NEW c \in Lines, WriteState(r, c)
  PROVE  LinesInv'
<1>1. wa[r].kind = "status" /\ wa[r].at = "write" /\ wa[r].on = {c} /\ WritesState(wa[r], c)
  BY DEF WriteState, AtLine, WritesState
<1>2. wa[r].saw \in {"CONNECTING", "CONNECTED", "DISCONNECTED", "ERROR"}
  BY <1>1 DEF LinesInv, LineRequestsGood, LineRequestGood
<1>3. wa[r].saw \in LineStatuses \ {"NONE"}
  BY <1>2 DEF LineStatuses
<1>4. wa[r].saw = "CONNECTED" => Lost(c) \/ instance[c] = "open"
  <2> SUFFICES ASSUME wa[r].saw = "CONNECTED", NewsAgree(c) PROVE instance[c] = "open"
    BY DEF LinesInv, LineGood
  <2>1. wa[r].saw \in {StatusFrom[instance[c]], "ERROR"}
    BY <1>1 DEF NewsAgree
  <2>2. instance[c] \in StatesOfInstance
    BY DEF LinesInv, LinesTyped
  <2> QED BY <2>1, <2>2, StatusIs DEF StatesOfInstance
<1> QED BY <1>1, <1>3, <1>4, MarksAndEnds DEF WriteState, RecordsText

\* CONNECTING promises nothing.
LEMMA MarkConnectingStep ==
  ASSUME LinesInv, NEW r \in LineRequests, NEW c \in Lines, MarkConnecting(r, c)
  PROVE  LinesInv'
<1>1. wa[r].kind = "reconnect" /\ wa[r].on = {c} /\ "CONNECTING" \in LineStatuses \ {"NONE"}
  BY DEF MarkConnecting, AtLine, LineStatuses
<1> QED BY <1>1, MarksAndEnds DEF MarkConnecting, RecordsText

\* The webhook of a line that is there.
LEMMA ConfigureWebhookStep ==
  ASSUME LinesInv, NEW r \in LineRequests, NEW c \in Lines, ConfigureWebhook(r, c)
  PROVE  LinesInv'
<1> USE DEF atProvider, counts
<1>1. PICK y \in WaStates : wa' = [wa EXCEPT ![r] = y] /\ y.kind = "done" /\ y.at = "end" /\ y.on = {}
  BY OntoEnd DEF ConfigureWebhook
<1>2. hooked' \subseteq Lines /\ lineFaults' \in 0 .. LineFaults
  BY OneMoreRefusal DEF ConfigureWebhook, LinesInv, LinesTyped
<1>3. LinesTyped'
  BY <1>1, <1>2 DEF ConfigureWebhook, LinesInv, LinesTyped
<1>4. wa[r].kind = "hook"
  BY DEF ConfigureWebhook, AtLine
<1> QED BY <1>1, <1>3, <1>4, OnlyEnds DEF ConfigureWebhook, RecordsText

\* A text that is sent to one.
LEMMA SendDirectlyStep ==
  ASSUME LinesInv, NEW r \in LineRequests, SendDirectly(r)
  PROVE  LinesInv'
<1> USE DEF atProvider, counts
<1>1. PICK y \in WaStates : wa' = [wa EXCEPT ![r] = y] /\ y.kind = "done" /\ y.at = "end" /\ y.on = {}
  BY OntoEnd DEF SendDirectly
<1>2. LinesTyped'
  BY <1>1 DEF SendDirectly, LinesInv, LinesTyped
<1>3. wa[r].kind = "send"
  BY DEF SendDirectly, AtLine
<1> QED BY <1>1, <1>2, <1>3, OnlyEnds DEF SendDirectly, RecordsText

\* A broadcast that has nobody left.
LEMMA EndBroadcastStep ==
  ASSUME LinesInv, NEW r \in LineRequests, EndBroadcast(r)
  PROVE  LinesInv'
<1> USE DEF atProvider, counts
<1>1. PICK y \in WaStates : wa' = [wa EXCEPT ![r] = y] /\ y.kind = "done" /\ y.at = "end" /\ y.on = {}
  BY OntoEnd DEF EndBroadcast
<1>2. LinesTyped'
  BY <1>1 DEF EndBroadcast, LinesInv, LinesTyped
<1>3. wa[r].kind = "broadcast" /\ wa[r].at = "call"
  BY DEF EndBroadcast, AtLine
<1> QED BY <1>1, <1>2, <1>3, OnlyEnds DEF EndBroadcast, RecordsText

\* A request on a line turns its instance: what it was held by holds it still.
LEMMA TurnsInstance ==
  ASSUME LinesInv, NEW r \in LineRequests, NEW c \in Lines, NEW state \in StatesOfInstance, InstanceTurns(c, state),
         NEW y \in WaStates, wa' = [wa EXCEPT ![r] = y], wa[r].on = {c}, y.on \in {{}, {c}}, instance[c] # "none",
         ~Makes(wa[r], c), ~Makes(y, c), ~WritesState(y, c), Removes(wa[r], c) => Removes(y, c), ~RecordsText(wa[r]), ~RecordsText(y),
         LineRequestGood(y, line', slipped', instance'),
         UNCHANGED <<line, hooked, barred, counts, slipped, lineEvents>>, lineFaults' \in 0 .. LineFaults
  PROVE  LinesInv'
<1> USE DEF counts
<1>1. /\ instance' \in [Lines -> StatesOfInstance] /\ instance'[c] = state
      /\ news' \subseteq Lines \X StatesOfInstance /\ doubtful \subseteq doubtful' /\ doubtful' \subseteq Lines
      /\ \A d \in Lines \ {c} : instance'[d] = instance[d] /\ \A n : n[1] = d => (n \in news' <=> n \in news)
  BY InstanceTurned DEF LinesInv
<1>2. LinesTyped'
  BY <1>1 DEF LinesInv, LinesTyped
<1>3. TextsAreShown'
  BY BroadcastsStay DEF LinesInv, LinesTyped
<1>4. wa'[r] = y /\ \A q \in LineRequests \ {r} : wa'[q] = wa[q]
  BY DEF LinesInv, LinesTyped
<1>5. LineGood(c)'
  <2>1. Lost(c)' \/ NewsAgree(c)'
    BY <1>4, TurnIsTold DEF LinesInv
  <2>2. Held(c)'
    BY <1>4 DEF LinesInv, LineGood, Held, LineIsThere
  <2>3. Unfinished(c)'
    BY DEF LinesInv, LineGood, Unfinished, LineIsThere
  <2> QED BY <2>1, <2>2, <2>3 DEF LineGood
<1>6. /\ \A d \in Lines \ {c} : /\ line'[d] = line[d] /\ instance'[d] = instance[d]
                                /\ \A n : n[1] = d => (n \in news' <=> n \in news)
                                /\ ~Makes(wa[r], d) /\ ~Makes(y, d) /\ ~Removes(wa[r], d) /\ ~WritesState(y, d)
      /\ slipped \subseteq slipped' /\ doubtful \subseteq doubtful'
  BY <1>1 DEF Makes, Removes, WritesState
<1>7. \A q \in LineRequests \ {r} : Makes(wa[q], c) => ~line'[c].inst /\ (line'[c].gone => c \in slipped')
  BY DEF LinesInv, LineRequestsGood, LineRequestGood
<1> QED BY <1>2, <1>3, <1>5, <1>6, <1>7, LineMoves

\* An instance that was closed connects again, which is reported.
LEMMA RequestQrCodeStep ==
  ASSUME LinesInv, NEW r \in LineRequests, NEW c \in Lines, RequestQrCode(r, c)
  PROVE  LinesInv'
<1> USE DEF atProvider, counts
<1>1. wa[r].kind \in {"qr", "reconnect"} /\ wa[r].at = "call" /\ wa[r].on = {c}
  BY DEF RequestQrCode
<1>2. UNCHANGED <<line, hooked, barred, texted, inInbox, unshown, slipped, lineEvents>> /\ lineFaults' \in 0 .. LineFaults
  BY OneMoreRefusal DEF RequestQrCode, LinesInv, LinesTyped
<1>3. LineRequestGood(wa[r], line, slipped, instance)
  BY DEF LinesInv, LineRequestsGood
<1>4. PICK at \in {"end", "mark"} :
        /\ Onto(r, at)
        /\ (instance[c] = "close" /\ InstanceTurns(c, "connecting")) \/ UNCHANGED <<instance, news, doubtful>>
  BY <1>1 DEF RequestQrCode
<1>5. PICK y \in WaStates : /\ wa' = [wa EXCEPT ![r] = y]
                            /\ (y.kind = "done" /\ y.on = {}) \/ (y.kind = wa[r].kind /\ y.at = "mark" /\ y.on = {c})
  <2>1. CASE at = "end"
    BY <1>4, <2>1, OntoEnd
  <2>2. CASE at = "mark"
    <3>1. "mark" \in WaSteps \ {"end"}
      BY DEF WaSteps
    <3> QED BY <1>1, <1>4, <2>2, <3>1, OntoNext DEF LinesInv
  <2> QED BY <2>1, <2>2
<1>6. LineRequestGood(y, line, slipped, instance) /\ LineRequestGood(y, line', slipped', instance')
  BY <1>1, <1>2, <1>3, <1>5 DEF LineRequestGood, Makes, Removes
<1>7. ~Makes(wa[r], c) /\ ~Makes(y, c) /\ ~WritesState(y, c) /\ ~Removes(wa[r], c) /\ ~RecordsText(wa[r]) /\ ~RecordsText(y)
  BY <1>1, <1>5 DEF Makes, WritesState, Removes, RecordsText
<1>8. CASE instance[c] = "close" /\ InstanceTurns(c, "connecting")
  <2>1. "connecting" \in StatesOfInstance /\ y.on \in {{}, {c}}
    BY <1>5 DEF StatesOfInstance
  <2> QED BY <1>1, <1>2, <1>5, <1>6, <1>7, <1>8, <2>1, TurnsInstance
<1>9. CASE UNCHANGED <<instance, news, doubtful>>
  <2>1. LinesTyped'
    BY <1>2, <1>5, <1>9 DEF LinesInv, LinesTyped
  <2>2. TextsAreShown'
    BY <1>2, <1>5, <1>7, BroadcastsStay DEF LinesInv, LinesTyped
  <2> QED BY <1>1, <1>2, <1>5, <1>6, <1>9, <2>1, <2>2, OnlyAsks DEF Makes, Removes, WritesState
<1> QED BY <1>4, <1>8, <1>9

\* The instance is closed, or the line has slipped.
LEMMA DisconnectStep ==
  ASSUME LinesInv, NEW r \in LineRequests, NEW c \in Lines, DisconnectInstance(r, c)
  PROVE  LinesInv'
<1> USE DEF atProvider, counts
<1>1. wa[r].kind = "delete" /\ wa[r].at = "disconnect" /\ wa[r].on = {c} /\ Removes(wa[r], c)
  BY DEF DisconnectInstance, AtLine, Removes
<1>2. UNCHANGED <<line, hooked, barred, texted, inInbox, unshown, lineEvents>> /\ lineFaults' \in 0 .. LineFaults
      /\ slipped \subseteq slipped' /\ slipped' \subseteq Lines
  BY OneMoreRefusal DEF DisconnectInstance, LinesInv, LinesTyped
<1>3. line[c].inst
  BY <1>1 DEF LinesInv, LineRequestsGood, LineRequestGood
<1>4. PICK at \in {"deleteInstance", "write"} :
        /\ Onto(r, at)
        /\ at = "write" => UNCHANGED <<instance, news, doubtful>> /\ (instance[c] = "none" \/ c \in slipped')
        /\ at = "deleteInstance" =>
             /\ UNCHANGED slipped
             /\ UNCHANGED <<instance, news, doubtful>> \/ (instance[c] # "none" /\ InstanceTurns(c, "close"))
  BY DEF DisconnectInstance
<1>5. PICK y \in WaStates : wa' = [wa EXCEPT ![r] = y] /\ y.kind = "delete" /\ y.at = at /\ y.on = {c}
  <2>1. at \in WaSteps \ {"end"}
    BY DEF WaSteps
  <2> QED BY <1>1, <1>4, <2>1, OntoNext DEF LinesInv
<1>6. LineRequestGood(y, line', slipped', instance')
  BY <1>2, <1>3, <1>4, <1>5 DEF LineRequestGood, Makes, Removes
<1>7. CASE UNCHANGED <<instance, news, doubtful>>
  <2>1. LinesTyped'
    BY <1>2, <1>5, <1>7 DEF LinesInv, LinesTyped
  <2>2. TextsAreShown'
    BY <1>1, <1>2, <1>5, BroadcastsStay DEF RecordsText, LinesInv, LinesTyped
  <2>3. wa'[r] = y /\ \A q \in LineRequests \ {r} : wa'[q] = wa[q]
    BY <1>5 DEF LinesInv, LinesTyped
  <2>4. LineGood(c)'
    <3>1. Lost(c)'
      BY <1>5, <2>3 DEF Lost, Removes
    <3>2. Held(c)'
      BY <1>1, <1>2, <1>7, <2>3 DEF LinesInv, LineGood, Held, LineIsThere, Makes
    <3>3. Unfinished(c)'
      BY <1>2 DEF LinesInv, LineGood, Unfinished, LineIsThere
    <3> QED BY <3>1, <3>2, <3>3 DEF LineGood
  <2>5. /\ \A d \in Lines \ {c} : /\ line'[d] = line[d] /\ instance'[d] = instance[d]
                                  /\ \A n : n[1] = d => (n \in news' <=> n \in news)
                                  /\ ~Makes(wa[r], d) /\ ~Makes(y, d) /\ ~Removes(wa[r], d) /\ ~WritesState(y, d)
        /\ slipped \subseteq slipped' /\ doubtful \subseteq doubtful'
    BY <1>1, <1>2, <1>5, <1>7 DEF Makes, Removes, WritesState
  <2>6. \A q \in LineRequests : ~Makes(wa[q], c)
    BY <1>3 DEF LinesInv, LineRequestsGood, LineRequestGood
  <2>7. ~Makes(y, c)
    BY <1>5 DEF Makes
  <2> QED BY <1>2, <1>5, <1>6, <1>7, <2>1, <2>2, <2>4, <2>5, <2>6, <2>7, LineMoves
<1>8. CASE instance[c] # "none" /\ InstanceTurns(c, "close") /\ at = "deleteInstance"
  <2>1. "close" \in StatesOfInstance
    BY DEF StatesOfInstance
  <2>2. ~Makes(wa[r], c) /\ ~Makes(y, c) /\ ~WritesState(y, c) /\ Removes(y, c) /\ ~RecordsText(wa[r]) /\ ~RecordsText(y)
    BY <1>1, <1>5 DEF Makes, WritesState, Removes, RecordsText
  <2> QED BY <1>1, <1>2, <1>4, <1>5, <1>6, <1>8, <2>1, <2>2, TurnsInstance
<1> QED BY <1>4, <1>7, <1>8

\* The instance is gone, or the line has slipped.
LEMMA DeleteInstanceStep ==
  ASSUME LinesInv, NEW r \in LineRequests, NEW c \in Lines, DeleteInstance(r, c)
  PROVE  LinesInv'
<1> USE DEF atProvider, counts
<1>1. wa[r].kind = "delete" /\ wa[r].at = "deleteInstance" /\ wa[r].on = {c} /\ Removes(wa[r], c)
  BY DEF DeleteInstance, AtLine, Removes
<1>2. UNCHANGED <<line, news, barred, texted, inInbox, unshown, doubtful, lineEvents>> /\ lineFaults' \in 0 .. LineFaults
      /\ slipped \subseteq slipped' /\ slipped' \subseteq Lines /\ hooked' \subseteq Lines
  BY OneMoreRefusal DEF DeleteInstance, LinesInv, LinesTyped
<1>3. line[c].inst
  BY <1>1 DEF LinesInv, LineRequestsGood, LineRequestGood
<1>4. /\ instance' \in [Lines -> StatesOfInstance] /\ \A d \in Lines \ {c} : instance'[d] = instance[d]
      /\ instance'[c] = "none" \/ (instance' = instance /\ c \in slipped')
  <2>1. CASE instance' = [instance EXCEPT ![c] = "none"]
    BY <2>1 DEF LinesInv, LinesTyped, StatesOfInstance
  <2>2. CASE slipped' = slipped \cup {c} /\ UNCHANGED instance
    BY <2>2 DEF LinesInv, LinesTyped
  <2> QED BY <2>1, <2>2 DEF DeleteInstance
<1>5. PICK y \in WaStates : wa' = [wa EXCEPT ![r] = y] /\ y.kind = "delete" /\ y.at = "write" /\ y.on = {c}
  <2>1. Onto(r, "write") /\ "write" \in WaSteps \ {"end"}
    BY DEF DeleteInstance, WaSteps
  <2> QED BY <1>1, <2>1, OntoNext DEF LinesInv
<1>6. LineRequestGood(y, line', slipped', instance')
  BY <1>2, <1>3, <1>4, <1>5 DEF LineRequestGood, Makes, Removes
<1>7. LinesTyped'
  BY <1>2, <1>4, <1>5 DEF LinesInv, LinesTyped
<1>8. TextsAreShown'
  BY <1>1, <1>2, <1>5, BroadcastsStay DEF RecordsText, LinesInv, LinesTyped
<1>9. wa'[r] = y /\ \A q \in LineRequests \ {r} : wa'[q] = wa[q]
  BY <1>5 DEF LinesInv, LinesTyped
<1>10. LineGood(c)'
  <2>1. Lost(c)'
    BY <1>5, <1>9 DEF Lost, Removes
  <2>2. Held(c)'
    BY <1>4 DEF Held
  <2>3. Unfinished(c)'
    BY <1>2 DEF LinesInv, LineGood, Unfinished, LineIsThere
  <2> QED BY <2>1, <2>2, <2>3 DEF LineGood
<1>11. /\ \A d \in Lines \ {c} : /\ line'[d] = line[d] /\ instance'[d] = instance[d]
                                 /\ \A n : n[1] = d => (n \in news' <=> n \in news)
                                 /\ ~Makes(wa[r], d) /\ ~Makes(y, d) /\ ~Removes(wa[r], d) /\ ~WritesState(y, d)
       /\ slipped \subseteq slipped' /\ doubtful \subseteq doubtful'
  BY <1>1, <1>2, <1>4, <1>5 DEF Makes, Removes, WritesState
<1>12. \A q \in LineRequests : ~Makes(wa[q], c)
  BY <1>3 DEF LinesInv, LineRequestsGood, LineRequestGood
<1>13. /\ line[c].status # "NONE" => line'[c].status # "NONE"
       /\ line[c].inst => line'[c].inst
       /\ line[c].inst /\ instance[c] = "none" => instance'[c] = "none"
       /\ ~Makes(y, c)
  BY <1>2, <1>4, <1>5 DEF Makes
<1> QED BY <1>5, <1>6, <1>7, <1>8, <1>10, <1>11, <1>12, <1>13, LineMoves

\* The row goes once its instance has gone, or the line has slipped.
LEMMA RemoveRowStep ==
  ASSUME LinesInv, NEW r \in LineRequests, NEW c \in Lines, RemoveRow(r, c)
  PROVE  LinesInv'
<1> USE DEF atProvider, counts
<1>1. wa[r].kind = "delete" /\ wa[r].at = "write" /\ wa[r].on = {c} /\ Removes(wa[r], c)
  BY DEF RemoveRow, AtLine, Removes
<1>2. UNCHANGED <<instance, hooked, news, barred, texted, inInbox, unshown, doubtful, lineFaults, lineEvents>>
      /\ slipped \subseteq slipped' /\ slipped' \subseteq Lines /\ (wa[r].saw \in {"CREATING", "ERROR"} => c \in slipped')
  BY DEF RemoveRow, LinesInv, LinesTyped
<1>3. LineRequestGood(wa[r], line, slipped, instance)
  BY DEF LinesInv, LineRequestsGood
<1>4. /\ wa[r].saw \notin {"CREATING", "ERROR"} => line[c].inst
      /\ wa[r].saw \in {"CREATING", "ERROR"} \/ c \in slipped \/ instance[c] = "none"
  BY <1>1, <1>3 DEF LineRequestGood
<1>5. PICK y \in WaStates : wa' = [wa EXCEPT ![r] = y] /\ y.kind = "done" /\ y.at = "end" /\ y.on = {}
  BY OntoEnd DEF RemoveRow
<1>6. /\ line' \in [Lines -> LineStates] /\ line'[c].inst = line[c].inst /\ line'[c].gone /\ line'[c].status = "DISCONNECTED"
      /\ \A d \in Lines \ {c} : line'[d] = line[d]
  <2> DEFINE z == [line[c] EXCEPT !.status = "DISCONNECTED", !.gone = TRUE]
  <2>1. line[c] \in LineStates
    BY DEF LinesInv, LinesTyped
  <2>2. z \in LineStates /\ z.gone /\ z.status = "DISCONNECTED" /\ z.inst = line[c].inst
    BY <2>1 DEF LineStates, LineStatuses
  <2>3. line' = [line EXCEPT ![c] = z]
    BY DEF RemoveRow
  <2> HIDE DEF z
  <2> QED BY <2>2, <2>3 DEF LinesInv, LinesTyped
<1>7. LinesTyped'
  BY <1>2, <1>5, <1>6 DEF LinesInv, LinesTyped
<1>8. TextsAreShown'
  BY <1>1, <1>2, <1>5, BroadcastsStay DEF RecordsText, LinesInv, LinesTyped
<1>9. LineRequestGood(y, line', slipped', instance')
  BY <1>5 DEF LineRequestGood, Makes, Removes
<1>10. LineGood(c)'
  <2>1. Lost(c)'
    BY <1>6 DEF Lost
  <2>2. Held(c)'
    BY <1>2, <1>4 DEF Held
  <2>3. Unfinished(c)'
    BY <1>6 DEF Unfinished, LineIsThere
  <2> QED BY <2>1, <2>2, <2>3 DEF LineGood
<1>11. /\ \A d \in Lines \ {c} : /\ line'[d] = line[d] /\ instance'[d] = instance[d]
                                 /\ \A n : n[1] = d => (n \in news' <=> n \in news)
                                 /\ ~Makes(wa[r], d) /\ ~Makes(y, d) /\ ~Removes(wa[r], d) /\ ~WritesState(y, d)
       /\ slipped \subseteq slipped' /\ doubtful \subseteq doubtful'
  BY <1>1, <1>2, <1>5, <1>6 DEF Makes, Removes, WritesState
<1>12. ASSUME NEW q \in LineRequests \ {r}, Makes(wa[q], c) PROVE ~line'[c].inst /\ c \in slipped'
  <2>1. ~line[c].inst
    BY <1>12 DEF LinesInv, LineRequestsGood, LineRequestGood
  <2> QED BY <1>2, <1>4, <1>6, <2>1
<1>13. ~Makes(y, c) /\ line'[c].status # "NONE" /\ (instance[c] = "none" => instance'[c] = "none")
  BY <1>2, <1>5, <1>6 DEF Makes
<1> QED BY <1>5, <1>6, <1>7, <1>8, <1>9, <1>10, <1>11, <1>12, <1>13, LineMoves

-----------------------------------------------------------------------------
(* Broadcasts *)

\* A receiver passes the gate, or is left out.
LEMMA CheckGateStep ==
  ASSUME LinesInv, NEW r \in LineRequests, NEW p \in Receivers, CheckGate(r, p)
  PROVE  LinesInv'
<1> USE DEF atProvider, counts
<1>1. wa[r].kind = "broadcast" /\ wa[r].at = "call" /\ wa[r] \in WaStates
  BY DEF CheckGate, AtLine, LinesInv, LinesTyped
<1>2. UNCHANGED <<line, instance, hooked, news, barred, texted, inInbox, unshown, slipped, doubtful, lineFaults, lineEvents>>
  BY DEF CheckGate
<1>3. PICK y \in WaStates : wa' = [wa EXCEPT ![r] = y] /\ y.kind = "broadcast" /\ y.at \in {"call", "text"} /\ y.on = wa[r].on
  <2>1. CASE p \in barred \/ inInbox[p] > 0
    <3> DEFINE y == [wa[r] EXCEPT !.todo = @ \ {p}]
    <3>1. y \in WaStates /\ y.kind = wa[r].kind /\ y.at = wa[r].at /\ y.on = wa[r].on
      BY <1>1 DEF WaStates
    <3>2. wa' = [wa EXCEPT ![r] = y]
      BY <2>1 DEF CheckGate
    <3> QED BY <1>1, <3>1, <3>2
  <2>2. CASE ~(p \in barred \/ inInbox[p] > 0)
    <3> DEFINE y == [wa[r] EXCEPT !.at = "text", !.saw = p]
    <3>1. y \in WaStates /\ y.kind = wa[r].kind /\ y.at = "text" /\ y.on = wa[r].on
      BY <1>1 DEF WaStates, WaSteps
    <3>2. wa' = [wa EXCEPT ![r] = y]
      BY <2>2 DEF CheckGate
    <3> QED BY <1>1, <3>1, <3>2
  <2> QED BY <2>1, <2>2
<1>4. LinesTyped'
  BY <1>2, <1>3 DEF LinesInv, LinesTyped
<1>5. TextsAreShown'
  BY <1>1, <1>2, <1>3, BroadcastsStay DEF RecordsText, LinesInv, LinesTyped
<1>6. LineRequestGood(y, line, slipped, instance)
  <2>1. LineRequestGood(wa[r], line, slipped, instance)
    BY DEF LinesInv, LineRequestsGood
  <2> QED BY <1>1, <1>3, <2>1 DEF LineRequestGood, Makes, Removes
<1> QED BY <1>1, <1>2, <1>3, <1>4, <1>5, <1>6, OnlyAsks DEF Makes, Removes, WritesState

\* The broadcasts that have a text to record are requests, and can be counted.
LEMMA RecordingIsFinite ==
  ASSUME NEW p \in Receivers
  PROVE  Recording(p) \subseteq LineRequests /\ IsFiniteSet(Recording(p)) /\ Cardinality(Recording(p)) \in Nat
<1>1. Recording(p) \subseteq LineRequests
  BY DEF Recording
<1> QED BY <1>1, LinesAssumption, FS_Subset, FS_CardinalityType

\* A text more, and a request that is to record it.
LEMMA BroadcastTextStep ==
  ASSUME LinesInv, NEW r \in LineRequests, NEW p \in Receivers, NEW c \in Lines, BroadcastText(r, p, c)
  PROVE  LinesInv'
<1> USE DEF atProvider
<1>1. /\ wa[r].kind = "broadcast" /\ wa[r].at = "text" /\ wa[r].saw = p /\ wa[r].on = {c} /\ wa[r] \in WaStates
      /\ LineRequestGood(wa[r], line, slipped, instance)
  BY DEF BroadcastText, AtLine, LinesInv, LinesTyped, LineRequestsGood
<1>2. UNCHANGED <<line, instance, hooked, news, barred, inInbox, unshown, slipped, doubtful, lineEvents>>
      /\ lineFaults' \in 0 .. LineFaults
  BY OneMoreRefusal DEF BroadcastText, LinesInv, LinesTyped
<1>3. CASE wa' = [wa EXCEPT ![r].at = "call", ![r].todo = @ \ {p}] /\ UNCHANGED texted
  <2> DEFINE y == [wa[r] EXCEPT !.at = "call", !.todo = wa[r].todo \ {p}]
  <2>1. y \in WaStates /\ y.kind = "broadcast" /\ y.at = "call" /\ y.on = {c}
    BY <1>1 DEF WaStates, WaSteps
  <2>2. wa' = [wa EXCEPT ![r] = y]
    BY <1>3
  <2> HIDE DEF y
  <2>3. LinesTyped'
    BY <1>2, <1>3, <2>1, <2>2 DEF LinesInv, LinesTyped
  <2>4. TextsAreShown'
    BY <1>1, <1>2, <1>3, <2>1, <2>2, BroadcastsStay DEF RecordsText, LinesInv, LinesTyped, counts
  <2>5. LineRequestGood(y, line, slipped, instance)
    BY <1>1, <2>1 DEF LineRequestGood, Makes, Removes
  <2> QED BY <1>1, <1>2, <2>1, <2>2, <2>3, <2>4, <2>5, OnlyAsks DEF Makes, Removes, WritesState
<1>4. CASE wa' = [wa EXCEPT ![r].at = "record"] /\ texted' = [texted EXCEPT ![p] = @ + 1]
  <2> DEFINE y == [wa[r] EXCEPT !.at = "record"]
  <2>1. y \in WaStates /\ y.kind = "broadcast" /\ y.at = "record" /\ y.on = {c} /\ y.saw = p
    BY <1>1 DEF WaStates, WaSteps
  <2>2. wa' = [wa EXCEPT ![r] = y]
    BY <1>4
  <2> HIDE DEF y
  <2>3. LinesTyped'
    BY <1>2, <1>4, <2>1, <2>2 DEF LinesInv, LinesTyped
  <2>4. \A q \in LineRequests : wa'[q] = IF q = r THEN y ELSE wa[q]
    BY <2>2 DEF LinesInv, LinesTyped
  <2>5. \A o \in Receivers : o = p => Recording(o)' = Recording(o) \cup {r} /\ r \notin Recording(o)
    BY <1>1, <2>1, <2>4 DEF Recording, AtLine
  <2>6. \A o \in Receivers \ {p} : Recording(o)' = Recording(o)
    BY <1>1, <2>1, <2>4 DEF Recording, AtLine
  <2>7. \A o \in Receivers : o = p => Cardinality(Recording(o) \cup {r}) = Cardinality(Recording(o)) + 1
    BY <2>5, RecordingIsFinite, FS_AddElement
  <2>8. TextsAreShown'
    <3> SUFFICES ASSUME NEW o \in Receivers
                 PROVE  texted'[o] = inInbox'[o] + unshown'[o] + Cardinality(Recording(o)')
      BY DEF TextsAreShown
    <3>1. texted[o] = inInbox[o] + unshown[o] + Cardinality(Recording(o)) /\ Cardinality(Recording(o)) \in Nat
          /\ texted[o] \in Nat /\ inInbox[o] \in Nat /\ unshown[o] \in Nat
      BY RecordingIsFinite DEF LinesInv, TextsAreShown, LinesTyped
    <3>2. CASE o = p
      <4>1. texted'[p] = texted[p] + 1
        BY <1>4 DEF LinesInv, LinesTyped
      <4> QED BY <1>2, <2>5, <2>7, <3>1, <3>2, <4>1
    <3>3. CASE o # p
      <4>1. texted'[o] = texted[o]
        BY <1>4, <3>3 DEF LinesInv, LinesTyped
      <4> QED BY <1>2, <2>6, <3>1, <3>3, <4>1
    <3> QED BY <3>2, <3>3
  <2>9. LineRequestGood(y, line, slipped, instance)
    BY <1>1, <2>1 DEF LineRequestGood, Makes, Removes
  <2> QED BY <1>1, <1>2, <2>1, <2>2, <2>3, <2>8, <2>9, OnlyAsks DEF Makes, Removes, WritesState
<1> QED BY <1>3, <1>4 DEF BroadcastText

\* A text recorded, or counted among those that are not shown.
LEMMA RecordTextStep ==
  ASSUME LinesInv, NEW r \in LineRequests, NEW p \in Receivers, RecordText(r, p)
  PROVE  LinesInv'
<1> USE DEF atProvider
<1>1. /\ wa[r].kind = "broadcast" /\ wa[r].at = "record" /\ wa[r].saw = p /\ wa[r] \in WaStates
      /\ LineRequestGood(wa[r], line, slipped, instance)
  BY DEF RecordText, AtLine, LinesInv, LinesTyped, LineRequestsGood
<1>2. UNCHANGED <<line, instance, hooked, news, barred, texted, slipped, doubtful, lineEvents>>
      /\ lineFaults' \in 0 .. LineFaults
  BY OneMoreRefusal DEF RecordText, LinesInv, LinesTyped
<1> DEFINE y == [wa[r] EXCEPT !.at = "call", !.todo = wa[r].todo \ {p}]
<1>3. y \in WaStates /\ y.kind = "broadcast" /\ y.at = "call" /\ y.on = wa[r].on
  BY <1>1 DEF WaStates, WaSteps
<1>4. wa' = [wa EXCEPT ![r] = y]
  BY DEF RecordText
<1> HIDE DEF y
<1>5. /\ inInbox' \in [Receivers -> Nat] /\ unshown' \in [Receivers -> Nat]
      /\ inInbox'[p] + unshown'[p] = inInbox[p] + unshown[p] + 1
      /\ \A o \in Receivers \ {p} : inInbox'[o] = inInbox[o] /\ unshown'[o] = unshown[o]
  <2>1. inInbox \in [Receivers -> Nat] /\ unshown \in [Receivers -> Nat]
    BY DEF LinesInv, LinesTyped
  <2>2. CASE inInbox' = [inInbox EXCEPT ![p] = @ + 1] /\ UNCHANGED unshown
    BY <2>1, <2>2
  <2>3. CASE unshown' = [unshown EXCEPT ![p] = @ + 1] /\ UNCHANGED inInbox
    BY <2>1, <2>3
  <2> QED BY <2>2, <2>3 DEF RecordText
<1>6. LinesTyped'
  BY <1>2, <1>3, <1>4, <1>5 DEF LinesInv, LinesTyped
<1>7. \A q \in LineRequests : wa'[q] = IF q = r THEN y ELSE wa[q]
  BY <1>4 DEF LinesInv, LinesTyped
<1>8. \A o \in Receivers : o = p => Recording(o)' = Recording(o) \ {r} /\ r \in Recording(o)
  BY <1>1, <1>3, <1>7 DEF Recording, AtLine
<1>9. \A o \in Receivers \ {p} : Recording(o)' = Recording(o)
  BY <1>1, <1>3, <1>7 DEF Recording, AtLine
<1>10. \A o \in Receivers : o = p => Cardinality(Recording(o) \ {r}) = Cardinality(Recording(o)) - 1
  BY <1>8, RecordingIsFinite, FS_RemoveElement
<1>11. TextsAreShown'
  <2> SUFFICES ASSUME NEW o \in Receivers
               PROVE  texted'[o] = inInbox'[o] + unshown'[o] + Cardinality(Recording(o)')
    BY DEF TextsAreShown
  <2>1. texted[o] = inInbox[o] + unshown[o] + Cardinality(Recording(o)) /\ Cardinality(Recording(o)) \in Nat
        /\ texted[o] \in Nat /\ inInbox[o] \in Nat /\ unshown[o] \in Nat /\ inInbox'[o] \in Nat /\ unshown'[o] \in Nat
    BY <1>5, RecordingIsFinite DEF LinesInv, TextsAreShown, LinesTyped
  <2>2. CASE o = p
    BY <1>2, <1>5, <1>8, <1>10, <2>1, <2>2
  <2>3. CASE o # p
    BY <1>2, <1>5, <1>9, <2>1, <2>3
  <2> QED BY <2>2, <2>3
<1>12. LineRequestGood(y, line, slipped, instance)
  BY <1>1, <1>3 DEF LineRequestGood, Makes, Removes
<1> QED BY <1>1, <1>2, <1>3, <1>4, <1>6, <1>11, <1>12, OnlyAsks DEF Makes, Removes, WritesState

-----------------------------------------------------------------------------
(* The provider, the customer, and faults *)

\* A step about one line, of no request.
LEMMA LineTurns ==
  ASSUME LinesInv, LinesTyped', NEW c \in Lines, UNCHANGED <<wa, counts, slipped>>, doubtful \subseteq doubtful',
         \A d \in Lines \ {c} : /\ line'[d] = line[d] /\ instance'[d] = instance[d]
                                /\ \A n : n[1] = d => (n \in news' <=> n \in news),
         line[c].status # "NONE" => line'[c].status # "NONE",
         line'[c].inst = line[c].inst, line'[c].gone = line[c].gone,
         instance[c] = "none" => instance'[c] = "none",
         LineGood(c)'
  PROVE  LinesInv'
<1>1. LineRequestsGood'
  <2> SUFFICES ASSUME NEW q \in LineRequests PROVE LineRequestGood(wa[q], line', slipped', instance')
    BY DEF LineRequestsGood
  <2>1. LineRequestGood(wa[q], line, slipped, instance)
    BY DEF LinesInv, LineRequestsGood
  <2>2. ASSUME NEW d \in Lines
        PROVE  /\ line[d].status # "NONE" => line'[d].status # "NONE"
               /\ line[d].inst => line'[d].inst
               /\ line[d].inst /\ instance[d] = "none" => instance'[d] = "none"
               /\ Makes(wa[q], d) => ~line'[d].inst /\ (line'[d].gone => d \in slipped')
    BY <2>1 DEF LineRequestGood
  <2> QED BY <2>1, <2>2, OthersGood
<1>2. TextsAreShown'
  <2>1. \A p \in Receivers : Recording(p)' = Recording(p)
    BY DEF Recording, AtLine
  <2> QED BY <2>1 DEF LinesInv, TextsAreShown, counts
<1>3. LineMakersApart'
  BY DEF LinesInv, LineMakersApart
<1>4. ASSUME NEW d \in Lines \ {c} PROVE LineGood(d)'
  <2>1. LineGood(d)
    BY DEF LinesInv
  <2>2. (Lost(d) => Lost(d)') /\ (NewsAgree(d) => NewsAgree(d)')
    BY DEF Lost, NewsAgree, LineIsThere
  <2>3. Unfinished(d)' /\ Held(d)'
    BY <2>1 DEF LineGood, Unfinished, Held, LineIsThere
  <2> QED BY <2>1, <2>2, <2>3 DEF LineGood
<1> QED BY <1>1, <1>2, <1>3, <1>4 DEF LinesInv

\* The phone connects or drops out, which is reported.
LEMMA InstanceMovesStep ==
  ASSUME LinesInv, NEW c \in Lines, InstanceMoves(c)
  PROVE  LinesInv'
<1> USE DEF counts
<1>1. PICK state \in {"open", "close"} : InstanceTurns(c, state) /\ instance[c] \in {"connecting", "open"}
  BY DEF InstanceMoves
<1>2. state \in StatesOfInstance
  BY DEF StatesOfInstance
<1>3. UNCHANGED <<line, hooked, wa, barred, texted, inInbox, unshown, slipped, lineFaults>> /\ lineEvents' \in 0 .. LineEvents
  BY LinesAssumption DEF InstanceMoves, LinesInv, LinesTyped
<1>4. /\ instance' \in [Lines -> StatesOfInstance] /\ instance'[c] = state
      /\ news' \subseteq Lines \X StatesOfInstance /\ doubtful \subseteq doubtful' /\ doubtful' \subseteq Lines
      /\ \A d \in Lines \ {c} : instance'[d] = instance[d] /\ \A n : n[1] = d => (n \in news' <=> n \in news)
  BY <1>1, <1>2, InstanceTurned DEF LinesInv
<1>5. LinesTyped'
  BY <1>3, <1>4 DEF LinesInv, LinesTyped
<1>6. LineGood(c)'
  <2>1. Lost(c)' \/ NewsAgree(c)'
    BY <1>1, <1>2, <1>3, TurnIsTold DEF LinesInv
  <2>2. Held(c)' /\ Unfinished(c)'
    BY <1>1, <1>3 DEF LinesInv, LineGood, Held, Unfinished, LineIsThere
  <2> QED BY <2>1, <2>2 DEF LineGood
<1> QED BY <1>1, <1>3, <1>4, <1>5, <1>6, LineTurns

\* The report is of the state the instance is in, or the line is doubtful.
LEMMA ConnectionReportStep ==
  ASSUME LinesInv, NEW c \in Lines, NEW state \in StatesOfInstance, ConnectionReport(c, state)
  PROVE  LinesInv'
<1> USE DEF counts
<1>1. <<c, state>> \in news /\ news' = news \ {<<c, state>>}
      /\ UNCHANGED <<instance, hooked, wa, barred, texted, inInbox, unshown, slipped, lineFaults, lineEvents>>
  BY DEF ConnectionReport
<1>2. \A d \in Lines \ {c} : \A n : n[1] = d => (n \in news' <=> n \in news)
  BY <1>1
<1>3. CASE LineIsThere(c) /\ line[c].inst
  <2>1. MarkLine(c, StatusFrom[state]) /\ UNCHANGED doubtful
    BY <1>3 DEF ConnectionReport, HandleConnectionUpdate
  <2>2. StatusFrom[state] \in LineStatuses /\ StatusFrom[state] # "NONE" /\ (StatusFrom[state] = "CONNECTED" <=> state = "open")
    BY StatusIs DEF LineStatuses, StatesOfInstance
  <2>3. /\ line' \in [Lines -> LineStates] /\ line'[c].status = StatusFrom[state] /\ line'[c].inst = line[c].inst
        /\ line'[c].gone = line[c].gone /\ \A d \in Lines \ {c} : line'[d] = line[d]
    BY <2>1, <2>2, MarkedLine DEF LinesInv
  <2>4. LinesTyped'
    BY <1>1, <2>1, <2>3 DEF LinesInv, LinesTyped
  <2>5. LineGood(c)'
    <3>1. Unfinished(c)' /\ Held(c)'
      BY <1>1, <1>3, <2>2, <2>3 DEF LinesInv, LineGood, Held, Unfinished, LineIsThere
    <3>2. Lost(c) => Lost(c)'
      BY <1>1, <2>1, <2>3 DEF Lost
    <3>3. ASSUME NewsAgree(c) PROVE NewsAgree(c)'
      <4>1. state = instance[c]
        BY <1>1, <3>3 DEF NewsAgree
      <4> QED BY <1>1, <2>2, <2>3, <3>3, <4>1 DEF NewsAgree
    <3> QED BY <3>1, <3>2, <3>3 DEF LinesInv, LineGood
  <2> QED BY <1>1, <1>2, <2>1, <2>2, <2>3, <2>4, <2>5, LineTurns
<1>4. CASE ~(LineIsThere(c) /\ line[c].inst)
  <2>1. doubtful' = doubtful \cup {c} /\ line' = line
    BY <1>4 DEF ConnectionReport
  <2>2. LinesTyped'
    BY <1>1, <2>1 DEF LinesInv, LinesTyped
  <2>3. LineGood(c)'
    <3>1. Lost(c)'
      BY <2>1 DEF Lost
    <3>2. Unfinished(c)' /\ Held(c)'
      BY <1>1, <2>1 DEF LinesInv, LineGood, Held, Unfinished, LineIsThere
    <3> QED BY <3>1, <3>2 DEF LineGood
  <2> QED BY <1>1, <1>2, <2>1, <2>2, <2>3, LineTurns
<1> QED BY <1>3, <1>4

\* Nothing is promised of a line whose report was lost.
LEMMA ReportLostStep ==
  ASSUME LinesInv, NEW n \in news, ReportLost(n)
  PROVE  LinesInv'
<1> USE DEF counts
<1> DEFINE c == n[1]
<1>1. c \in Lines
  BY DEF LinesInv, LinesTyped
<1>2. news' = news \ {n} /\ doubtful' = doubtful \cup {c} /\ lineFaults' \in 0 .. LineFaults
      /\ UNCHANGED <<line, instance, hooked, wa, barred, texted, inInbox, unshown, slipped, lineEvents>>
  BY OneMoreRefusal DEF ReportLost, LinesInv
<1>3. \A d \in Lines \ {c} : \A m : m[1] = d => (m \in news' <=> m \in news)
  BY <1>2
<1>4. LinesTyped'
  BY <1>1, <1>2 DEF LinesInv, LinesTyped
<1> HIDE DEF c
<1>5. LineGood(c)'
  <2>1. Lost(c)'
    BY <1>2 DEF Lost
  <2>2. Unfinished(c)' /\ Held(c)'
    BY <1>1, <1>2 DEF LinesInv, LineGood, Held, Unfinished, LineIsThere
  <2> QED BY <2>1, <2>2 DEF LineGood
<1> QED BY <1>1, <1>2, <1>3, <1>4, <1>5, LineTurns

\* The list is not about lines.
LEMMA BarStep ==
  ASSUME LinesInv, NEW p \in Receivers, Bar(p)
  PROVE  LinesInv'
<1> USE DEF atProvider, counts
<1>1. UNCHANGED <<line, instance, hooked, news, wa, texted, inInbox, unshown, slipped, doubtful, lineFaults>>
      /\ lineEvents' \in 0 .. LineEvents /\ barred' \subseteq Receivers
  BY LinesAssumption DEF Bar, LinesInv, LinesTyped
<1>2. LinesTyped'
  BY <1>1 DEF LinesInv, LinesTyped
<1>3. LineGood(FirstLine)'
  BY <1>1, LinesAssumption DEF LinesInv, LineGood, Held, Unfinished, LineIsThere, Lost, NewsAgree
<1> QED BY <1>1, <1>2, <1>3, LinesAssumption, LineTurns

\* What was making or removing a line has slipped; a text that was to be recorded is not shown.
LEMMA ServerDiesStep ==
  ASSUME LinesInv, ServerDies
  PROVE  LinesInv'
<1> USE DEF atProvider
<1>1. UNCHANGED <<line, instance, hooked, news, barred, texted, inInbox, doubtful, lineEvents>> /\ lineFaults' \in 0 .. LineFaults
  BY OneMoreRefusal DEF ServerDies, LinesInv
<1>2. wa' \in [LineRequests -> WaStates]
      /\ \A r \in LineRequests : wa'[r].kind \in {"none", "done"} /\ wa'[r].on = {} /\ wa'[r].at = "end"
  <2> DEFINE over == [Idle EXCEPT !.kind = "done"]
  <2>1. over \in WaStates /\ over.kind = "done" /\ over.on = {} /\ over.at = "end"
    BY RequestOver
  <2>2. Idle \in WaStates /\ Idle.kind = "none" /\ Idle.on = {} /\ Idle.at = "end"
    BY DEF Idle, WaStates, WaSteps
  <2>3. wa' = [r \in LineRequests |-> IF wa[r] = Idle THEN Idle ELSE over]
    BY DEF ServerDies
  <2> HIDE DEF over
  <2> QED BY <2>1, <2>2, <2>3
<1>3. /\ slipped \subseteq slipped' /\ slipped' \subseteq Lines
      /\ \A r \in LineRequests, c \in Lines : Makes(wa[r], c) \/ Removes(wa[r], c) => c \in slipped'
  <2>1. slipped' = slipped \cup UNION {wa[r].on : r \in {r \in LineRequests : wa[r].kind \in {"create", "delete"}}}
    BY DEF ServerDies
  <2>2. \A r \in LineRequests : wa[r].on \subseteq Lines
    BY DEF LinesInv, LinesTyped, WaStates
  <2>3. slipped \subseteq Lines
    BY DEF LinesInv, LinesTyped
  <2> QED BY <2>1, <2>2, <2>3 DEF Makes, Removes
<1>4. \A p \in Receivers : unshown'[p] = unshown[p] + Cardinality(Recording(p)) /\ Recording(p)' = {}
  BY <1>2 DEF ServerDies, Recording, AtLine
<1>5. unshown' \in [Receivers -> Nat]
  <2>1. \A p \in Receivers : unshown[p] + Cardinality(Recording(p)) \in Nat
    BY RecordingIsFinite DEF LinesInv, LinesTyped
  <2> QED BY <2>1 DEF ServerDies
<1>6. LinesTyped'
  BY <1>1, <1>2, <1>3, <1>5 DEF LinesInv, LinesTyped
<1>7. TextsAreShown'
  <2> SUFFICES ASSUME NEW p \in Receivers PROVE texted'[p] = inInbox'[p] + unshown'[p] + Cardinality(Recording(p)')
    BY DEF TextsAreShown
  <2>1. texted[p] = inInbox[p] + unshown[p] + Cardinality(Recording(p)) /\ Cardinality(Recording(p)) \in Nat
        /\ texted[p] \in Nat /\ inInbox[p] \in Nat /\ unshown[p] \in Nat
    BY RecordingIsFinite DEF LinesInv, TextsAreShown, LinesTyped
  <2>2. Cardinality(Recording(p)') = 0
    BY <1>4, FS_EmptySet
  <2> QED BY <1>1, <1>4, <2>1, <2>2
<1>8. LineRequestsGood' /\ LineMakersApart'
  BY <1>2 DEF LineRequestsGood, LineRequestGood, LineMakersApart, Makes, Removes
<1>9. ASSUME NEW c \in Lines PROVE LineGood(c)'
  <2>1. Unfinished(c)'
    BY <1>1 DEF LinesInv, LineGood, Unfinished, LineIsThere
  <2>2. Held(c)'
    BY <1>1, <1>3 DEF LinesInv, LineGood, Held, LineIsThere
  <2>3. Lost(c) => Lost(c)'
    BY <1>1, <1>3 DEF Lost
  <2>4. NewsAgree(c) => NewsAgree(c)'
    BY <1>1, <1>2 DEF NewsAgree, LineIsThere, WritesState
  <2> QED BY <2>1, <2>2, <2>3, <2>4 DEF LinesInv, LineGood
<1> QED BY <1>6, <1>7, <1>8, <1>9 DEF LinesInv

-----------------------------------------------------------------------------
(* The lines in every state *)

\* At the start one line is open, and nothing is asked.
LEMMA LinesStart ==
  ASSUME LinesInit
  PROVE  LinesInv
<1>1. Idle \in WaStates /\ Idle.kind = "none" /\ Idle.on = {} /\ Idle.at = "end"
  BY DEF Idle, WaStates, WaSteps
<1>2. /\ \A r \in LineRequests : wa[r].kind = "none" /\ wa[r].on = {} /\ wa[r].at = "end"
      /\ wa \in [LineRequests -> WaStates]
  BY <1>1 DEF LinesInit
<1>3. \A c \in Lines : /\ line[c].status = (IF c = FirstLine THEN "CONNECTED" ELSE "NONE")
                       /\ line[c].inst = (c = FirstLine) /\ ~line[c].gone
                       /\ instance[c] = IF c = FirstLine THEN "open" ELSE "none"
  BY DEF LinesInit
<1>4. LinesTyped
  <2>1. line \in [Lines -> LineStates] /\ instance \in [Lines -> StatesOfInstance]
    BY DEF LinesInit, LineStates, LineStatuses, StatesOfInstance
  <2>2. 0 \in 0 .. LineFaults /\ 0 \in 0 .. LineEvents
    BY LinesAssumption
  <2> QED BY <1>2, <2>1, <2>2, LinesAssumption DEF LinesInit, LinesTyped
<1>5. LineRequestsGood /\ LineMakersApart
  BY <1>2 DEF LineRequestsGood, LineRequestGood, LineMakersApart, Makes, Removes
<1>6. TextsAreShown
  <2>1. \A p \in Receivers : Recording(p) = {}
    BY <1>2 DEF Recording, AtLine
  <2>2. \A p \in Receivers : texted[p] = 0 /\ inInbox[p] = 0 /\ unshown[p] = 0 /\ Cardinality(Recording(p)) = 0
    BY <2>1, FS_EmptySet DEF LinesInit
  <2> QED BY <2>2 DEF TextsAreShown
<1>7. ASSUME NEW c \in Lines PROVE LineGood(c)
  <2>1. Unfinished(c) /\ Held(c)
    BY <1>3 DEF Unfinished, Held, LineIsThere
  <2>2. NewsAgree(c)
    BY <1>2, <1>3 DEF LinesInit, NewsAgree, LineIsThere, WritesState
  <2> QED BY <2>1, <2>2 DEF LineGood
<1> QED BY <1>4, <1>5, <1>6, <1>7 DEF LinesInv

\* Nothing happens.
LEMMA LinesStay ==
  ASSUME LinesInv, UNCHANGED lineVars
  PROVE  LinesInv'
<1> USE DEF lineVars, atProvider, counts
<1>1. LinesTyped'
  BY DEF LinesInv, LinesTyped
<1>2. LineGood(FirstLine)'
  BY LinesAssumption DEF LinesInv, LineGood, Held, Unfinished, LineIsThere, Lost, NewsAgree
<1> QED BY <1>1, <1>2, LinesAssumption, LineTurns

\* Every step keeps the lines and the texts counted.
LEMMA LinesStep ==
  ASSUME LinesInv, [LinesNext]_lineVars
  PROVE  LinesInv'
<1>1. CASE UNCHANGED lineVars
  BY <1>1, LinesStay
<1>2. ASSUME NEW r \in LineRequests, NEW c \in Lines,
             \/ CreateConnection(r, c) \/ CreateLineRow(r, c) \/ CreateInstance(r, c) \/ SetWebhook(r, c)
             \/ FinishCreate(r, c)
             \/ \E kind \in {"status", "qr", "reconnect", "hook", "send", "broadcast", "delete"} :
                  FindConnection(r, kind, c)
             \/ AskState(r, c) \/ WriteState(r, c) \/ RequestQrCode(r, c) \/ MarkConnecting(r, c)
             \/ ConfigureWebhook(r, c) \/ DisconnectInstance(r, c) \/ DeleteInstance(r, c) \/ RemoveRow(r, c)
             \/ \E p \in Receivers : BroadcastText(r, p, c)
      PROVE  LinesInv'
  BY <1>2, CreateConnectionStep, CreateLineRowStep, CreateInstanceStep, SetWebhookStep,
     FinishCreateStep, FindConnectionStep,
     AskStateStep, WriteStateStep, RequestQrCodeStep, MarkConnectingStep, ConfigureWebhookStep, DisconnectStep,
     DeleteInstanceStep, RemoveRowStep, BroadcastTextStep DEF LineKinds
<1>3. ASSUME NEW r \in LineRequests, SendDirectly(r) \/ EndBroadcast(r) \/ \E p \in Receivers : CheckGate(r, p) \/ RecordText(r, p)
      PROVE  LinesInv'
  BY <1>3, SendDirectlyStep, EndBroadcastStep, CheckGateStep, RecordTextStep
<1>4. ASSUME NEW c \in Lines, InstanceMoves(c) \/ \E state \in DOMAIN StatusFrom : ConnectionReport(c, state)
      PROVE  LinesInv'
  BY <1>4, InstanceMovesStep, ConnectionReportStep, StatusIs
<1> QED BY <1>1, <1>2, <1>3, <1>4, ReportLostStep, BarStep, ServerDiesStep DEF LinesNext

\* What is held is held by a row, CONNECTED is open, and texts are shown.
LEMMA LinesMean ==
  ASSUME LinesInv
  PROVE  LinesTypeOK /\ LinesHold
<1>1. LinesTypeOK
  <2>1. LineStatuses \subseteq {"NONE", "CREATING", "QR_REQUIRED"} \cup {StatusFrom[s] : s \in DOMAIN StatusFrom}
    BY StatusIs DEF LineStatuses, StatesOfInstance
  <2>2. line \in [Lines -> [inst : BOOLEAN, gone : BOOLEAN,
                            status : {"NONE", "CREATING", "QR_REQUIRED"} \cup {StatusFrom[s] : s \in DOMAIN StatusFrom}]]
    BY <2>1 DEF LinesInv, LinesTyped, LineStates
  <2>3. \A r \in LineRequests : wa[r].on \subseteq Lines /\ wa[r].todo \subseteq Receivers
    BY DEF LinesInv, LinesTyped, WaStates
  <2> QED BY <2>2, <2>3, StatusIs DEF LinesInv, LinesTyped, LinesTypeOK
<1>2. ASSUME NEW c \in Lines PROVE InstanceIsHeld(c) /\ ConnectedIsOpen(c)
  <2>1. Held(c) /\ (Lost(c) \/ NewsAgree(c))
    BY DEF LinesInv, LineGood
  <2>2. InstanceIsHeld(c)
    BY <2>1 DEF Held, InstanceIsHeld, Makes
  <2>3. ConnectedIsOpen(c)
    BY <2>1 DEF ConnectedIsOpen, Lost, NewsAgree, Removes, LineIsThere
  <2> QED BY <2>2, <2>3
<1> QED BY <1>1, <1>2 DEF LinesInv, LinesHold

\* Lines, instances, requests and counts keep their types (whatsapp.service.ts).
THEOREM LinesTypeCorrect == LinesSpec => []LinesTypeOK
<1>1. LinesInv => LinesTypeOK
  BY LinesMean
<1> QED BY <1>1, LinesStart, LinesStep, PTL DEF LinesSpec

\* An instance has a row that names it or somebody at work on it, a line that says CONNECTED is open or to be told otherwise, and a broadcast's texts are shown, but for what slipped, was not reported, or failed (whatsapp.service.ts, evolution.provider.ts).
THEOREM LinesCorrect == LinesSpec => []LinesHold
<1>1. LinesInv => LinesHold
  BY LinesMean
<1> QED BY <1>1, LinesStart, LinesStep, PTL DEF LinesSpec
=============================================================================
