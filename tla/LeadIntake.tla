---------------------------- MODULE LeadIntake ----------------------------
(***************************************************************************)
(* How leads come to be: discovered (leads.service.ts), imported from a    *)
(* file (lead-import.service.ts), or callers (caller-identity.service.ts). *)
(* A number is one lead of the organization; each way looks for the lead,  *)
(* creates it and records its first transition in statements of its own,   *)
(* and each treats a lead that another has created meanwhile differently.  *)
(***************************************************************************)
EXTENDS Naturals, Sequences, FiniteSets, SequencesExt

CONSTANTS
  Intakes,        \* requests
  IntakeRows,     \* sequences of numbers that a file or a provider may hold
  IntakePhones,   \* valid numbers
  BadPhone,       \* one that is none
  IntakeFaults    \* bound: statements that fail, deaths of the process

ASSUME IntakeAssumption ==
  /\ BadPhone \notin IntakePhones /\ "nobody" \notin Intakes /\ IntakeFaults \in Nat
  /\ IntakeRows \subseteq Seq(IntakePhones \cup {BadPhone})

VARIABLES
  intake,      \* each request: [at, kind, rows, kept, created]: the rows left, and what
               \* the preview of an import has kept
  leadRow,     \* leads: of each number [by, recorded], whether its first transition is there
  blocked,     \* dnc_entries
  blockedFirst,\* history: numbers that were blocked when a file or a discovery began
  intakeFaults,
  intakeHurt   \* history: requests that met a failing statement or died

intakeVars == <<intake, leadRow, blocked, blockedFirst, intakeFaults, intakeHurt>>

IntakeKinds == {"discover", "import", "caller"}
IntakeSteps == {"idle", "preview", "next", "create", "record", "done", "failed"}
NoLead == [by |-> "nobody", recorded |-> FALSE]

IntakeTypeOK ==
  /\ intake \in [Intakes -> [at : IntakeSteps, kind : IntakeKinds, rows : Seq(IntakePhones \cup {BadPhone}),
                           kept : Seq(IntakePhones), created : Nat]]
  /\ leadRow \in [IntakePhones -> [by : Intakes \cup {"nobody"}, recorded : BOOLEAN]]
  /\ blocked \subseteq IntakePhones /\ blockedFirst \in [Intakes -> SUBSET IntakePhones]
  /\ intakeFaults \in 0..IntakeFaults /\ intakeHurt \subseteq Intakes

IntakeInit ==
  /\ intake = [r \in Intakes |-> [at |-> "idle", kind |-> "import", rows |-> <<>>, kept |-> <<>>, created |-> 0]]
  /\ leadRow = [p \in IntakePhones |-> NoLead]
  /\ blocked = {} /\ blockedFirst = [r \in Intakes |-> {}] /\ intakeFaults = 0 /\ intakeHurt = {}

rowVars == <<leadRow, blocked, blockedFirst>>
hurtVars == <<intakeFaults, intakeHurt>>

Update(r, record) == intake' = [intake EXCEPT ![r] = record]
IntakeFault(r) ==
  intakeFaults < IntakeFaults /\ intakeFaults' = intakeFaults + 1 /\ intakeHurt' = intakeHurt \cup {r}

Exists(p) == leadRow[p] # NoLead

-----------------------------------------------------------------------------

\* discover, commit or resolve begins; a call comes from one number.
BeginIntake(r, kind, rows) ==
  /\ intake[r].at = "idle" /\ (kind = "caller" => Len(rows) = 1 /\ rows[1] # BadPhone)
  /\ Update(r, [intake[r] EXCEPT !.at = IF kind = "import" THEN "preview" ELSE "next", !.kind = kind, !.rows = rows])
  /\ blockedFirst' = [blockedFirst EXCEPT ![r] = IF kind = "caller" THEN {} ELSE blocked]
  /\ UNCHANGED <<leadRow, blocked, hurtVars>>

\* preview, one row: kept when it is valid, new in the file, not blocked and no lead yet.
PreviewRow(r) ==
  /\ intake[r].at = "preview" /\ intake[r].rows # <<>>
  /\ LET p == Head(intake[r].rows)
         keep == p # BadPhone /\ ~Contains(intake[r].kept, p) /\ p \notin blocked /\ ~Exists(p)
     IN Update(r, [intake[r] EXCEPT !.rows = Tail(@), !.kept = IF keep THEN Append(@, p) ELSE @])
  /\ UNCHANGED <<rowVars, hurtVars>>

\* The import row is there; the rows that were kept are created without another look.
StartImport(r) ==
  /\ intake[r].at = "preview" /\ intake[r].rows = <<>>
  /\ Update(r, [intake[r] EXCEPT !.at = "next", !.rows = intake[r].kept, !.kept = <<>>])
  /\ UNCHANGED <<rowVars, hurtVars>>

\* The next row: an import creates it, discovery and a call look first.  A blocked caller is a
\* lead all the same.
NextRow(r) ==
  /\ intake[r].at = "next" /\ intake[r].rows # <<>>
  /\ LET p == Head(intake[r].rows)
         skip == \/ intake[r].kind = "discover" /\ (p = BadPhone \/ p \in blocked \/ Exists(p))
                 \/ intake[r].kind = "caller" /\ Exists(p)
     IN Update(r, IF skip THEN [intake[r] EXCEPT !.rows = Tail(@)] ELSE [intake[r] EXCEPT !.at = "create"])
  /\ UNCHANGED <<rowVars, hurtVars>>

Ended(record) == [record EXCEPT !.at = "failed", !.rows = <<>>, !.kept = <<>>]

\* What an exception does: an import goes on with the next row, the others end.
Raise(record) ==
  IF record.kind = "import" THEN [record EXCEPT !.at = "next", !.rows = Tail(@)]
  ELSE Ended(record)

\* Counted as it is created, not once it is recorded (a slip LeadsAreAccounted must notice).
CreateAndCount(r) ==
  /\ intake[r].at = "create"
  /\ LET p == Head(intake[r].rows)
         counted == [intake[r] EXCEPT !.created = @ + 1]
     IN IF Exists(p) THEN Update(r, Raise(counted)) /\ UNCHANGED leadRow
        ELSE /\ Update(r, [intake[r] EXCEPT !.at = "record"])
             /\ leadRow' = [leadRow EXCEPT ![p] = [by |-> r, recorded |-> FALSE]]
  /\ UNCHANGED <<blocked, blockedFirst, hurtVars>>

\* One lead a number: a lead that came in between is an exception.
CreateLead(r) ==
  /\ intake[r].at = "create"
  /\ LET p == Head(intake[r].rows)
     IN IF Exists(p) THEN Update(r, Raise(intake[r])) /\ UNCHANGED leadRow
        ELSE /\ Update(r, [intake[r] EXCEPT !.at = "record"])
             /\ leadRow' = [leadRow EXCEPT ![p] = [by |-> r, recorded |-> FALSE]]
  /\ UNCHANGED <<blocked, blockedFirst, hurtVars>>

RecordLead(r) ==
  /\ intake[r].at = "record"
  /\ leadRow' = [leadRow EXCEPT ![Head(intake[r].rows)].recorded = TRUE]
  /\ Update(r, [intake[r] EXCEPT !.at = "next", !.rows = Tail(@), !.created = @ + 1])
  /\ UNCHANGED <<blocked, blockedFirst, hurtVars>>

FinishIntake(r) ==
  /\ intake[r].at = "next" /\ intake[r].rows = <<>> /\ Update(r, [intake[r] EXCEPT !.at = "done"])
  /\ UNCHANGED <<rowVars, hurtVars>>

\* A number is put on the list meanwhile.
Block(p) ==
  /\ p \notin blocked /\ blocked' = blocked \cup {p}
  /\ UNCHANGED <<intake, leadRow, blockedFirst, hurtVars>>

StatementFails(r) ==
  /\ intake[r].at \in {"create", "record"} /\ IntakeFault(r) /\ Update(r, Raise(intake[r]))
  /\ UNCHANGED rowVars

IntakeDies(r) ==
  /\ intake[r].at \notin {"idle", "done", "failed"} /\ IntakeFault(r)
  /\ Update(r, Ended(intake[r]))
  /\ UNCHANGED rowVars

IntakeNext ==
  \/ \E r \in Intakes :
       \/ \E kind \in IntakeKinds, rows \in IntakeRows : BeginIntake(r, kind, rows)
       \/ PreviewRow(r) \/ StartImport(r) \/ NextRow(r) \/ CreateLead(r) \/ RecordLead(r)
       \/ FinishIntake(r) \/ StatementFails(r) \/ IntakeDies(r)
  \/ \E p \in IntakePhones : Block(p)

IntakeSpec == IntakeInit /\ [][IntakeNext]_intakeVars

-----------------------------------------------------------------------------

LeadsBy(r) == {p \in IntakePhones : leadRow[p].by = r}

\* A request that ends reports the leads that are there by it, races with other requests
\* included, if none of its statements failed (lead-import.service.ts:154-176,
\* leads.service.ts:107-141); every lead has its first transition but while it is created or
\* where that statement failed; no number that was on the list when a file was imported or leads
\* were discovered becomes a lead by it.
LeadsAreAccounted ==
  /\ \A r \in Intakes \ intakeHurt :
       /\ intake[r].at = "done" => intake[r].created = Cardinality(LeadsBy(r))
       /\ \A p \in LeadsBy(r) : leadRow[p].recorded \/ (intake[r].at = "record" /\ Head(intake[r].rows) = p)
  /\ \A r \in Intakes : LeadsBy(r) \cap blockedFirst[r] = {}
=============================================================================
