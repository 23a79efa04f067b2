----------------------------- MODULE CallLedger -----------------------------
(***************************************************************************)
(* What the record of a call promises. Only an open call gets somebody who *)
(* works on it, and only somebody who works on a call writes its line,     *)
(* though it may have been closed in the meantime. Whoever closes a call   *)
(* owes its bill, and every bill is recorded once, unless a fault destroys *)
(* it. The sweeper closes what has aged and owes nothing.                  *)
(***************************************************************************)
EXTENDS Naturals

CONSTANTS Calls, Hands

VARIABLES
  line,      \* of each call: "none", "open" or "closed"
  attended,  \* calls that somebody works on
  owed,      \* who has to record the bill of which call
  recorded,  \* bills recorded for each call
  aged,      \* calls no handler can still be waiting for
  faults     \* failed statements and crashes

ledgerVars == <<line, attended, owed, recorded, aged, faults>>

LedgerInit ==
  /\ line = [c \in Calls |-> "none"]
  /\ attended = {} /\ owed = {} /\ aged = {} /\ faults = 0
  /\ recorded = [c \in Calls |-> 0]

Ring(c) ==
  /\ line[c] = "none" /\ line' = [line EXCEPT ![c] = "open"]
  /\ UNCHANGED <<attended, owed, recorded, aged, faults>>

Attend(c) ==
  /\ line[c] = "open" /\ attended' = attended \cup {c}
  /\ UNCHANGED <<line, owed, recorded, aged, faults>>

Leave ==
  /\ attended' \subseteq attended
  /\ UNCHANGED <<line, owed, recorded, aged, faults>>

\* The line is written as open, which reopens one that was closed meanwhile.
Keep(c) ==
  /\ c \in attended /\ attended' \subseteq attended
  /\ line' = [line EXCEPT ![c] = "open"]
  /\ UNCHANGED <<owed, recorded, aged, faults>>

Close(c, h) ==
  /\ c \in attended /\ attended' \subseteq attended
  /\ line' = [line EXCEPT ![c] = "closed"]
  /\ <<c, h>> \notin owed /\ owed' = owed \cup {<<c, h>>}
  /\ UNCHANGED <<recorded, aged, faults>>

Record(c, h) ==
  /\ <<c, h>> \in owed /\ owed' = owed \ {<<c, h>>}
  /\ recorded' = [recorded EXCEPT ![c] = @ + 1]
  /\ UNCHANGED <<line, attended, aged, faults>>

Age(c) ==
  /\ line[c] # "none" /\ aged' = aged \cup {c}
  /\ \A h \in Hands : <<c, h>> \notin owed
  /\ UNCHANGED <<line, attended, owed, recorded, faults>>

Sweep(c) ==
  /\ c \in aged /\ line[c] = "open" /\ line' = [line EXCEPT ![c] = "closed"]
  /\ UNCHANGED <<attended, owed, recorded, aged, faults>>

Fault ==
  /\ faults' = faults + 1 /\ attended' \subseteq attended /\ owed' \subseteq owed
  /\ UNCHANGED <<line, recorded, aged>>

LedgerNext ==
  \/ \E c \in Calls : Ring(c) \/ Attend(c) \/ Keep(c) \/ Age(c) \/ Sweep(c)
  \/ \E c \in Calls, h \in Hands : Close(c, h) \/ Record(c, h)
  \/ Leave \/ Fault

LedgerSpec == LedgerInit /\ [][LedgerNext]_ledgerVars
=============================================================================
