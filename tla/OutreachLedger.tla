-------------------------- MODULE OutreachLedger --------------------------
(***************************************************************************)
(* What a campaign promises the people on its list: a text goes out on a   *)
(* permission and uses it up; a permission is given to one sender at a     *)
(* time, never after an opt-out, and never for a second text in one        *)
(* window; whoever is told sent has been texted, and who is closed, or has *)
(* been sent a text and answered, is never opened again.                   *)
(***************************************************************************)
EXTENDS Naturals

CONSTANT People

VARIABLES
  stage,      \* of each person: "open", "sent" or "closed"
  permitted,  \* people with a permission that is not used yet
  texts,      \* texts accepted for each person
  optedOut,   \* people who want none
  windows     \* windows that have passed

OutreachInit ==
  /\ stage \in [People -> {"open", "closed"}]
  /\ permitted = {} /\ optedOut = {} /\ windows = 0
  /\ texts = [p \in People |-> 0]

Permit(p) ==
  /\ p \notin permitted \cup optedOut /\ texts[p] <= windows
  /\ permitted' = permitted \cup {p}
  /\ UNCHANGED <<stage, texts, optedOut, windows>>

Text(p) ==
  /\ p \in permitted /\ permitted' = permitted \ {p}
  /\ texts' = [texts EXCEPT ![p] = @ + 1]
  /\ UNCHANGED <<stage, optedOut, windows>>

\* Permissions are lost, with an error or with the process that held them.
Withdraw(S) ==
  /\ permitted' = permitted \ S
  /\ UNCHANGED <<stage, texts, optedOut, windows>>

Confirm(p) ==
  /\ stage[p] = "open" /\ texts[p] > 0
  /\ stage' = [stage EXCEPT ![p] = "sent"]
  /\ UNCHANGED <<permitted, texts, optedOut, windows>>

Close(S) ==
  /\ \A p \in S : stage[p] = "open"
  /\ stage' = [p \in People |-> IF p \in S THEN "closed" ELSE stage[p]]
  /\ UNCHANGED <<permitted, texts, optedOut, windows>>

\* An answer closes whatever is open, or was sent.
Answer(p) ==
  /\ stage' = [stage EXCEPT ![p] = "closed"]
  /\ UNCHANGED <<permitted, texts, optedOut, windows>>

OptOut(p) ==
  /\ optedOut' = optedOut \cup {p}
  /\ UNCHANGED <<stage, permitted, texts, windows>>

\* A window is longer than any permission lasts.
WindowPasses ==
  /\ permitted = {} /\ windows' = windows + 1
  /\ UNCHANGED <<stage, permitted, texts, optedOut>>

OutreachNext ==
  \/ \E p \in People : Permit(p) \/ Text(p) \/ Confirm(p) \/ Answer(p) \/ OptOut(p)
  \/ \E S \in SUBSET People : Withdraw(S) \/ Close(S)
  \/ WindowPasses

OutreachSpec == OutreachInit /\ [][OutreachNext]_<<stage, permitted, texts, optedOut, windows>>
=============================================================================
