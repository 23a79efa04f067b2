-------------------------- MODULE DeliveryLedger --------------------------
(***************************************************************************)
(* What the row of an outgoing message promises to whoever reads it: "sent" *)
(* means the provider has accepted at least one copy, a message is never    *)
(* unsent again, and copies are accepted one at a time.                     *)
(***************************************************************************)
EXTENDS Naturals

VARIABLES ledger, copies

LedgerInit == ledger = "unsent" /\ copies = 0

Accept  == copies' = copies + 1 /\ UNCHANGED ledger
Confirm == copies > 0 /\ ledger' = "sent" /\ UNCHANGED copies
Refuse  == ledger' = "failed" /\ UNCHANGED copies

LedgerNext == Accept \/ Confirm \/ Refuse

LedgerSpec == LedgerInit /\ [][LedgerNext]_<<ledger, copies>>
=============================================================================
