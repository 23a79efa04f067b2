---------------------------- MODULE MCMessaging ----------------------------
(***************************************************************************)
(* What happens to a message of a customer and to the answers, each part   *)
(* on a small instance: the inbound webhook and its turn, the hand-off to  *)
(* the support team, the outgoing queue, the desk that assigns the         *)
(* conversation, the screens that show it, and the turns of a sale.  The   *)
(* parts share no state, so a behaviour is one of one of them: `part' says *)
(* which, and the others stay where they start.                            *)
(***************************************************************************)
EXTENDS SupportEscalation, InboundMessage, OutgoingQueue, ConversationDesk, InboxScreens, SalesDesk, TLC

CONSTANTS
  Explored,  \* the parts a run looks at
  q1, q2, p1, i1, m1, m2, u1, u2, c1, c2, r1, r2, s1, s2

\* Two messages of a customer, each delivered once.
DeliveredOnce == {<<m1, 1>>, <<m2, 1>>}

VARIABLE part

Init ==
  /\ part \in Explored
  /\ EscalationInit /\ InboundInit /\ QueueInit /\ DeskInit /\ SalesInit
  /\ ScreensInit /\ (part = "screens" \/ page = "inbox")

\* One part moves, the others do not.
Only(mine, next, variables) ==
  IF part = mine THEN next ELSE UNCHANGED variables

Next ==
  /\ UNCHANGED part
  /\ Only("escalation", EscalationNext, escVars)
  /\ Only("inbound", InboundNext, inboundVars)
  /\ Only("queue", QueueNext, queueVars)
  /\ Only("desk", DeskNext, deskVars)
  /\ Only("screens", ScreensNext, screenVars)
  /\ Only("sales", SalesNext, saleVars)

vars == <<part, escVars, inboundVars, queueVars, deskVars, screenVars, saleVars>>

Spec == Init /\ [][Next]_vars

FairSpec == Spec /\ InboundFairness /\ QueueFairness

\* The types of the part that moves; the others stay as they start.
MessagingTypeOK ==
  /\ part = "escalation" => EscalationTypeOK
  /\ part = "inbound" => InboundTypeOK
  /\ part = "queue" => QueueTypeOK
  /\ part = "desk" => DeskTypeOK
  /\ part = "screens" => ScreensTypeOK
  /\ part = "sales" => SalesTypeOK
=============================================================================
