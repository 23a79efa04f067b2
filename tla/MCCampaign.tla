---------------------------- MODULE MCCampaign ----------------------------
(***************************************************************************)
(* Campaign on small instances: two dispatch loops racing for two          *)
(* recipients; or for one, with crashes and errors; one loop and the       *)
(* preparation loop with opt-outs, replies, outages and a regeneration;    *)
(* one loop and one recipient for liveness.                                *)
(***************************************************************************)
EXTENDS Campaign, TLC, FiniteSetsExt

CONSTANTS r1, r2, d1, d2, p1

Symmetry == Permutations(Dispatchers) \cup Permutations(Recipients)

NoEvents == [e \in Events |-> 0]

DispatchBudget == [NoEvents EXCEPT !["start"] = 2, !["exhaust"] = 1]

RecoveryBudget ==
  [NoEvents EXCEPT !["start"] = 2, !["crash"] = 1, !["throw"] = 1, !["elapse"] = 1]

OutageBudget ==
  [NoEvents EXCEPT !["start"] = 2, !["dnc"] = 1, !["reply"] = 1, !["toggle"] = 1, !["regen"] = 1]

LiveBudget == [NoEvents EXCEPT !["start"] = 2, !["crash"] = 1, !["test"] = 2]
=============================================================================
