---------------------------- MODULE MCVoiceCall ----------------------------
(***************************************************************************)
(* VoiceCall on small instances: two calls competing for one line, or one  *)
(* call with everything that may end it.                                   *)
(***************************************************************************)
EXTENDS VoiceCall, TLC

CONSTANTS c1, c2, e1, e2

Symmetry == Permutations(Calls)

\* One of the four, which may follow and be followed by the same statuses.
Words == {"LISTENING"}

NoEvents == [x \in Events |-> 0]

LinesBudget == [NoEvents EXCEPT !["error"] = 1]

CallBudget == [NoEvents EXCEPT !["report"] = 1, !["talk"] = 1, !["crash"] = 1]

CrashBudget == [NoEvents EXCEPT !["crash"] = 1]
=============================================================================
