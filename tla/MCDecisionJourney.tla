------------------------- MODULE MCDecisionJourney -------------------------
(* Small instances of DecisionJourney. *)
EXTENDS DecisionJourney, TLC

CONSTANTS w1, w2, o1, o2, p1, p2

OnePerProcess == (w1 :> "A") @@ (w2 :> "B")
WorkerSymmetry == Permutations({w1, w2})
TwoProcesses == {"A", "B"}
PlainKind == (o1 :> "plain")
ReleaseKind == (o1 :> "release")
=============================================================================
