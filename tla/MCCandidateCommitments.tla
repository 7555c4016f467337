----------------------- MODULE MCCandidateCommitments -----------------------
(* Small instances of CandidateCommitments. *)
EXTENDS CandidateCommitments, TLC

CONSTANTS r1, r2, s1, s2

\* One security per release.
OneEach == (s1 :> r1) @@ (s2 :> r2)
TwoEach == [s \in {s1, s2} |-> 2]

\* As much of every gap as the cash, shared evenly, pays for.
FillGaps(r, cash, own) ==
    [s \in DOMAIN own |->
        Max({0, Min({Target[s] - own[s],
                     cash \div (PriceCap * Cardinality(DOMAIN own))})})]

\* One plan, confirmed again and executed once.
Claims1 ==
    [rels |-> {r1}, cash |-> 4, outcomes |-> BOOLEAN, sizes |-> {2}, ops |-> Requests,
     happens |-> {"passing", "closing", "corrected", "unhanded"},
     plans |-> 1, confs |-> 2, execs |-> 1, orders |-> 1, snaps |-> 2, unsure |-> 0]
\* One confirmation with successive executions of one order.
Orders1 ==
    [Claims1 EXCEPT !.outcomes = {TRUE}, !.sizes = {1}, !.happens = {"passing", "expiry"},
                    !.confs = 1, !.execs = 2, !.snaps = 3]
\* Two releases compete for cash that pays for three lots; uncertain commits.
Pending2 ==
    [Claims1 EXCEPT !.rels = {r1, r2}, !.cash = 6, !.outcomes = {TRUE},
                    !.ops = {"REPLAN", "SUBMIT", "WITHDRAW", "RECONCILE"},
                    !.happens = {"disqualified"}, !.plans = 2,
                    !.orders = 0, !.snaps = 1, !.unsure = 1]
MCCases == {Claims1, Orders1, Pending2}
=============================================================================
