---------------------- MODULE MCQualificationGovernance ----------------------
(* Small instances of QualificationGovernance. *)
EXTENDS QualificationGovernance, TLC

CONSTANTS v1, v2, v3

\* v2 is a release alias of v1: another identity, the same rules. v3 names
\* the policy of v1 and means another one.
MCSubstance == [v \in Versions |-> IF v = v2 THEN v1 ELSE v]
OneName == [v \in Versions |-> v1]

Ev(end, at, act) == [end |-> end, at |-> at, act |-> act]
MCEvidence == {Ev(0, 0, 0), Ev(1, 2, 1), Ev(2, 3, 2), Ev(3, 3, 3)}

Plan == <<1, 3>>

Node(kind, sched) ==
    [kind |-> kind, sched |-> sched, cut |-> sched, until |-> sched + 1]
TwoNodes == {Node("MONTHLY", 1), Node("MONTHLY", 3)}

\* Every qualification command over one lineage, and a redefined policy.
Lifecycle ==
    [versions |-> {v1, v3}, evidence |-> {Ev(0, 0, 0), Ev(1, 2, 1), Ev(3, 3, 3)},
     nodes |-> {},
     ops |-> {"GRANT", "ALERT", "RECORD_NOT_OBTAINED", "SUSPEND", "REVOKE", "RESTORE",
              "REQUALIFY", "REGISTER_REQUALIFICATION", "RECORD_ALERT_REPLAY",
              "FORMAL_CHECK", "RECORD_FORMAL_NODE", "CLOSE_ALERT", "DENIED"},
     records |-> 4, apps |-> 1, acts |-> 0]
\* Two aliases share a lineage while tasks are handed over and used.
Aliases ==
    [versions |-> {v1, v2}, evidence |-> {Ev(0, 0, 0), Ev(1, 2, 1), Ev(2, 3, 2)},
     nodes |-> TwoNodes,
     ops |-> {"GRANT", "REVOKE", "RECORD_NOT_OBTAINED", "REGISTER_REQUALIFICATION",
              "REQUALIFY", "REGISTER_TASK_NODE", "ACTIVATE_VERSION", "FREEZE_TASK",
              "USE_TASK"},
     records |-> 5, apps |-> 1, acts |-> 2]
MCCases == {Lifecycle, Aliases}
=============================================================================
