CONSTANTS
    v1 = v1
    v2 = v2
    v3 = v3
    None = None
    Versions = {v1, v2, v3}
    Substance <- MCSubstance
    PolicyName <- OneName
    Policy <- MCSubstance
    Evidence <- MCEvidence
    PlannedNodes <- Plan
    TaskNodes <- TwoNodes
    PerMonth = 1
    EvalAge = 2
    ActivityAge = 1
    RequireActivity = FALSE
    ClearNodes = 1
    Horizon = 3
    MaxAlerts = 1
    Cases <- MCCases
SPECIFICATION Spec
INVARIANT TypeOK
INVARIANT OneLineage
INVARIANT AuthorityIsEarned
PROPERTY UseIsQualified
CHECK_DEADLOCK FALSE
