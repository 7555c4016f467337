CONSTANTS
    r1 = r1
    r2 = r2
    s1 = s1
    s2 = s2
    Releases = {r1, r2}
    Securities = {s1, s2}
    ReleaseOf <- OneEach
    Target <- TwoEach
    Solve <- FillGaps
    PriceCap = 2
    FillPrice = 1
    Cases <- MCCases
SPECIFICATION Spec
PROPERTY ClaimsLeaveByProof
PROPERTY CommittedInsideWindow
PROPERTY ConfirmedIsCovered
PROPERTY UncertainBlocks
CHECK_DEADLOCK FALSE
