SPECIFICATION Spec
CONSTANTS
    Workers = {w1, w2}
    Size = 2
    Stages = 1
    Drafts = {d1, d2}
    Commands <- MCCommands
    Faults = {"crash", "refused", "lose_run"}
    MaxAttempts = 2
    None = None
INVARIANT TypeOK
INVARIANT EvidenceIsWhole
PROPERTY RunNotReplaced
PROPERTY OnlyOwnRunBlocks
CHECK_DEADLOCK FALSE
