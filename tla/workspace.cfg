SPECIFICATION WorkspaceSpec
CONSTANTS
    Open = 1
    Final = 3
    Close = 3
    Cases <- MCCases
INVARIANT RemindersAreSound
PROPERTY WithdrawalIsLasting
INVARIANT CommandsHappenOnce
INVARIANT RetriesResume
PROPERTY EntryIsCurrent
CHECK_DEADLOCK FALSE
