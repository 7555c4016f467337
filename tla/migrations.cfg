\* Two legacy events, two more of the application's own.
SPECIFICATION Spec
CONSTANTS
    e1 = e1
    e2 = e2
    e3 = e3
    e4 = e4
    Legacy <- MCLegacy
    Events <- MCEvents
    Unreadable <- MCUnreadable
    MaxLeft = 2
PROPERTY NothingIsLost
INVARIANT LedgerIsWhole
PROPERTY RetriesSucceed
