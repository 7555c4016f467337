SPECIFICATION Spec
CONSTANTS
    s1 = s1
    s2 = s2
    x1 = x1
    x2 = x2
    NoSec = NoSec
    Issuer <- MCIssuer
    Opening = 4
    Cases <- MCCases
INVARIANT BooksAgree
INVARIANT TruthReconciles
INVARIANT PublishedIsSupported
CHECK_DEADLOCK FALSE
