CONSTANTS
    w1 = w1  w2 = w2  o1 = o1  o2 = o2  p1 = p1  p2 = p2
    None = None
    Workers = {w1, w2}
    Processes <- TwoProcesses
    ProcessOf <- OnePerProcess
    Objects = {o1}
    KindOf <- PlainKind
    Payloads = {p1}
    Legacy = {}
    LegacyPayload = p1
    Faults = {"lost", "refused", "crash"}
    Ops = {"run"}
    MaxAttempts = 0
SPECIFICATION FairSpec
PROPERTIES EveryRequestReturns PublicationIsDecided
