CONSTANTS
    w1 = w1  w2 = w2  o1 = o1  o2 = o2  p1 = p1  p2 = p2
    None = None
    Workers = {w1, w2}
    Processes <- TwoProcesses
    ProcessOf <- OnePerProcess
    Objects = {o1}
    KindOf <- ReleaseKind
    Payloads = {p1, p2}
    Legacy = {o1}
    LegacyPayload = p1
    Faults = {"crash", "refused"}
    Ops = {"run", "replay"}
    MaxAttempts = 0
SYMMETRY WorkerSymmetry
SPECIFICATION Spec
PROPERTIES PublishedInsideGate
