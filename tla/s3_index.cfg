SPECIFICATION Spec
CONSTANTS
    p1 = p1  p2 = p2
    j1 = j1  j2 = j2  j3 = j3
    c1 = c1  c2 = c2
    Procs = {p1, p2}
    Jobs = {j1, j2, j3}
    Docs <- MCDocs
    PutBatch = 2
    Chats = {c1, c2}
    BlockingProvider = FALSE
    MaxCrashes = 1
    Idle = Idle
    Nowhere = Nowhere
SYMMETRY ProcSymmetry
CHECK_DEADLOCK FALSE
INVARIANTS
    S3TypeOK AcknowledgedIsStored TotalsAreHonest EnsuredOncePerLife FreshSeesAllProcesses
