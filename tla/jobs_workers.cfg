SPECIFICATION Spec
CONSTANTS
    p1 = p1
    p2 = p2
    p3 = p3
    p4 = p4
    Proc = {p1, p2, p3}
    PidOf <- Distinct
    HostOf <- OneHost
    Job = {sync, scrape}
    Pipeline = pipeline
    Run = {r1, r2}
    NoProc = NoProc
    NoJob = NoJob
    TTL = 4
    MinInterval = 1
    Late = 1
    Concurrent = TRUE
    Faults = {"begin"}
SYMMETRY Symmetric
INVARIANTS MutualExclusion LocksHeld
PROPERTY ImplementsSerialJobs
