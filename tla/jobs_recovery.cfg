SPECIFICATION LiveSpec
CONSTANTS
    p1 = p1
    p2 = p2
    p3 = p3
    p4 = p4
    Proc = {p1, p2, p3}
    PidOf <- Reused
    HostOf <- TwoHosts
    Job = {sync}
    Pipeline = pipeline
    Run = {r1, r2}
    NoProc = NoProc
    NoJob = NoJob
    TTL = 4
    MinInterval = 1
    Late = 1
    Concurrent = FALSE
    Faults = {"crash", "finish", "touch"}
PROPERTY AbandonedClosed
