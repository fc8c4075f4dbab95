SPECIFICATION FairSpec
CONSTANTS
    p1 = p1
    p2 = p2
    d1 = d1
    d2 = d2
    N = 1
    Processors = {p1, p2}
    Pods = {d1}
    Routes = {"finalize", "open", "segments", "merge"}
    StartRows = {"absent", "session", "recording", "lazy", "legacy", "ceiling"}
    Outcomes = {"persist", "defer", "skip", "error", "late"}
    UserActions = {"discard", "restore", "retry"}
    Faults = {"crash", "beat", "stall"}
    Limit = 1
    MaxScan = 1
PROPERTY SpinningEnds
