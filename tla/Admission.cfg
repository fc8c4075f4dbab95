SPECIFICATION Spec
CONSTANTS
    p1 = p1
    p2 = p2
    d1 = d1
    d2 = d2
    N = 1
    Processors = {p1, p2}
    Pods = {d1, d2}
    Routes = {"finalize", "open", "segments", "merge", "job"}
    StartRows = {"absent", "session", "recording", "lazy", "legacy", "ceiling"}
    Outcomes = {"persist", "defer", "skip", "error", "late"}
    UserActions = {"discard", "retry"}
    Faults = {"crash", "beat", "pod"}
    Limit = 1
    MaxScan = 1
SYMMETRY Symmetry
INVARIANT TypeOK
 
PROPERTY SweepSparesOwners
