SPECIFICATION FairSpec
CONSTANTS
    p1 = p1
    p2 = p2
    d1 = d1
    d2 = d2
    N = 4
    Processors = {}
    Pods = {d1, d2}
    Routes = {"finalize"}
    StartRows = {"jobLazy", "hidden", "orphan"}
    Outcomes = {"persist"}
    UserActions = {}
    Faults = {}
    Limit = 2
    MaxScan = 3
PROPERTY SpinningEnds
