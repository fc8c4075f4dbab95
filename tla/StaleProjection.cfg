SPECIFICATION FairSpec
CONSTANTS
    w1 = w1
    w2 = w2
    Workers = {w1, w2}
    MaxRevision = 3
    PageLimit = 2
    Rounds = 2
    MaxAttempts = 2
    Scenarios = {{"second", "unread", "erase"}}
INVARIANT
    DrainedMeansConverged
CHECK_DEADLOCK FALSE
