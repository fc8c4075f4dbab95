SPECIFICATION FairSpec
CONSTANTS
    w1 = w1
    w2 = w2
    Workers = {w1, w2}
    MaxRevision = 3
    PageLimit = 2
    Rounds = 2
    MaxAttempts = 2
    Scenarios = {
        {"second", "slow", "erase", "read"},
        {"second", "crash", "ambiguous", "erase"},
        {"second", "crash", "edit", "erase"},
        {"second", "provider", "malformed", "ack", "erase"},
        {"provider", "malformed", "read", "edit", "erase"},
        {"unread", "crash", "edit", "erase"}}
INVARIANTS
    TypeOK
    DrainedMeansConverged
    HolderKeepsLease
PROPERTIES
    DeletedContentLeaves
    EveryEventSettles
CHECK_DEADLOCK FALSE
