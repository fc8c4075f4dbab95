SPECIFICATION FairSpec
CONSTANTS
    r1 = r1
    r2 = r2
    t1 = t1
    t2 = t2
    d1 = d1
    user = user
    none = none
    Runs = {r1, r2}
    Tasks = {t1, t2}
    Pods = {d1}
    User = user
    Nobody = none
    Scenarios = {{"job", "abandon"}}
    MaxAttempts = 2
PROPERTY
    DeletionNeverGivesUp
CHECK_DEADLOCK FALSE
