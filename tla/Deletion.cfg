SPECIFICATION FairSpec
CONSTANTS
    r1 = r1
    r2 = r2
    t1 = t1
    t2 = t2
    d1 = d1
    user = user
    none = none
    Runs = {r1, r2}
    Tasks = {t1, t2}
    Pods = {d1}
    User = user
    Nobody = none
    Scenarios = {
        {"hold", "cancel", "fail"},
        {"hold", "crash", "fail"},
        {"memory", "crash", "store"},
        {"job", "abandon", "fail"},
        {"hold", "memory", "enqueue"},
        {"write", "ambiguous", "store"}}
    MaxAttempts = 2
INVARIANTS
    TypeOK
    OneWiper
    HoldRespected
    Erased
PROPERTY
    DeletionCompletes
CHECK_DEADLOCK FALSE
