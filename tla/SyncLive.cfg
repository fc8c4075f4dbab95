SPECIFICATION FairSpec
CONSTANTS
    j1 = j1
    j2 = j2
    r1 = r1
    r2 = r2
    s1 = s1
    s2 = s2
    Nobody = Nobody
    Jobs = {j1, j2}
    Runs = {r1, r2}
    Segments = {s1}
    Modes = {"inline", "cloud_tasks"}
    Fences = {"active"}
    StartLedgers = {"none"}
    Outcomes = {"reject", "budget"}
    Faults = {"crash", "stall", "enqueue", "store"}
    MaxFaults = 1
    MaxAttempts = 2
    LongTimers = TRUE
CHECK_DEADLOCK FALSE
PROPERTY DeviceSettles
PROPERTY FailureFreesClaim
