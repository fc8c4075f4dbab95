SPECIFICATION Spec
CONSTANTS
    j1 = j1
    j2 = j2
    r1 = r1
    r2 = r2
    s1 = s1
    s2 = s2
    Nobody = Nobody
    Jobs = {j1, j2}
    Runs = {r1, r2}
    Segments = {s1, s2}
    Modes = {"inline", "cloud_tasks"}
    Fences = {"legacy", "active"}
    StartLedgers = {"none", "malformed"}
    Outcomes = {"empty", "error", "fatal", "superseded"}
    Faults = {"crash", "stall", "leaf", "duplicate", "enqueue", "staging", "reply", "store"}
    MaxFaults = 1
    MaxAttempts = 2
    LongTimers = FALSE
CHECK_DEADLOCK FALSE
SYMMETRY Symmetry
INVARIANT TypeOK
INVARIANT NoAudioLost
INVARIANT CompletionProven
INVARIANT HolderOwnsLedger
PROPERTY CompletionKept
