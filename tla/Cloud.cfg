SPECIFICATION Spec
CONSTANTS
    Conversations = {c1}
    Workers = {w1, w2}
    NoConversation = none
    DispatchMode = "cloud_tasks"
    Sessions = {"platform"}
    Outcomes = {"keep", "hide", "minimum", "defer", "skip", "error"}
    UserActions = {"discard", "restore", "delete", "cutover"}
    MaxAttempts = 2
    MaxFaults = 2
SYMMETRY WorkerSymmetry
CHECK_DEADLOCK FALSE
INVARIANTS
    TypeOK
    SuccessMeansFanout
PROPERTIES
    TerminalIsFinal
    DeletedStaysDeleted
    KeepsPromise
