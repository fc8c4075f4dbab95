SPECIFICATION Spec
CONSTANTS
    Conversations = {c1}
    Workers = {w1, w2}
    NoConversation = none
    DispatchMode = "inline"
    Sessions = {"platform", "byok"}
    Outcomes = {"keep", "hide", "minimum", "error"}
    UserActions = {"restore", "delete"}
    MaxAttempts = 2
    MaxFaults = 2
SYMMETRY WorkerSymmetry
CHECK_DEADLOCK FALSE
INVARIANTS
    OneLeaseOwner
    NothingStranded
