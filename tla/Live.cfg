SPECIFICATION LiveSpec
CONSTANTS
    Conversations = {c1}
    Workers = {w1, w2}
    NoConversation = none
    DispatchMode = "cloud_tasks"
    Sessions = {"platform", "byok"}
    Outcomes = {"keep", "error"}
    UserActions = {"delete"}
    MaxAttempts = 2
    MaxFaults = 2
CHECK_DEADLOCK FALSE
INVARIANTS
    NothingStranded
    ProjectionAccurate
    NoTaskForByok
    ByokAttemptsBounded
PROPERTIES
    JobsSettle
    ByokJobsSettle
