SPECIFICATION FairSpec
CONSTANTS
    Capabilities = {skill, camera}
    Runner = skill
    MaxRequests = 2
    MaxCrashes = 2
INVARIANTS
    ActionHasRequest
    OneRequestPerCapability
    SyncAnswerKept
PROPERTIES
    BusyIsCleared
    ImplementsRequestLifecycle
    RequestsSettle
    RunnerFreed
CHECK_DEADLOCK FALSE
