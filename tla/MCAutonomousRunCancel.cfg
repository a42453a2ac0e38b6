SPECIFICATION Spec
CONSTANTS
    r1 = r1
    Runs <- OneRun
    Nobody = Nobody
    MaxRequests = 1
    MaxTime = 1
    MaxRestarts = 0
    StepLimit = 2
    Cooldown = 1
    ApiOps <- CancelOnly
PROPERTY CancelIsFinal
