SPECIFICATION Spec
CONSTANTS
    r1 = r1
    Runs <- OneRun
    Nobody = Nobody
    MaxRequests = 1
    MaxTime = 2
    MaxRestarts = 1
    StepLimit = 2
    Cooldown = 2
    ApiOps <- AllOps
INVARIANTS RestingIsNotDue
