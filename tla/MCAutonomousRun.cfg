SPECIFICATION FairSpec
CONSTANTS
    r1 = r1
    Runs <- OneRun
    Nobody = Nobody
    MaxRequests = 2
    MaxTime = 3
    MaxRestarts = 1
    StepLimit = 2
    Cooldown = 2
    ApiOps <- CancelOnly
INVARIANTS WaitIsAnswerable OneOpenRequestPerRun
PROPERTIES RestsAfterLimit PausesAreGivenBack WaitEnds
