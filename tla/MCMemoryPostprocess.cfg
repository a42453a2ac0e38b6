CONSTANTS
    MaxJobs = 3
    MaxCrashes = 2
    QueuedAt <- MCQueuedAt
    Doomed <- MCDoomed
SPECIFICATION FairSpec
INVARIANTS JobsNotLost FinishInOrder EffectsOncePerCut
PROPERTIES DeletedNotRun JobsFinish
CHECK_DEADLOCK FALSE
