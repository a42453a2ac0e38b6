CONSTANTS
    Keys = {"k"}
    NoKey = NoKey
    Interval = 2
    RetryDelay = 1
    Window = 3
    Limit = 2
    Cooldown = 2
    Expiry = 3
    MaxTime = 5
SPECIFICATION Spec
INVARIANTS CandidatesRest
PROPERTIES ThoughtsSpaced SpokenOnceAWhile
