CONSTANTS
    x = x
    y = y
    nothing = nothing
    NoObject = nothing
    Objects <- MCObjects
    Kinds <- MCKinds
    Candidates <- MCAll
    t1 = t1
    t2 = t2
    Turns = {t1, t2}
    CompareLimit = 1
    MaxUnits = 2
    MaxTurns = 2
    MaxCandidates = 2
    MaxSelected = 1
    MaxLog = 3
    MaxEndings = 1
    MaxRestarts = 1
SPECIFICATION Spec
INVARIANTS DeadStayDead CorrectsTheNewest MemoriesDistinct
CHECK_DEADLOCK FALSE
SYMMETRY Threads
