CONSTANTS
    console = console
    local = local
    Sessions = {s1, s2}
    Clients = {console, local}
    Hellos <- MCHellos
    Unknown = Unknown
    Absent = Absent
    Nobody = Nobody
    Cycles = {c1, c2}
    Capacity = 1
    Settings <- MCSettings
    NoCycle = NoCycle
SPECIFICATION Spec
SYMMETRY MCSymmetry
INVARIANTS SourcesUnique AudioFollowsMessage HeardOnce WillBeActivated WorkerNotStranded
CHECK_DEADLOCK FALSE
