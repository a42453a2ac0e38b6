CONSTANTS
    browser = browser
    local = local
    web = web
    Sessions = {s1}
    Clients = {browser}
    Hellos <- MCHellos
    Unknown = Unknown
    Absent = Absent
    Nobody = Nobody
    Microphones = {local, web}
    Endpoint <- MCEndpoint
    Settings <- MCSettings
    Start <- MCStart
    MaxLeases = 2
    MaxEnrollments = 2
    MaxWaiting = 1
    Required = 2
    None = None
SPECIFICATION Spec
INVARIANTS LeaseIsActive SamplesAreOwn EnrollmentIsPrivate PauseIsExact
CHECK_DEADLOCK FALSE
