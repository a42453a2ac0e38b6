SPECIFICATION FairSpec
CONSTANTS
    Foreground = {f1, f2, f3}
    Background = {b1, b2}
    Nobody = Nobody
    MaxTickets = 6
INVARIANTS
    NoLostWakeup
PROPERTIES
    ForegroundFirst
    ForegroundServed
    ImplementsSerialCycles
CHECK_DEADLOCK FALSE
