CONSTANTS
    MaxDay = 4
    MaxRecords = 2
    MaxFaults = 2
    Limit = 2
SPECIFICATION DailySpec
INVARIANTS PromotedOncePerCut MissesOnlyLate
PROPERTIES DigestsSettle
