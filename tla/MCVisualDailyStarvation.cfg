CONSTANTS
    MaxDay = 4
    MaxRecords = 1
    MaxFaults = 0
    Limit = 2
SPECIFICATION DailySpec
PROPERTIES EveryDayDigested
