CONSTANTS
    MaxHour = 4
    MaxCount = 2
    MaxSharp = 1
    MaxFaults = 1
    PageSize = 2
    None = None
SPECIFICATION FairSpec
INVARIANTS TypeOK RowsAreRight
PROPERTIES EveryHourIsCounted ImplementsLedger
