SPECIFICATION FairSpec
CONSTANTS
    DayLength = 6
    Morning = 1
    Open = 2
    Close = 3
    Night = 5
    Prices = {1, 2}
    FirstDay = 4
    LastDay = 8
    MaxFaults = 2
INVARIANTS
    TypeOK
    ChartEndsInSession
PROPERTIES
    RestoredClose
    CloseStaysRight
    CloseComesBack
CHECK_DEADLOCK FALSE
